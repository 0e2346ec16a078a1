--------------------------- MODULE LogStoreProofs ---------------------------
(***************************************************************************)
(* Proofs about the paginated search, for any set of handlers, any number  *)
(* of rows, any limit and any filter.                                      *)
(***************************************************************************)
EXTENDS LogStore, FiniteSetTheorems, WellFoundedInduction, TLAPS

-----------------------------------------------------------------------------
(* Validate leaves a positive limit of at most MaxLimit, whatever the      *)
(* request asks for.                                                       *)
LEMMA LimitIsPositive == Limit \in Nat \ {0} /\ Limit <= MaxLimit
  BY LogStoreAssumption DEF Limit

(* A finite set of integers that is not empty has a least element: a set   *)
(* of the form {j \in S : j < x} that contains no other of that form.      *)
LEMMA MinIsLeast ==
  ASSUME NEW S \in SUBSET Int, IsFiniteSet(S), S # {}
  PROVE  Min(S) \in S /\ \A y \in S : Min(S) <= y
<1> DEFINE Below(x) == {j \in S : j < x}
           T == {Below(x) : x \in S}
<1>1. T \subseteq FiniteSubsetsOf(S) /\ T # {}
  <2>1. \A x \in S : Below(x) \in SUBSET S
    OBVIOUS
  <2>2. \A x \in S : IsFiniteSet(Below(x))
    BY <2>1, FS_Subset
  <2> QED
    BY <2>1, <2>2 DEF FiniteSubsetsOf
<1>2. \E U \in T : \A V \in T : ~ (<<V, U>> \in StrictSubsetOrdering(S))
  <2> HIDE DEF T
  <2> QED
    BY <1>1, FS_StrictSubsetOrderingWellFounded, WFMin
<1>3. PICK x \in S :
        \A y \in S : ~ (<<Below(y), Below(x)>> \in StrictSubsetOrdering(S))
  BY <1>2
<1>4. \A y \in S : x <= y
  <2> SUFFICES ASSUME NEW y \in S, y < x PROVE FALSE
    OBVIOUS
  <2>1. y \in Below(x) /\ y \notin Below(y)
    OBVIOUS
  <2>2. ASSUME NEW z \in Below(y) PROVE z \in Below(x)
    <3>1. x \in Int /\ y \in Int /\ z \in Int
      OBVIOUS
    <3> QED
      BY <3>1
  <2> QED
    BY <2>1, <2>2, <1>3 DEF StrictSubsetOrdering
<1> QED
  BY <1>4 DEF Min

(* And a greatest one.                                                     *)
LEMMA GreatestExists ==
  ASSUME NEW S \in SUBSET Int, IsFiniteSet(S), S # {}
  PROVE  \E x \in S : \A y \in S : y <= x
<1> DEFINE Above(x) == {j \in S : j > x}
           T == {Above(x) : x \in S}
<1>1. T \subseteq FiniteSubsetsOf(S) /\ T # {}
  <2>1. \A x \in S : Above(x) \in SUBSET S
    OBVIOUS
  <2>2. \A x \in S : IsFiniteSet(Above(x))
    BY <2>1, FS_Subset
  <2> QED
    BY <2>1, <2>2 DEF FiniteSubsetsOf
<1>2. \E U \in T : \A V \in T : ~ (<<V, U>> \in StrictSubsetOrdering(S))
  <2> HIDE DEF T
  <2> QED
    BY <1>1, FS_StrictSubsetOrderingWellFounded, WFMin
<1>3. PICK x \in S :
        \A y \in S : ~ (<<Above(y), Above(x)>> \in StrictSubsetOrdering(S))
  BY <1>2
<1>4. \A y \in S : y <= x
  <2> SUFFICES ASSUME NEW y \in S, y > x PROVE FALSE
    OBVIOUS
  <2>1. y \in Above(x) /\ y \notin Above(y)
    OBVIOUS
  <2>2. ASSUME NEW z \in Above(y) PROVE z \in Above(x)
    <3>1. x \in Int /\ y \in Int /\ z \in Int
      OBVIOUS
    <3> QED
      BY <3>1
  <2> QED
    BY <2>1, <2>2, <1>3 DEF StrictSubsetOrdering
<1> QED
  BY <1>4

-----------------------------------------------------------------------------
(* The rows above a row form a finite set, which shrinks as the row grows. *)
LEMMA AboveShrinks ==
  ASSUME NEW S \in SUBSET Int, IsFiniteSet(S),
         NEW i \in S, NEW m \in S, m <= i
  PROVE  /\ Cardinality({j \in S : j > i}) \in Nat
         /\ Cardinality({j \in S : j > m}) \in Nat
         /\ Cardinality({j \in S : j > i}) <= Cardinality({j \in S : j > m})
<1> DEFINE A == {j \in S : j > i}
           B == {j \in S : j > m}
<1>1. B \in SUBSET S
  OBVIOUS
<1>2. ASSUME NEW z \in A PROVE z \in B
  <2>1. i \in Int /\ m \in Int /\ z \in Int
    OBVIOUS
  <2> QED
    BY <2>1
<1> HIDE DEF A, B
<1>3. IsFiniteSet(B)
  BY <1>1, FS_Subset
<1>4. IsFiniteSet(A) /\ Cardinality(A) <= Cardinality(B)
  <2>1. A \in SUBSET B
    BY <1>2
  <2> QED
    BY <2>1, <1>3, FS_Subset
<1>5. Cardinality(A) \in Nat /\ Cardinality(B) \in Nat
  BY <1>3, <1>4, FS_CardinalityType
<1> QED
  BY <1>4, <1>5 DEF A, B

(* ORDER BY id DESC LIMIT n: the answer is part of the rows, with each row *)
(* holds all rows above it, and is empty only if there are no rows.        *)
LEMMA LargestIsTop ==
  ASSUME NEW S \in SUBSET Int, IsFiniteSet(S), NEW n \in Nat \ {0}
  PROVE  /\ Largest(n, S) \in SUBSET S
         /\ IsFiniteSet(Largest(n, S))
         /\ \A m \in Largest(n, S), i \in S : m <= i => i \in Largest(n, S)
         /\ S # {} => Largest(n, S) # {}
<1>1. Largest(n, S) \in SUBSET S
  BY DEF Largest
<1>2. IsFiniteSet(Largest(n, S))
  BY <1>1, FS_Subset
<1>3. ASSUME NEW m \in Largest(n, S), NEW i \in S, m <= i
      PROVE  i \in Largest(n, S)
  <2>1. m \in S /\ Cardinality({j \in S : j > m}) < n
    BY DEF Largest
  <2>2. /\ Cardinality({j \in S : j > i}) \in Nat
        /\ Cardinality({j \in S : j > m}) \in Nat
        /\ Cardinality({j \in S : j > i}) <= Cardinality({j \in S : j > m})
    BY <2>1, <1>3, AboveShrinks
  <2>3. Cardinality({j \in S : j > i}) < n
    BY <2>1, <2>2
  <2> QED
    BY <2>3 DEF Largest
<1>4. ASSUME S # {} PROVE Largest(n, S) # {}
  <2>1. PICK x \in S : \A y \in S : y <= x
    BY <1>4, GreatestExists
  <2>2. {j \in S : j > x} = {}
    <3>1. \A y \in S : y \in Int /\ x \in Int
      OBVIOUS
    <3>2. \A y \in S : ~ (y > x)
      BY <2>1, <3>1
    <3> QED
      BY <3>2
  <2>3. Cardinality({j \in S : j > x}) < n
    BY <2>2, FS_EmptySet
  <2> QED
    BY <2>3 DEF Largest
<1> QED
  BY <1>1, <1>2, <1>3, <1>4

(* LIMIT n: at most n rows.                                                *)
LEMMA LargestIsLimited ==
  ASSUME NEW S \in SUBSET Int, IsFiniteSet(S), NEW n \in Nat \ {0}
  PROVE  Cardinality(Largest(n, S)) \in Nat /\ Cardinality(Largest(n, S)) <= n
<1> DEFINE L == Largest(n, S)
<1>1. L \in SUBSET S /\ IsFiniteSet(L)
  BY LargestIsTop
<1>2. Cardinality(L) \in Nat
  BY <1>1, FS_CardinalityType
<1>3. CASE L = {}
  BY <1>3, FS_EmptySet
<1>4. CASE L # {}
  <2> DEFINE x == Min(L)
             A == {j \in S : j > x}
  <2>1. x \in L /\ \A y \in L : x <= y
    BY <1>1, <1>4, MinIsLeast
  <2>2. A \in SUBSET S /\ L \ {x} \in SUBSET A
    <3>1. ASSUME NEW z \in L \ {x} PROVE z \in A
      <4>1. z \in S /\ x \in S /\ z \in Int /\ x \in Int
        BY <1>1, <2>1
      <4>2. z > x
        BY <4>1, <2>1
      <4> QED
        BY <4>1, <4>2
    <3>2. A \in SUBSET S
      OBVIOUS
    <3> QED
      BY <3>1, <3>2
  <2>3. IsFiniteSet(A) /\ Cardinality(A) < n
    <3>1. IsFiniteSet(A)
      BY <2>2, FS_Subset
    <3>2. Cardinality(A) < n
      BY <2>1 DEF Largest
    <3> QED
      BY <3>1, <3>2
  <2>4. Cardinality(A) \in Nat
    BY <2>3, FS_CardinalityType
  <2> HIDE DEF L, x, A
  <2>5. Cardinality(L \ {x}) <= Cardinality(A)
    BY <2>2, <2>3, FS_Subset
  <2>6. Cardinality(L \ {x}) = Cardinality(L) - 1
    BY <1>1, <2>1, FS_RemoveElement
  <2>7. Cardinality(L) <= n
    BY <1>2, <2>3, <2>4, <2>5, <2>6
  <2> QED
    BY <1>2, <2>7 DEF L
<1> QED
  BY <1>2, <1>3, <1>4

(* Without a probe row the limit cuts nothing off.  Otherwise the greatest *)
(* row cut off would be the probe row.                                     *)
LEMMA NoProbeNoRest ==
  ASSUME NEW S \in SUBSET Int, IsFiniteSet(S), NEW n \in Nat \ {0},
         Cardinality(Largest(n + 1, S)) <= n
  PROVE  Largest(n, S) = S
<1> DEFINE L == Largest(n, S)
           P == Largest(n + 1, S)
           R == S \ L
<1>1. L \in SUBSET S /\ P \in SUBSET S /\ IsFiniteSet(P)
  BY LargestIsTop
<1> SUFFICES ASSUME R # {} PROVE FALSE
  BY <1>1
<1>2. IsFiniteSet(R) /\ R \in SUBSET Int
  BY FS_Difference
<1>3. PICK x \in R : \A y \in R : y <= x
  <2> HIDE DEF R
  <2> QED
    BY <1>2, GreatestExists
<1> DEFINE A == {j \in S : j > x}
<1>4. x \in S /\ x \in Int /\ IsFiniteSet(A)
  <2>1. A \in SUBSET S
    OBVIOUS
  <2> QED
    BY <2>1, FS_Subset
<1>5. A \in SUBSET L
  <2> SUFFICES ASSUME NEW j \in A PROVE j \in L
    OBVIOUS
  <2>1. j \in S /\ j \in Int /\ j > x
    OBVIOUS
  <2> QED
    BY <2>1, <1>3, <1>4
<1>6. Cardinality(A) \in Nat /\ Cardinality(A) >= n
  <2>1. Cardinality(A) \in Nat
    BY <1>4, FS_CardinalityType
  <2>2. ~ (Cardinality(A) < n)
    BY <1>4 DEF Largest
  <2> QED
    BY <2>1, <2>2
<1>7. Cardinality(A) <= n
  <2>1. IsFiniteSet(L) /\ Cardinality(L) \in Nat /\ Cardinality(L) <= n
    BY LargestIsTop, LargestIsLimited
  <2> HIDE DEF A, L
  <2>2. Cardinality(A) <= Cardinality(L)
    BY <1>5, <2>1, FS_Subset
  <2> QED
    BY <1>6, <2>1, <2>2
<1>8. x \in P
  BY <1>4, <1>6, <1>7 DEF Largest
<1>9. A \cup {x} \in SUBSET P
  <2> SUFFICES ASSUME NEW j \in A PROVE j \in P
    BY <1>8
  <2>1. j \in S /\ x <= j
    BY <1>4
  <2> QED
    BY <2>1, <1>8, LargestIsTop
<1>10. Cardinality(A \cup {x}) = Cardinality(A) + 1 /\ IsFiniteSet(A \cup {x})
  <2>1. x \notin A
    BY <1>4
  <2> QED
    BY <2>1, <1>4, FS_AddElement
<1> HIDE DEF A, P
<1>11. Cardinality(A \cup {x}) <= Cardinality(P) /\ Cardinality(P) \in Nat
  BY <1>1, <1>9, FS_Subset, FS_CardinalityType
<1>12. Cardinality(P) <= n
  BY DEF P
<1> QED
  BY <1>6, <1>10, <1>11, <1>12

(* With a probe row there is a row below all that the limit lets through.  *)
LEMMA ProbeMeansRest ==
  ASSUME NEW S \in SUBSET Int, IsFiniteSet(S), NEW n \in Nat \ {0},
         Cardinality(Largest(n + 1, S)) > n
  PROVE  /\ Largest(n, S) # {}
         /\ \E i \in S : \A m \in Largest(n, S) : i < m
<1> DEFINE L == Largest(n, S)
           P == Largest(n + 1, S)
<1>1. /\ L \in SUBSET S /\ IsFiniteSet(L) /\ Cardinality(L) <= n
      /\ Cardinality(L) \in Nat
      /\ P \in SUBSET S /\ IsFiniteSet(P)
      /\ Cardinality(P) \in Nat
  <2>1. n + 1 \in Nat \ {0}
    OBVIOUS
  <2>2. L \in SUBSET S /\ IsFiniteSet(L) /\ P \in SUBSET S /\ IsFiniteSet(P)
    BY <2>1, LargestIsTop
  <2>3. Cardinality(L) \in Nat /\ Cardinality(L) <= n
    BY LargestIsLimited
  <2>4. Cardinality(P) \in Nat
    BY <2>1, LargestIsLimited
  <2> QED
    BY <2>2, <2>3, <2>4
<1>2. PICK i \in P : i \notin L
  <2> SUFFICES ASSUME P \in SUBSET L PROVE FALSE
    OBVIOUS
  <2> HIDE DEF P, L
  <2>1. Cardinality(P) <= Cardinality(L)
    BY <1>1, FS_Subset
  <2>2. Cardinality(P) > n
    BY DEF P
  <2> QED
    BY <2>1, <2>2, <1>1
<1>3. \A m \in L : i < m
  <2> SUFFICES ASSUME NEW m \in L, ~ (i < m) PROVE FALSE
    OBVIOUS
  <2>1. i \in S /\ m \in S
    BY <1>1, <1>2
  <2>2. i \in Int /\ m \in Int
    BY <2>1
  <2>3. m <= i
    BY <2>2
  <2> QED
    BY <2>1, <2>3, <1>2, LargestIsTop
<1>4. S # {}
  BY <1>1, <1>2
<1> QED
  BY <1>1, <1>2, <1>3, <1>4, LargestIsTop

-----------------------------------------------------------------------------
(* The rows of an open transaction were never visible, and no two          *)
(* transactions hold one row.                                              *)
OpenRowsAreNew ==
  /\ \A h \in Handlers : inserting[h] \cap (rows \cup dropped) = {}
  /\ \A g, h \in Handlers : g # h => inserting[g] \cap inserting[h] = {}

(* What the first page started from was visible and matched the filter.    *)
SnapshotWasVisible == snapshot \subseteq (rows \cup dropped) \cap Matching

(* The cursor is at or below everything that was returned.                 *)
CursorIsLeast == \A i \in page \cup earlier : cursor <= i

(* The inductive invariant: the three properties, and what they rest on.   *)
LogStoreInv ==
  /\ TypeOK
  /\ OpenRowsAreNew
  /\ SnapshotWasVisible
  /\ CursorIsLeast
  /\ PagesDescend
  /\ NothingIsSkipped
  /\ CursorLeadsSomewhere

(* One query: the rows it selects are below the cursor; its page holds the *)
(* top of them and the new cursor is the least of the page; with null      *)
(* nothing is left, and otherwise a row is.                                *)
LEMMA QueryAnswers ==
  ASSUME TypeOK, NEW c \in Nat
  PROVE  /\ Selected(c) = {i \in rows \cap Matching : c > 0 => i < c}
         /\ Page(c) \in SUBSET Selected(c)
         /\ Cardinality(Page(c)) <= Limit
         /\ \A i \in Page(c) : NextCursor(c) <= i
         /\ NextCursor(c) \in Page(c) \cup {0}
         /\ \A i \in Selected(c) : i >= NextCursor(c) => i \in Page(c)
         /\ NextCursor(c) > 0 => \E i \in Selected(c) : i < NextCursor(c)
<1> DEFINE S == Selected(c)
<1>1. lastId \in Nat /\ rows \in SUBSET (1..lastId) /\ Limit \in Nat \ {0}
  BY LogStoreAssumption, LimitIsPositive DEF TypeOK
<1>2. S \in SUBSET Int /\ S \in SUBSET Nat /\ IsFiniteSet(S)
  <2>1. S \in SUBSET (1..lastId)
    BY <1>1 DEF Selected
  <2> HIDE DEF S
  <2>2. IsFiniteSet(1..lastId)
    BY <1>1, FS_Interval
  <2>3. IsFiniteSet(S)
    BY <2>1, <2>2, FS_Subset
  <2> QED
    BY <1>1, <2>1, <2>3
<1>3. Selected(c) = {i \in rows \cap Matching : c > 0 => i < c}
  BY DEF Selected
<1> HIDE DEF S
<1> DEFINE L == Largest(Limit, S)
           P == Largest(Limit + 1, S)
<1>4. /\ Page(c) = L
      /\ NextCursor(c) = IF Cardinality(P) > Limit THEN Min(L) ELSE 0
  BY DEF Page, NextCursor, HasNext, S
<1>5. /\ L \in SUBSET S /\ IsFiniteSet(L) /\ Cardinality(L) <= Limit
      /\ \A m \in L, i \in S : m <= i => i \in L
  BY <1>1, <1>2, LargestIsTop, LargestIsLimited
<1>6. CASE Cardinality(P) > Limit
  <2>1. L # {} /\ \E i \in S : \A m \in L : i < m
    BY <1>1, <1>2, <1>6, ProbeMeansRest
  <2> HIDE DEF L, P
  <2>2. Min(L) \in L /\ \A y \in L : Min(L) <= y
    BY <1>2, <1>5, <2>1, MinIsLeast
  <2>3. NextCursor(c) = Min(L)
    BY <1>4, <1>6
  <2>4. NextCursor(c) \in Int
    BY <1>2, <1>5, <2>2, <2>3
  <2>5. \A i \in S : i >= NextCursor(c) => i \in L
    <3> SUFFICES ASSUME NEW i \in S, i >= NextCursor(c) PROVE i \in L
      OBVIOUS
    <3>1. Min(L) <= i
      BY <1>2, <2>3, <2>4
    <3> QED
      BY <3>1, <2>2, <1>5
  <2> QED
    BY <1>3, <1>4, <1>5, <2>1, <2>2, <2>3, <2>5 DEF S
<1>7. CASE ~ (Cardinality(P) > Limit)
  <2>1. Cardinality(P) <= Limit
    <3>1. Limit + 1 \in Nat \ {0}
      BY <1>1
    <3>2. Cardinality(P) \in Nat
      BY <1>2, <3>1, LargestIsLimited
    <3> QED
      BY <1>1, <1>7, <3>2
  <2>2. L = S
    BY <1>1, <1>2, <2>1, NoProbeNoRest
  <2>3. NextCursor(c) = 0
    BY <1>4, <1>7
  <2> HIDE DEF L, P
  <2>4. \A i \in L : NextCursor(c) <= i
    BY <1>2, <1>5, <2>3
  <2> QED
    BY <1>3, <1>4, <1>5, <2>2, <2>3, <2>4 DEF S
<1> QED
  BY <1>6, <1>7

-----------------------------------------------------------------------------
(* The empty table and a client that has not asked yet.                    *)
LEMMA InitInv == Init => LogStoreInv
<1> SUFFICES ASSUME Init PROVE LogStoreInv
  OBVIOUS
<1>1. Cardinality({}) = 0
  BY FS_EmptySet
<1> QED
  BY <1>1, LogStoreAssumption, LimitIsPositive
     DEF Init, LogStoreInv, TypeOK, OpenRowsAreNew, SnapshotWasVisible,
         CursorIsLeast, PagesDescend, NothingIsSkipped, CursorLeadsSomewhere

(* A new row is in no set yet.                                             *)
LEMMA InsertRowInv ==
  ASSUME LogStoreInv, NEW h \in Handlers, InsertRow(h)
  PROVE  LogStoreInv'
<1> USE DEF LogStoreInv, InsertRow, clientVars
<1>1. lastId \in Nat /\ lastId + 1 \in 1..MaxId /\ lastId' = lastId + 1
  BY LogStoreAssumption, LimitIsPositive DEF TypeOK
<1>2. 1..lastId \subseteq 1..lastId' /\ lastId' \in 1..lastId' /\ lastId' \notin 1..lastId
  BY <1>1
<1>3. \A g \in Handlers : inserting[g] \subseteq 1..lastId
  BY DEF TypeOK
<1>4. \A g \in Handlers :
        inserting'[g] = inserting[g] \cup (IF g = h THEN {lastId'} ELSE {})
  BY DEF TypeOK
<1>5. TypeOK'
  <2>1. inserting' \in [Handlers -> SUBSET (1..lastId')]
    <3>1. \A g \in Handlers : inserting'[g] \subseteq 1..lastId'
      BY <1>2, <1>3, <1>4
    <3> QED
      BY <3>1 DEF TypeOK
  <2>2. rows' \subseteq 1..lastId' /\ dropped' \subseteq 1..lastId'
    BY <1>2 DEF TypeOK
  <2>3. cursor' \in 0..lastId' /\ lastId' \in 0..MaxId
    BY <1>1, LogStoreAssumption, LimitIsPositive DEF TypeOK
  <2>4. {page', earlier', snapshot'} \subseteq SUBSET (1..lastId')
    BY <1>2 DEF TypeOK
  <2>5. (Cardinality(page) <= Limit)'
    BY DEF TypeOK
  <2> QED
    BY <2>1, <2>2, <2>3, <2>4, <2>5 DEF TypeOK
<1>6. OpenRowsAreNew'
  <2>1. lastId' \notin rows \cup dropped
    BY <1>2 DEF TypeOK
  <2>2. \A g \in Handlers : lastId' \notin inserting[g]
    BY <1>2, <1>3
  <2> QED
    BY <1>4, <2>1, <2>2 DEF OpenRowsAreNew
<1>7. SnapshotWasVisible' /\ CursorIsLeast'
  BY DEF SnapshotWasVisible, CursorIsLeast
<1>8. PagesDescend' /\ NothingIsSkipped' /\ CursorLeadsSomewhere'
  BY DEF PagesDescend, NothingIsSkipped, CursorLeadsSomewhere
<1> QED
  BY <1>5, <1>6, <1>7, <1>8

(* A commit shows rows that no snapshot holds.                             *)
LEMMA CommitInv ==
  ASSUME LogStoreInv, NEW h \in Handlers, Commit(h)
  PROVE  LogStoreInv'
<1> USE DEF LogStoreInv, Commit, clientVars
<1>1. inserting[h] \subseteq 1..lastId /\ inserting[h] \cap (rows \cup dropped) = {}
  BY DEF TypeOK, OpenRowsAreNew
<1>2. TypeOK'
  BY <1>1 DEF TypeOK
<1>3. OpenRowsAreNew'
  <2>1. \A g \in Handlers : inserting'[g] = IF g = h THEN {} ELSE inserting[g]
    BY DEF TypeOK
  <2> QED
    BY <2>1 DEF OpenRowsAreNew
<1>4. SnapshotWasVisible' /\ CursorIsLeast' /\ PagesDescend'
  BY DEF SnapshotWasVisible, CursorIsLeast, PagesDescend
<1>5. NothingIsSkipped'
  <2>1. snapshot \cap rows' = snapshot \cap rows
    BY <1>1 DEF SnapshotWasVisible
  <2> QED
    BY <2>1 DEF NothingIsSkipped
<1>6. CursorLeadsSomewhere'
  BY DEF CursorLeadsSomewhere
<1> QED
  BY <1>2, <1>3, <1>4, <1>5, <1>6

(* A rollback only frees the rows.                                         *)
LEMMA RollBackInv ==
  ASSUME LogStoreInv, NEW h \in Handlers, RollBack(h)
  PROVE  LogStoreInv'
<1> USE DEF LogStoreInv, RollBack, clientVars
<1>1. TypeOK'
  BY DEF TypeOK
<1>2. OpenRowsAreNew'
  <2>1. \A g \in Handlers : inserting'[g] = IF g = h THEN {} ELSE inserting[g]
    BY DEF TypeOK
  <2> QED
    BY <2>1 DEF OpenRowsAreNew
<1>3. SnapshotWasVisible' /\ CursorIsLeast' /\ PagesDescend'
  BY DEF SnapshotWasVisible, CursorIsLeast, PagesDescend
<1>4. NothingIsSkipped' /\ CursorLeadsSomewhere'
  BY DEF NothingIsSkipped, CursorLeadsSomewhere
<1> QED
  BY <1>1, <1>2, <1>3, <1>4

(* Retention takes rows out of the promises and keeps them as dropped.     *)
LEMMA DropChunkInv ==
  ASSUME LogStoreInv, DropChunk
  PROVE  LogStoreInv'
<1> USE DEF LogStoreInv, clientVars
<1>1. PICK chunk \in SUBSET rows : rows' = rows \ chunk /\ dropped' = dropped \cup chunk
  BY DEF DropChunk
<1>2. UNCHANGED <<lastId, inserting, clientVars>> /\ rows' \cup dropped' = rows \cup dropped
  BY <1>1 DEF DropChunk
<1>3. TypeOK'
  BY <1>1, <1>2 DEF TypeOK
<1>4. OpenRowsAreNew'
  BY <1>2 DEF OpenRowsAreNew
<1>5. SnapshotWasVisible' /\ CursorIsLeast' /\ PagesDescend'
  BY <1>2 DEF SnapshotWasVisible, CursorIsLeast, PagesDescend
<1>6. NothingIsSkipped'
  BY <1>1, <1>2 DEF NothingIsSkipped
<1>7. CursorLeadsSomewhere'
  BY <1>2 DEF CursorLeadsSomewhere
<1> QED
  BY <1>3, <1>4, <1>5, <1>6, <1>7

(* The types of an answer, for both kinds of query.                        *)
LEMMA QueryTypes ==
  ASSUME TypeOK, NEW c \in 0..lastId
  PROVE  /\ c \in Nat
         /\ Selected(c) \subseteq 1..lastId
         /\ Page(c) \subseteq 1..lastId
         /\ NextCursor(c) \in 0..lastId
         /\ Cardinality(Page(c)) <= Limit
<1>1. c \in Nat /\ lastId \in Nat /\ rows \subseteq 1..lastId
  BY LogStoreAssumption, LimitIsPositive DEF TypeOK
<1>2. Selected(c) \subseteq rows /\ Page(c) \subseteq Selected(c)
  BY <1>1, QueryAnswers
<1>3. NextCursor(c) \in Page(c) \cup {0} /\ Cardinality(Page(c)) <= Limit
  BY <1>1, QueryAnswers
<1>4. Page(c) \subseteq 1..lastId
  BY <1>1, <1>2
<1>5. NextCursor(c) \in 0..lastId
  BY <1>1, <1>3, <1>4
<1> QED
  BY <1>1, <1>2, <1>3, <1>4, <1>5

(* The first page begins a new search: nothing was returned before it.     *)
LEMMA FirstPageInv ==
  ASSUME LogStoreInv, FirstPage
  PROVE  LogStoreInv'
<1> USE DEF LogStoreInv, FirstPage, storeVars
<1>1. 0 \in 0..lastId
  BY LogStoreAssumption, LimitIsPositive DEF TypeOK
<1>2. TypeOK'
  BY <1>1, QueryTypes DEF TypeOK
<1>3. OpenRowsAreNew'
  BY DEF OpenRowsAreNew
<1>4. SnapshotWasVisible'
  BY QueryAnswers DEF SnapshotWasVisible
<1>5. CursorIsLeast'
  BY QueryAnswers DEF CursorIsLeast
<1>6. PagesDescend'
  BY DEF PagesDescend
<1>7. NothingIsSkipped'
  BY QueryAnswers DEF NothingIsSkipped
<1>8. CursorLeadsSomewhere'
  BY QueryAnswers DEF CursorLeadsSomewhere
<1> QED
  BY <1>2, <1>3, <1>4, <1>5, <1>6, <1>7, <1>8

(* The next page goes on below the cursor, with whatever rows there are    *)
(* now: those of the snapshot that are left are among them.                *)
LEMMA NextPageInv ==
  ASSUME LogStoreInv, NextPage
  PROVE  LogStoreInv'
<1> USE DEF LogStoreInv, NextPage, storeVars
<1>1. /\ cursor \in 0..lastId /\ cursor \in Nat /\ cursor > 0
      /\ lastId \in Nat /\ rows \subseteq Nat
      /\ page \subseteq Nat /\ earlier \subseteq Nat
  BY LogStoreAssumption, LimitIsPositive DEF TypeOK
<1>2. /\ Page(cursor) \subseteq Selected(cursor)
      /\ Selected(cursor) = {i \in rows \cap Matching : i < cursor}
      /\ \A i \in Page(cursor) : cursor' <= i
      /\ cursor' \in Page(cursor) \cup {0}
      /\ \A i \in Selected(cursor) : i >= cursor' => i \in Page(cursor)
      /\ cursor' > 0 => \E i \in Selected(cursor) : i < cursor'
  BY <1>1, QueryAnswers
<1>3. TypeOK'
  BY <1>1, QueryTypes DEF TypeOK
<1>4. OpenRowsAreNew' /\ SnapshotWasVisible'
  BY DEF OpenRowsAreNew, SnapshotWasVisible
<1>5. cursor' \in Nat /\ cursor' < cursor
  <2>1. \A i \in Page(cursor) : i \in Nat /\ i < cursor
    BY <1>1, <1>2
  <2> QED
    BY <1>1, <1>2, <2>1
<1>6. CursorIsLeast'
  <2>1. \A i \in page \cup earlier : cursor' <= i
    BY <1>1, <1>5 DEF CursorIsLeast
  <2> QED
    BY <1>2, <2>1 DEF CursorIsLeast
<1>7. PagesDescend'
  <2> SUFFICES ASSUME NEW i \in Page(cursor), NEW j \in earlier \cup page
               PROVE  i < j
    BY DEF PagesDescend
  <2>1. i < cursor /\ cursor <= j
    BY <1>2 DEF CursorIsLeast
  <2>2. i \in Nat /\ j \in Nat
    BY <1>1, <1>2
  <2> QED
    BY <1>1, <2>1, <2>2
<1>8. NothingIsSkipped'
  <2> SUFFICES ASSUME NEW i \in snapshot \cap rows, i >= cursor'
               PROVE  i \in earlier \cup page \cup Page(cursor)
    BY DEF NothingIsSkipped
  <2>1. CASE i >= cursor
    BY <2>1 DEF NothingIsSkipped
  <2>2. CASE ~ (i >= cursor)
    <3>1. i \in Matching /\ i \in Nat /\ i < cursor
      BY <1>1, <2>2 DEF SnapshotWasVisible
    <3> QED
      BY <1>2, <3>1
  <2> QED
    BY <2>1, <2>2
<1>9. CursorLeadsSomewhere'
  BY <1>2 DEF CursorLeadsSomewhere
<1> QED
  BY <1>3, <1>4, <1>6, <1>7, <1>8, <1>9

(* Every step of the table and of the client keeps the invariant.          *)
LEMMA NextInv == LogStoreInv /\ [Next]_vars => LogStoreInv'
<1> SUFFICES ASSUME LogStoreInv, [Next]_vars PROVE LogStoreInv'
  OBVIOUS
<1>1. ASSUME NEW h \in Handlers, InsertRow(h) \/ Commit(h) \/ RollBack(h)
      PROVE  LogStoreInv'
  BY <1>1, InsertRowInv, CommitInv, RollBackInv
<1>2. CASE DropChunk
  BY <1>2, DropChunkInv
<1>3. CASE FirstPage
  BY <1>3, FirstPageInv
<1>4. CASE NextPage
  BY <1>4, NextPageInv
<1>5. CASE UNCHANGED vars
  BY <1>5 DEF vars, LogStoreInv, TypeOK, OpenRowsAreNew, SnapshotWasVisible,
              CursorIsLeast, PagesDescend, NothingIsSkipped, CursorLeadsSomewhere
<1> QED
  BY <1>1, <1>2, <1>3, <1>4, <1>5 DEF Next

(* The invariant holds in every reachable state.                           *)
LEMMA InvHolds == Spec => []LogStoreInv
<1> QED
  BY InitInv, NextInv, PTL DEF Spec

-----------------------------------------------------------------------------
(* The table and the client are type-correct, and no page is longer than   *)
(* the limit (Query: "drop probe row").                                    *)
THEOREM TypeCorrect == Spec => []TypeOK
<1>1. LogStoreInv => TypeOK
  BY DEF LogStoreInv
<1> QED
  BY InvHolds, <1>1, PTL

(* Paging returns rows in descending order and none twice, whatever is     *)
(* inserted, rolled back or dropped between two pages (Query: "id < $n").  *)
THEOREM PagesAlwaysDescend == Spec => []PagesDescend
<1>1. LogStoreInv => PagesDescend
  BY DEF LogStoreInv
<1> QED
  BY InvHolds, <1>1, PTL

(* Paging skips no row that matched at its start and is still there        *)
(* (Query: the cursor is the id of the last row returned).                 *)
THEOREM PagingIsComplete == Spec => []NothingIsSkipped
<1>1. LogStoreInv => NothingIsSkipped
  BY DEF LogStoreInv
<1> QED
  BY InvHolds, <1>1, PTL

(* A cursor that is not null stands for a row behind it (Query: the probe  *)
(* row of LIMIT + 1).                                                      *)
THEOREM CursorsAreHonest == Spec => []CursorLeadsSomewhere
<1>1. LogStoreInv => CursorLeadsSomewhere
  BY DEF LogStoreInv
<1> QED
  BY InvHolds, <1>1, PTL

-----------------------------------------------------------------------------
(* What a whole walk shows.                                                *)

(* A probe row above the limit means a full page.                          *)
LEMMA ProbeMeansFull ==
  ASSUME NEW S \in SUBSET Int, IsFiniteSet(S), NEW n \in Nat \ {0},
         Cardinality(Largest(n + 1, S)) > n
  PROVE  Cardinality(Largest(n, S)) = n
<1> DEFINE L == Largest(n, S)
           P == Largest(n + 1, S)
<1>1. n + 1 \in Nat \ {0}
  OBVIOUS
<1>2. /\ L \in SUBSET S /\ IsFiniteSet(L)
      /\ P \in SUBSET S /\ IsFiniteSet(P)
      /\ Cardinality(P) \in Nat /\ Cardinality(P) > n
  BY <1>1, LargestIsTop, LargestIsLimited
<1>3. Cardinality(L) \in Nat /\ Cardinality(L) <= n
  BY LargestIsLimited
<1>4. PICK m \in P : \A i \in P : m <= i
  <2>1. P # {}
    BY <1>2, FS_EmptySet
  <2>2. P \in SUBSET Int
    BY <1>2
  <2> HIDE DEF P
  <2> QED
    BY <1>2, <2>1, <2>2, MinIsLeast
<1>5. ASSUME NEW i \in P \ {m}
      PROVE  i \in L
  <2> DEFINE A == {j \in S : j > i}
             B == {j \in S : j > m}
  <2>1. m \in S /\ i \in S /\ m \in Int /\ i \in Int /\ m <= i /\ i # m
    BY <1>2, <1>4
  <2>2. Cardinality(B) < n + 1
    BY <1>4 DEF Largest
  <2>3. i \in B /\ i \notin A
    BY <2>1
  <2>4. A \in SUBSET (B \ {i})
    <3> SUFFICES ASSUME NEW j \in A PROVE j \in B /\ j # i
      OBVIOUS
    <3>1. j \in Int
      OBVIOUS
    <3> QED
      BY <2>1, <3>1
  <2>5. IsFiniteSet(B) /\ B \in SUBSET S
    <3>1. B \in SUBSET S
      OBVIOUS
    <3> QED
      BY <3>1, FS_Subset
  <2> HIDE DEF A, B
  <2>6. /\ Cardinality(B \ {i}) = Cardinality(B) - 1
        /\ IsFiniteSet(B \ {i}) /\ Cardinality(B) \in Nat
    BY <2>3, <2>5, FS_RemoveElement, FS_CardinalityType
  <2>7. Cardinality(A) <= Cardinality(B \ {i}) /\ IsFiniteSet(A)
    BY <2>4, <2>6, FS_Subset
  <2>8. Cardinality(A) \in Nat
    BY <2>7, FS_CardinalityType
  <2>9. Cardinality(A) < n
    BY <2>2, <2>6, <2>7, <2>8
  <2> QED
    BY <2>1, <2>9 DEF Largest, A
<1>6. /\ Cardinality(P \ {m}) = Cardinality(P) - 1
      /\ Cardinality(P \ {m}) <= Cardinality(L)
  <2>1. P \ {m} \in SUBSET L
    BY <1>5
  <2> HIDE DEF P, L
  <2> QED
    BY <1>2, <1>4, <2>1, FS_RemoveElement, FS_Subset
<1> HIDE DEF L, P
<1>7. Cardinality(L) = n
  BY <1>2, <1>3, <1>6
<1> QED
  BY <1>7 DEF L

(* A page with a next one is full, no row is there and dropped at once,    *)
(* and what was returned was visible at some time.                         *)
WalkInv ==
  /\ cursor > 0 => Cardinality(page) = Limit
  /\ rows \cap dropped = {}
  /\ earlier \cup page \subseteq (rows \cup dropped) \cap Matching

(* The numbers of a walk.                                                   *)
LEMMA WalkTypes ==
  ASSUME TypeOK
  PROVE  /\ cursor \in Nat /\ Limit \in Nat \ {0} /\ lastId \in Nat
         /\ rows \subseteq Nat /\ snapshot \subseteq Nat
<1>1. lastId \in Nat /\ Limit \in Nat \ {0}
  BY LogStoreAssumption, LimitIsPositive DEF TypeOK
<1>2. cursor \in 0..lastId /\ rows \subseteq 1..lastId /\ snapshot \subseteq 1..lastId
  BY DEF TypeOK
<1> QED
  BY <1>1, <1>2

(* A query that leaves a cursor gives a full page.                         *)
LEMMA FullPages ==
  ASSUME TypeOK, NEW c \in Nat, NextCursor(c) > 0
  PROVE  Cardinality(Page(c)) = Limit
<1> DEFINE S == Selected(c)
<1>1. lastId \in Nat /\ Limit \in Nat \ {0}
  BY LogStoreAssumption, LimitIsPositive DEF TypeOK
<1>2. S \in SUBSET Int /\ IsFiniteSet(S)
  <2>1. S \in SUBSET (1..lastId)
    BY DEF Selected, TypeOK
  <2> HIDE DEF S
  <2>2. IsFiniteSet(1..lastId)
    BY <1>1, FS_Interval
  <2>3. IsFiniteSet(S)
    BY <2>1, <2>2, FS_Subset
  <2> QED
    BY <1>1, <2>1, <2>3
<1>3. Cardinality(Largest(Limit + 1, S)) > Limit
  <2>1. HasNext(c)
    BY DEF NextCursor
  <2> QED
    BY <2>1 DEF HasNext
<1> HIDE DEF S
<1>4. Cardinality(Largest(Limit, S)) = Limit
  BY <1>1, <1>2, <1>3, ProbeMeansFull
<1> QED
  BY <1>4 DEF Page, S

(* Every step of the table and of the client keeps WalkInv.                *)
LEMMA WalkStep == LogStoreInv /\ WalkInv /\ [Next]_vars => WalkInv'
<1> SUFFICES ASSUME LogStoreInv, WalkInv, [Next]_vars
             PROVE  WalkInv'
  OBVIOUS
<1> USE DEF WalkInv, storeVars, clientVars
<1>1. ASSUME NEW h \in Handlers, InsertRow(h) \/ Commit(h) \/ RollBack(h)
      PROVE  WalkInv'
  <2>1. /\ UNCHANGED <<dropped, clientVars>>
        /\ rows' = rows \/ rows' = rows \cup inserting[h]
    BY <1>1 DEF InsertRow, Commit, RollBack
  <2>2. inserting[h] \cap dropped = {}
    BY DEF LogStoreInv, OpenRowsAreNew
  <2> QED
    BY <2>1, <2>2
<1>2. CASE DropChunk
  BY <1>2 DEF DropChunk
<1>3. CASE FirstPage
  <2>1. /\ Page(0) \subseteq rows \cap Matching
        /\ NextCursor(0) > 0 => Cardinality(Page(0)) = Limit
    BY QueryAnswers, FullPages DEF LogStoreInv
  <2> QED
    BY <1>3, <2>1 DEF FirstPage
<1>4. CASE NextPage
  <2>1. cursor \in Nat
    BY LogStoreAssumption DEF LogStoreInv, TypeOK
  <2>2. /\ Page(cursor) \subseteq rows \cap Matching
        /\ NextCursor(cursor) > 0 => Cardinality(Page(cursor)) = Limit
    BY <2>1, QueryAnswers, FullPages DEF LogStoreInv
  <2> QED
    BY <1>4, <2>2 DEF NextPage
<1>5. CASE UNCHANGED vars
  BY <1>5 DEF vars
<1> QED
  BY <1>1, <1>2, <1>3, <1>4, <1>5 DEF Next

LEMMA WalkInvHolds == Spec => [](LogStoreInv /\ WalkInv)
<1>1. Init => WalkInv
  BY DEF Init, WalkInv
<1> QED
  BY <1>1, InvHolds, WalkStep, PTL DEF Spec

(* A client sees no row that was not committed, whatever its transaction   *)
(* did later, and each page but the last is full.                          *)
PagesShowTheTable ==
  /\ earlier \cup page \subseteq (rows \cup dropped) \cap Matching
  /\ \A h \in Handlers : (earlier \cup page) \cap inserting[h] = {}
  /\ cursor > 0 => Cardinality(page) = Limit

(* Theorem: pages are made of committed rows that match and of nothing     *)
(* else, and are full while there is a next one (Query in a READ COMMITTED *)
(* database, with the probe row cut off).                                  *)
THEOREM PagesAreTrue == Spec => []PagesShowTheTable
<1>1. LogStoreInv /\ WalkInv => PagesShowTheTable
  BY DEF LogStoreInv, WalkInv, OpenRowsAreNew, PagesShowTheTable
<1> QED
  BY <1>1, WalkInvHolds, PTL

(* When a walk is over and the matching rows are those it began with, the  *)
(* pages together are what one query without a limit returns; only rows    *)
(* that came and were dropped meanwhile may be in them besides.            *)
WalkIsOneQuery ==
  cursor = 0 /\ rows \cap Matching = snapshot
    => (earlier \cup page) \ dropped = snapshot

(* Theorem: paging loses and adds nothing against one unlimited query,     *)
(* whatever the limit and however the writers interleaved with the pages   *)
(* (Query's keyset pagination, which shifts nothing as OFFSET would).      *)
THEOREM PagingIsOneQuery == Spec => []WalkIsOneQuery
<1>1. ASSUME LogStoreInv, WalkInv PROVE WalkIsOneQuery
  <2> SUFFICES ASSUME cursor = 0, rows \cap Matching = snapshot
               PROVE  (earlier \cup page) \ dropped = snapshot
    BY DEF WalkIsOneQuery
  <2>1. \A i \in snapshot : i \in earlier \cup page
    <3>1. \A i \in snapshot : i \in snapshot \cap rows /\ i \in Nat
      BY <1>1, WalkTypes DEF LogStoreInv
    <3>2. \A i \in snapshot : i >= cursor
      BY <3>1
    <3> QED
      BY <1>1, <3>1, <3>2 DEF LogStoreInv, NothingIsSkipped
  <2> QED
    BY <1>1, <2>1 DEF WalkInv
<1> QED
  BY <1>1, WalkInvHolds, PTL

(* While a client pages, no step raises its cursor, and a page with a next *)
(* one lowers it by a whole page.                                          *)
PagingAdvances ==
  [][/\ NextPage => cursor' # cursor
     /\ cursor > 0 => \/ cursor' = cursor
                      \/ cursor' = 0
                      \/ cursor' + Limit <= cursor]_vars

(* Theorem: a client that follows next_cursor from row c is done after     *)
(* c / limit pages and one, however fast rows are inserted: with the       *)
(* fairness of NextPage this is what PagingEnds promises.                  *)
THEOREM PagingTerminates == Spec => PagingAdvances
<1>1. ASSUME LogStoreInv, LogStoreInv', [Next]_vars
      PROVE  [/\ NextPage => cursor' # cursor
              /\ cursor > 0 => \/ cursor' = cursor
                               \/ cursor' = 0
                               \/ cursor' + Limit <= cursor]_vars
  <2>1. CASE NextPage
    <3>1. /\ cursor \in Nat /\ cursor > 0 /\ cursor' \in Nat
          /\ Limit \in Nat \ {0}
      <4>1. cursor > 0 /\ lastId' = lastId /\ NextCursor(cursor) = cursor'
        BY <2>1 DEF NextPage, storeVars
      <4>2. TypeOK /\ cursor \in Nat /\ Limit \in Nat \ {0} /\ lastId \in Nat
        BY <1>1, WalkTypes DEF LogStoreInv
      <4>3. cursor' \in 0..lastId
        BY <1>1, <4>1 DEF LogStoreInv, TypeOK
      <4> QED
        BY <4>1, <4>2, <4>3
    <3>2. /\ page' = Page(cursor) /\ cursor' = NextCursor(cursor)
      BY <2>1 DEF NextPage
    <3>3. /\ \A i \in page' : i \in Nat /\ cursor' <= i /\ i < cursor
          /\ cursor' \in page' \cup {0}
      <4>1. Selected(cursor) \subseteq Nat /\ \A i \in Selected(cursor) : i < cursor
        BY <1>1, <3>1, WalkTypes DEF Selected, LogStoreInv
      <4>2. /\ Page(cursor) \in SUBSET Selected(cursor)
            /\ \A i \in Page(cursor) : NextCursor(cursor) <= i
            /\ NextCursor(cursor) \in Page(cursor) \cup {0}
        BY <1>1, <3>1, QueryAnswers DEF LogStoreInv
      <4> QED
        BY <3>2, <4>1, <4>2
    <3>4. cursor' # cursor
      BY <3>1, <3>3
    <3>5. ASSUME cursor' > 0 PROVE cursor' + Limit <= cursor
      <4> DEFINE I == cursor'..(cursor - 1)
      <4>1. cursor' <= cursor - 1
        BY <3>1, <3>3, <3>5
      <4>2. page' \in SUBSET I
        BY <3>1, <3>3
      <4>3. IsFiniteSet(I) /\ Cardinality(I) = cursor - cursor'
        <5>1. cursor' \in Int /\ cursor - 1 \in Int /\ (cursor - 1) - cursor' + 1 = cursor - cursor'
          BY <3>1
        <5> QED
          BY <4>1, <5>1, FS_Interval
      <4>4. Limit <= Cardinality(I)
        <5>1. Cardinality(page') = Limit
          BY <1>1, <2>1, <3>1, <3>2, <3>5, FullPages DEF LogStoreInv
        <5> HIDE DEF I
        <5>2. Cardinality(page') <= Cardinality(I)
          BY <4>2, <4>3, FS_Subset
        <5> QED
          BY <5>1, <5>2
      <4>5. Limit <= cursor - cursor'
        BY <4>3, <4>4
      <4>6. PICK d \in Nat : cursor' = d
        BY <3>1
      <4> QED
        BY <3>1, <4>5, <4>6
    <3>6. cursor' = 0 \/ cursor' > 0
      BY <3>1
    <3> QED
      BY <3>4, <3>5, <3>6
  <2>2. CASE ~NextPage
    BY <1>1, <2>2 DEF Next, InsertRow, Commit, RollBack, DropChunk, FirstPage,
                storeVars, clientVars, vars
  <2> QED
    BY <2>1, <2>2
<1> QED
  BY <1>1, InvHolds, PTL DEF Spec, PagingAdvances
=============================================================================
