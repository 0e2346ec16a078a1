-------------------------- MODULE MetricStoreProofs --------------------------
(***************************************************************************)
(* Proofs about the metrics table and its readers, for any hosts, names,   *)
(* buckets and windows, any skew of the agents' clocks and any order of    *)
(* inserts, also of the same batch again.  The last two sections are about *)
(* sums of any finite number of terms and the verdict of a rule, which is  *)
(* the mean of means.                                                      *)
(***************************************************************************)
EXTENDS MetricStore, SequenceTheorems, FiniteSetTheorems,
        WellFoundedInduction, TLAPS

(* Where the reader is: it has read nothing before its Hosts query, and    *)
(* keeps nothing between two pages.                                        *)
ReaderPhases ==
  /\ reader = "none" <=> pc = "idle"
  /\ pc = "hosts" => reader \in Finders
  /\ pc # "series" => left = {} /\ failed = {} /\ Answered = {}
  /\ reader = "none" => base = {}

(* The clock that stamped a batch was off by MaxSkew at most.              *)
ClocksAreClose ==
  \A i \in Batch : batches[i].time \in
                     (batches[i].at - MaxSkew)..(batches[i].at + MaxSkew)

(* A batch is stored with all of its names, equally often, or not at all.  *)
StoredTogether ==
  \A i \in Batch : \A m, n \in Names :
     /\ m \notin batches[i].names => stored[i][m] = 0
     /\ m \in batches[i].names /\ n \in batches[i].names
          => stored[i][m] = stored[i][n]

(* What was committed when the reader started still is.                    *)
BaseIsCommitted == base \subseteq Committed

(* The batches a query for s finds in the window of the reader.            *)
InWindow(s) ==
  {i \in Batch : /\ batches[i].host = s[2]
                 /\ stored[i][s[1]] > 0
                 /\ batches[i].time \in (start - Window[reader])..start}

(* A bucket of an answer has a row, and those of base have their bucket.   *)
AnswersAreTrue ==
  \A s \in Answered :
     /\ \A b \in DOMAIN answer[s] :
          \E i \in InWindow(s) : b = BucketOf(batches[i].time)
     /\ \A i \in InWindow(s) :
          <<i, s[1]>> \in base => BucketOf(batches[i].time) \in DOMAIN answer[s]

(* Series are answered name by name.                                       *)
AnsweredInOrder == \A t \in Answered, s \in left : t[1] <= s[1]

(* A timestamp that a scrape showed is the bucket of a row not later than  *)
(* the window of the reader, and committed before that reader started.     *)
StampsHaveARow ==
  \A s \in Series :
     \/ exported[s] = -MaxSkew - Bucket
     \/ \E i \in Batch :
          /\ batches[i].host = s[2]
          /\ stored[i][s[1]] > 0
          /\ exported[s] = BucketOf(batches[i].time)
          /\ IF reader = "none"
               THEN batches[i].time <= now
               ELSE batches[i].time <= start /\ <<i, s[1]>> \in base

(* The inductive invariant.                                                *)
MetricInv ==
  /\ TypeOK
  /\ ReaderPhases
  /\ ClocksAreClose
  /\ StoredTogether
  /\ BaseIsCommitted
  /\ AnswersAreTrue
  /\ AnsweredInOrder
  /\ StampsHaveARow
  /\ ReadsAreComplete
  /\ LaterSeriesIsNotOlder

-----------------------------------------------------------------------------
(* A set of integers with an upper bound has a greatest element.           *)
LEMMA GreatestExists ==
  ASSUME NEW S \in SUBSET Int, S # {}, NEW u \in Int, \A x \in S : x <= u
  PROVE  \E x \in S : \A y \in S : y <= x
<1> DEFINE T == {u - x : x \in S}
<1>1. T \subseteq Nat /\ T # {}
  <2>1. ASSUME NEW x \in S PROVE u - x \in Nat
    <3>1. x \in Int /\ x <= u
      OBVIOUS
    <3> QED
      BY <3>1
  <2> QED
    BY <2>1
<1>2. PICK d \in T : \A e \in T : ~ (<<e, d>> \in OpToRel(<, Nat))
  <2> HIDE DEF T
  <2> QED
    BY <1>1, NatLessThanWellFounded, WFMin
<1>3. PICK x \in S : d = u - x
  OBVIOUS
<1>4. ASSUME NEW y \in S PROVE y <= x
  <2>1. u - y \in T /\ u - y \in Nat /\ d \in Nat
    BY <1>1
  <2>2. ~ (u - y < d)
    BY <1>2, <2>1 DEF OpToRel
  <2>3. x \in Int /\ y \in Int
    OBVIOUS
  <2> QED
    BY <1>3, <2>2, <2>3
<1> QED
  BY <1>4

(* What the assumptions say of the constants the proofs are about.         *)
LEMMA Constants ==
  /\ Bucket \in Nat \ {0}
  /\ MaxSkew \in Nat /\ MaxNow \in Nat
  /\ Skews \subseteq -MaxSkew..MaxSkew
  /\ \A r \in Readers : Window[r] \in Nat
  /\ \A r \in Finders : HostWindow[r] \in Nat
  BY MetricStoreAssumption DEF Readers

(* A bucket starts at most Bucket ticks before each of its times.          *)
LEMMA BucketIsClose ==
  ASSUME NEW t \in Int
  PROVE  BucketOf(t) \in Int /\ BucketOf(t) <= t /\ BucketOf(t) > t - Bucket
  BY Constants DEF BucketOf

(* Later times are not in earlier buckets.                                 *)
LEMMA BucketsAreOrdered ==
  ASSUME NEW t \in Int, NEW u \in Int, t <= u
  PROVE  BucketOf(t) <= BucketOf(u)
<1>1. t \div Bucket <= u \div Bucket
  BY Constants
<1> QED
  BY <1>1, Constants DEF BucketOf

(* The fields of a batch, and the numbers of its rows.                     *)
LEMMA BatchTypes ==
  ASSUME TypeOK, NEW i \in Batch
  PROVE  /\ batches[i] \in BatchRecord
         /\ batches[i].host \in Hosts /\ batches[i].names \subseteq Names
         /\ batches[i].at \in Int /\ batches[i].time \in Int
         /\ batches[i].time >= -MaxSkew
         /\ \A n \in Names : stored[i][n] \in Nat
<1>1. batches[i] \in BatchRecord
  BY ElementOfSeq, LenProperties DEF TypeOK, Batch
<1>2. \A n \in Names : stored[i][n] \in Nat
  BY DEF TypeOK
<1> QED
  BY <1>1, <1>2, Constants DEF BatchRecord

(* The buckets in the answer to a query are those of the rows it finds.    *)
LEMMA QueryDomain ==
  ASSUME NEW s, NEW from, NEW to
  PROVE  DOMAIN Query(s, from, to) =
           {BucketOf(batches[i].time) :
              i \in {i \in Batch : /\ batches[i].host = s[2]
                                   /\ stored[i][s[1]] > 0
                                   /\ batches[i].time \in from..to}}
  BY DEF Query

(* A batch is a row of a series only if it has the name of that series.    *)
LEMMA RowsHaveTheName ==
  ASSUME TypeOK, StoredTogether, NEW i \in Batch, NEW n \in Names,
         stored[i][n] > 0
  PROVE  n \in batches[i].names
  BY BatchTypes DEF StoredTogether

(* The newest point of an answer is one of its points.                     *)
LEMMA NewestIsGreatest ==
  ASSUME TypeOK, AnswersAreTrue, ReaderPhases, NEW s \in Answered
  PROVE  /\ Newest(answer[s]) \in DOMAIN answer[s]
         /\ DOMAIN answer[s] \subseteq Int
         /\ \A b \in DOMAIN answer[s] : b <= Newest(answer[s])
<1>1. reader \in Readers /\ start \in Int /\ Window[reader] \in Nat
  <2>1. reader # "none" /\ reader \in Readers
    BY DEF ReaderPhases, TypeOK
  <2> QED
    BY <2>1, Constants DEF TypeOK
<1>2. ASSUME NEW b \in DOMAIN answer[s] PROVE b \in Int /\ b <= start
  <2>1. PICK i \in InWindow(s) : b = BucketOf(batches[i].time)
    BY DEF AnswersAreTrue
  <2>2. i \in Batch /\ batches[i].time <= start
    BY <1>1 DEF InWindow
  <2>3. batches[i].time \in Int
    BY <2>2, BatchTypes
  <2> QED
    BY <1>1, <2>1, <2>2, <2>3, BucketIsClose
<1>3. DOMAIN answer[s] # {} /\ DOMAIN answer[s] \subseteq Int
  BY <1>2 DEF Answered
<1>4. \E b \in DOMAIN answer[s] : \A c \in DOMAIN answer[s] : c <= b
  BY <1>1, <1>2, <1>3, GreatestExists
<1> QED
  BY <1>3, <1>4 DEF Newest

-----------------------------------------------------------------------------
(* The table only grows.  What the readers' part of the invariant needs of *)
(* Collect and Insert.                                                     *)
TableGrows ==
  /\ Batch \subseteq Batch'
  /\ \A i \in Batch : batches'[i] = batches[i]
  /\ \A i \in Batch : \A n \in Names : stored[i][n] > 0 => stored'[i][n] > 0
  /\ UNCHANGED <<now, readerVars, exported>>

(* The batch that is collected comes after the others, not yet stored.     *)
LEMMA CollectAppends ==
  ASSUME TypeOK, NEW h \in Hosts, Collect(h)
  PROVE  \E b \in BatchRecord :
           /\ b.at = now /\ b.time \in (now - MaxSkew)..(now + MaxSkew)
           /\ Len(batches) \in Nat
           /\ batches' \in Seq(BatchRecord)
           /\ Batch' = Batch \cup {Len(batches) + 1}
           /\ Len(batches) + 1 \notin Batch
           /\ \A i \in Batch : batches'[i] = batches[i] /\ stored'[i] = stored[i]
           /\ batches'[Len(batches) + 1] = b
           /\ stored' \in [Batch' -> [Names -> Nat]]
           /\ stored'[Len(batches) + 1] = [n \in Names |-> 0]
<1>1. PICK skew \in Skews, v \in Values, first \in Names :
        batches' = Append(batches, [host |-> h, at |-> now, time |-> now + skew,
                                    value |-> v, names |-> first..NameCount])
  BY DEF Collect
<1> DEFINE b == [host |-> h, at |-> now, time |-> now + skew,
                 value |-> v, names |-> first..NameCount]
           none == [n \in Names |-> 0]
<1>2. skew \in -MaxSkew..MaxSkew /\ now \in 0..MaxNow
  BY Constants DEF TypeOK
<1>3. first..NameCount \subseteq Names
  BY MetricStoreAssumption DEF Names
<1>4. b \in BatchRecord /\ b.at = now
  BY <1>2, <1>3, Constants DEF BatchRecord
<1>5. b.time \in (now - MaxSkew)..(now + MaxSkew)
  BY <1>2, Constants
<1> HIDE DEF b
<1>6. batches \in Seq(BatchRecord)
  BY DEF TypeOK
<1>7. Len(batches) \in Nat /\ Batch = 1..Len(batches)
  BY <1>6, LenProperties DEF Batch
<1>8. /\ batches' \in Seq(BatchRecord) /\ Len(batches') = Len(batches) + 1
      /\ \A i \in 1..Len(batches) : batches'[i] = batches[i]
      /\ batches'[Len(batches) + 1] = b
  BY <1>1, <1>4, <1>6, AppendProperties DEF b
<1>9. Batch' = 1..(Len(batches) + 1)
  BY <1>8, LenProperties DEF Batch
<1>10. /\ Batch' = Batch \cup {Len(batches) + 1}
       /\ Len(batches) + 1 \notin Batch
  BY <1>7, <1>9
<1>11. /\ stored \in [1..Len(batches) -> [Names -> Nat]]
       /\ none \in [Names -> Nat]
  BY <1>7 DEF TypeOK
<1>12. stored' = Append(stored, none)
  BY DEF Collect
<1> HIDE DEF none
<1>13. stored \in Seq([Names -> Nat]) /\ Len(stored) = Len(batches)
  BY <1>7, <1>11
<1>14. /\ stored' \in Seq([Names -> Nat]) /\ Len(stored') = Len(batches) + 1
       /\ \A i \in 1..Len(batches) : stored'[i] = stored[i]
       /\ stored'[Len(batches) + 1] = none
  BY <1>11, <1>12, <1>13, AppendProperties
<1>15. stored' \in [Batch' -> [Names -> Nat]]
  BY <1>9, <1>14, LenProperties
<1> QED
  BY <1>4, <1>5, <1>7, <1>8, <1>10, <1>14, <1>15 DEF none

(* Insert adds a row to each name of one batch and to nothing else.        *)
LEMMA InsertAdds ==
  ASSUME TypeOK, NEW j \in Batch, Insert(j)
  PROVE  /\ batches' = batches /\ Batch' = Batch
         /\ stored' \in [Batch -> [Names -> Nat]]
         /\ \A i \in Batch : \A n \in Names :
              stored'[i][n] = IF i = j /\ n \in batches[i].names
                                THEN stored[i][n] + 1 ELSE stored[i][n]
<1>1. stored \in [Batch -> [Names -> Nat]]
  BY DEF TypeOK
<1>2. batches' = batches /\ Batch' = Batch
  BY DEF Insert, Batch
<1>3. [n \in Names |-> IF n \in batches[j].names THEN stored[j][n] + 1
                                                 ELSE stored[j][n]]
        \in [Names -> Nat]
  BY <1>1
<1>4. stored' = [stored EXCEPT ![j] =
        [n \in Names |-> IF n \in batches[j].names THEN stored[j][n] + 1
                                                   ELSE stored[j][n]]]
  BY DEF Insert
<1>5. stored' \in [Batch -> [Names -> Nat]]
  BY <1>1, <1>3, <1>4
<1>6. ASSUME NEW i \in Batch, NEW n \in Names
      PROVE  stored'[i][n] = IF i = j /\ n \in batches[i].names
                               THEN stored[i][n] + 1 ELSE stored[i][n]
  BY <1>1, <1>4
<1> QED
  BY <1>2, <1>5, <1>6

LEMMA TableStepsGrow ==
  ASSUME TypeOK,
         (\E h \in Hosts : Collect(h)) \/ (\E i \in Batch : Insert(i))
  PROVE  TableGrows
<1>1. ASSUME NEW h \in Hosts, Collect(h) PROVE TableGrows
  <2>1. /\ Batch \subseteq Batch'
        /\ \A i \in Batch : batches'[i] = batches[i] /\ stored'[i] = stored[i]
    BY <1>1, CollectAppends
  <2> QED
    BY <1>1, <2>1 DEF TableGrows, Collect
<1>2. ASSUME NEW j \in Batch, Insert(j) PROVE TableGrows
  <2>1. ASSUME NEW i \in Batch, NEW n \in Names, stored[i][n] > 0
        PROVE  stored'[i][n] > 0
    <3>1. stored[i][n] \in Nat
      BY DEF TypeOK
    <3>2. stored'[i][n] \in {stored[i][n], stored[i][n] + 1}
      BY <1>2, InsertAdds
    <3> QED
      BY <2>1, <3>1, <3>2
  <2>2. batches' = batches /\ Batch' = Batch
    BY <1>2, InsertAdds
  <2> QED
    BY <1>2, <2>1, <2>2 DEF TableGrows, Insert
<1> QED
  BY <1>1, <1>2

-----------------------------------------------------------------------------
(* Types                                                                   *)

LEMMA InitType == Init => TypeOK
<1> SUFFICES ASSUME Init PROVE TypeOK
  OBVIOUS
<1>1. batches \in Seq(BatchRecord) /\ Batch = {}
  BY EmptySeq DEF Init, Batch
<1>2. stored \in [Batch -> [Names -> Nat]]
  BY <1>1 DEF Init
<1>3. exported \in [Series -> Int]
  BY Constants DEF Init
<1> QED
  BY <1>1, <1>2, <1>3, Constants DEF Init, TypeOK

(* The table stays well-typed.                                             *)
LEMMA TableTypes ==
  ASSUME TypeOK,
         (\E h \in Hosts : Collect(h)) \/ (\E i \in Batch : Insert(i))
  PROVE  TypeOK'
<1>1. /\ batches' \in Seq(BatchRecord)
      /\ stored' \in [Batch' -> [Names -> Nat]]
  <2>1. ASSUME NEW h \in Hosts, Collect(h)
        PROVE  /\ batches' \in Seq(BatchRecord)
               /\ stored' \in [Batch' -> [Names -> Nat]]
    BY <2>1, CollectAppends
  <2>2. ASSUME NEW i \in Batch, Insert(i)
        PROVE  /\ batches' \in Seq(BatchRecord)
               /\ stored' \in [Batch' -> [Names -> Nat]]
    BY <2>2, InsertAdds DEF TypeOK
  <2> QED
    BY <2>1, <2>2
<1>2. TableGrows
  BY TableStepsGrow
<1>3. base' \subseteq Batch' \X Names
  BY <1>2 DEF TableGrows, readerVars, TypeOK
<1> QED
  BY <1>1, <1>2, <1>3 DEF TableGrows, readerVars, TypeOK

(* The hosts a Hosts query finds, and the series a reader wants of one.    *)
LEMMA WantedAreSeries ==
  ASSUME NEW r, NEW h \in Hosts
  PROVE  Wanted(r, h) \subseteq Series
<1>1. 1 \in Names
  BY MetricStoreAssumption DEF Names
<1> QED
  BY <1>1 DEF Wanted, Series

LEMMA HostsAreHosts ==
  ASSUME TypeOK, NEW t PROVE HostsSince(t) \subseteq Hosts
  BY BatchTypes DEF HostsSince, Committed

(* The steps of the readers keep the types.                                *)
LEMMA ReaderTypes ==
  ASSUME TypeOK, ReaderPhases, AnswersAreTrue,
         \/ \E r \in Readers : Start(r)
         \/ FindHosts
         \/ \E s \in Series : ReadSeries(s) \/ SkipSeries(s)
         \/ Finish
  PROVE  TypeOK'
<1> USE DEF storeVars
<1>1. now \in 0..MaxNow /\ now \in 0..now /\ 0 \in 0..now
  BY Constants DEF TypeOK
<1>2. ASSUME NEW r \in Readers, Start(r) PROVE TypeOK'
  <2>1. Committed \subseteq Batch \X Names
    BY DEF Committed
  <2>2. hosts' \subseteq Hosts /\ left' \subseteq Series
    BY <1>2, WantedAreSeries DEF Start, TypeOK
  <2>3. /\ foundAt' \in 0..now' /\ start' \in 0..now' /\ now' = now
        /\ pc' \in {"hosts", "series", "idle"} /\ reader' \in Readers
    BY <1>1, <1>2 DEF Start, TypeOK
  <2>4. /\ batches' = batches /\ stored' = stored /\ Batch' = Batch
        /\ base' \subseteq Batch \X Names
        /\ answer' = answer /\ failed' = failed /\ exported' = exported
    BY <1>2, <2>1 DEF Start, Batch
  <2> QED
    BY <2>2, <2>3, <2>4 DEF TypeOK
<1>3. CASE FindHosts
  <2>1. hosts' \subseteq Hosts
    BY <1>3, HostsAreHosts DEF FindHosts
  <2>2. left' \subseteq Series
    BY <1>3, <2>1, WantedAreSeries DEF FindHosts
  <2> QED
    BY <1>1, <1>3, <2>1, <2>2 DEF FindHosts, TypeOK, Batch
<1>4. ASSUME NEW s \in Series, ReadSeries(s) PROVE TypeOK'
  BY <1>4 DEF ReadSeries, TypeOK, Batch
<1>5. ASSUME NEW s \in Series, SkipSeries(s) PROVE TypeOK'
  BY <1>5 DEF SkipSeries, TypeOK, Batch
<1>6. CASE Finish
  <2>1. ASSUME NEW s \in Series PROVE Line(s) \in Int
    BY NewestIsGreatest DEF Line, TypeOK
  <2>2. exported' \in [Series -> Int]
    BY <1>6, <2>1 DEF Finish, TypeOK
  <2>3. /\ reader' = "none" /\ pc' = "idle" /\ start' = 0 /\ foundAt' = 0
        /\ hosts' = {} /\ left' = {} /\ base' = {} /\ failed' = {}
        /\ DOMAIN answer' = Series /\ Batch' = Batch
        /\ UNCHANGED <<now, batches, stored>>
    BY <1>6 DEF Finish, Batch
  <2> QED
    BY <1>1, <2>2, <2>3 DEF TypeOK
<1> QED
  BY <1>2, <1>3, <1>4, <1>5, <1>6

LEMMA StepType == TypeOK /\ ReaderPhases /\ AnswersAreTrue /\ [Next]_vars => TypeOK'
<1> SUFFICES ASSUME TypeOK, ReaderPhases, AnswersAreTrue, [Next]_vars
             PROVE  TypeOK'
  OBVIOUS
<1>1. CASE TimePasses
  <2>1. now' \in 0..MaxNow /\ start \in 0..now' /\ foundAt \in 0..now'
    BY <1>1, Constants DEF TimePasses, TypeOK
  <2> QED
    BY <1>1, <2>1 DEF TimePasses, TypeOK, storeVars, readerVars, Batch
<1>2. CASE UNCHANGED vars
  BY <1>2 DEF vars, TypeOK, Batch
<1> QED
  BY <1>1, <1>2, TableTypes, ReaderTypes DEF Next

-----------------------------------------------------------------------------
(* The rest of the invariant, when the table grows                         *)

(* The table's own part.                                                   *)
LEMMA TableKeeps ==
  ASSUME TypeOK, ClocksAreClose, StoredTogether,
         (\E h \in Hosts : Collect(h)) \/ (\E i \in Batch : Insert(i))
  PROVE  ClocksAreClose' /\ StoredTogether'
<1>1. ASSUME NEW h \in Hosts, Collect(h)
      PROVE  ClocksAreClose' /\ StoredTogether'
  <2>1. PICK b \in BatchRecord :
          /\ b.at = now /\ b.time \in (now - MaxSkew)..(now + MaxSkew)
          /\ Batch' = Batch \cup {Len(batches) + 1}
          /\ \A i \in Batch : batches'[i] = batches[i] /\ stored'[i] = stored[i]
          /\ batches'[Len(batches) + 1] = b
          /\ stored'[Len(batches) + 1] = [n \in Names |-> 0]
    BY <1>1, CollectAppends
  <2>2. ClocksAreClose'
    BY <2>1 DEF ClocksAreClose
  <2>3. StoredTogether'
    BY <2>1 DEF StoredTogether
  <2> QED
    BY <2>2, <2>3
<1>2. ASSUME NEW j \in Batch, Insert(j)
      PROVE  ClocksAreClose' /\ StoredTogether'
  <2>1. /\ batches' = batches /\ Batch' = Batch
        /\ \A i \in Batch : \A n \in Names :
             stored'[i][n] = IF i = j /\ n \in batches[i].names
                               THEN stored[i][n] + 1 ELSE stored[i][n]
    BY <1>2, InsertAdds
  <2>2. ClocksAreClose'
    BY <2>1 DEF ClocksAreClose
  <2>3. StoredTogether'
    BY <2>1 DEF StoredTogether
  <2> QED
    BY <2>2, <2>3
<1> QED
  BY <1>1, <1>2

(* What a reader has committed for it stays so, and so do its answers.     *)
LEMMA GrowthKeepsAnswers ==
  ASSUME TypeOK, BaseIsCommitted, AnswersAreTrue, TableGrows
  PROVE  BaseIsCommitted' /\ AnswersAreTrue'
<1> USE DEF TableGrows, readerVars
<1>1. BaseIsCommitted'
  BY DEF BaseIsCommitted, Committed
<1>2. Answered' = Answered /\ Answered \subseteq Series
  BY DEF Answered
<1>3. ASSUME NEW s \in Answered PROVE InWindow(s) \subseteq InWindow(s)'
  <2>1. s[1] \in Names
    BY <1>2 DEF Series
  <2> QED
    BY <2>1 DEF InWindow
<1>4. ASSUME NEW s \in Answered, NEW i \in InWindow(s)', <<i, s[1]>> \in base
      PROVE  i \in InWindow(s)
  <2>1. i \in Batch /\ stored[i][s[1]] > 0
    BY <1>4 DEF BaseIsCommitted, Committed
  <2> QED
    BY <1>4, <2>1 DEF InWindow
<1>5. \A i \in Batch : BucketOf(batches[i].time)' = BucketOf(batches[i].time)
  BY DEF BucketOf
<1>6. \A s \in Answered : InWindow(s) \subseteq Batch
  BY DEF InWindow
<1>7. AnswersAreTrue'
  BY <1>2, <1>3, <1>4, <1>5, <1>6 DEF AnswersAreTrue
<1> QED
  BY <1>1, <1>7

(* So do the rows behind the stamps.                                       *)
LEMMA GrowthKeepsStamps ==
  ASSUME TypeOK, StampsHaveARow, TableGrows
  PROVE  StampsHaveARow'
<1> USE DEF TableGrows, readerVars
<1>1. SUFFICES ASSUME NEW s \in Series, exported[s] # -MaxSkew - Bucket
               PROVE  \E i \in Batch' :
                        /\ batches'[i].host = s[2]
                        /\ stored'[i][s[1]] > 0
                        /\ exported[s] = BucketOf(batches'[i].time)
                        /\ IF reader = "none"
                             THEN batches'[i].time <= now
                             ELSE /\ batches'[i].time <= start
                                  /\ <<i, s[1]>> \in base
  BY DEF StampsHaveARow
<1>2. PICK i \in Batch :
        /\ batches[i].host = s[2]
        /\ stored[i][s[1]] > 0
        /\ exported[s] = BucketOf(batches[i].time)
        /\ IF reader = "none"
             THEN batches[i].time <= now
             ELSE batches[i].time <= start /\ <<i, s[1]>> \in base
  BY <1>1 DEF StampsHaveARow
<1>3. s[1] \in Names
  BY DEF Series
<1>4. i \in Batch' /\ batches'[i] = batches[i] /\ stored'[i][s[1]] > 0
  BY <1>2, <1>3
<1> QED
  BY <1>2, <1>4

(* A batch collected after the reader started is nothing it must have.     *)
LEMMA GrowthKeepsReads ==
  ASSUME TypeOK, BaseIsCommitted, ReadsAreComplete, LaterSeriesIsNotOlder,
         TableGrows
  PROVE  ReadsAreComplete' /\ LaterSeriesIsNotOlder'
<1> USE DEF TableGrows, readerVars
<1>1. ReadsAreComplete'
  <2> SUFFICES ASSUME pc = "series", NEW s \in Series, NEW i \in OfSeries(s)',
                      <<i, s[1]>> \in base, SurelyInside(i)',
                      s \in Wanted(reader, s[2]),
                      reader \in Finders \/ s[2] \in hosts
               PROVE  \/ s \in left \cup failed
                      \/ BucketOf(batches'[i].time) \in DOMAIN answer[s]
    BY DEF ReadsAreComplete, Wanted, BucketOf
  <2>1. i \in Batch
    BY DEF BaseIsCommitted, Committed
  <2>2. i \in OfSeries(s) /\ SurelyInside(i) /\ batches'[i] = batches[i]
    BY <2>1 DEF OfSeries, SurelyInside
  <2> QED
    BY <2>2 DEF ReadsAreComplete
<1>2. LaterSeriesIsNotOlder'
  <2> SUFFICES ASSUME NEW s \in Answered, NEW t \in Answered,
                      s[2] = t[2], s[1] < t[1],
                      NEW b \in DOMAIN answer[s],
                      \A i \in OfSeries(s)' :
                        BucketOf(batches'[i].time) = b => i \in OfSeries(t)'
               PROVE  b \in DOMAIN answer[t]
    BY DEF LaterSeriesIsNotOlder, Answered, BucketOf
  <2>1. ASSUME NEW i \in OfSeries(s), BucketOf(batches[i].time) = b
        PROVE  i \in OfSeries(t)
    <3>1. i \in Batch /\ batches'[i] = batches[i]
      BY DEF OfSeries
    <3>2. i \in OfSeries(s)'
      BY <3>1 DEF OfSeries
    <3>3. i \in OfSeries(t)'
      BY <2>1, <3>1, <3>2
    <3> QED
      BY <3>1, <3>3 DEF OfSeries
  <2> QED
    BY <2>1 DEF LaterSeriesIsNotOlder
<1> QED
  BY <1>1, <1>2

-----------------------------------------------------------------------------
(* The rest of the invariant, when a reader takes a step                   *)

(* A page starts with nothing read.                                        *)
LEMMA StartKeeps ==
  ASSUME MetricInv, NEW r \in Readers, Start(r)
  PROVE  MetricInv'
<1> USE DEF MetricInv, storeVars
<1>1. TypeOK'
  BY ReaderTypes
<1>2. /\ reader = "none" /\ reader' = r /\ start' = now /\ base' = Committed
      /\ pc' \in {"hosts", "series"} /\ r # "none"
      /\ UNCHANGED <<now, batches, stored, answer, failed, exported>>
  BY DEF Start, Readers, Finders
<1>3. Answered = {} /\ Answered' = {} /\ failed = {} /\ left = {} /\ pc = "idle"
  <2>1. pc = "idle"
    BY <1>2 DEF ReaderPhases
  <2> QED
    BY <1>2, <2>1 DEF ReaderPhases, Answered
<1>4. Batch' = Batch /\ Committed' = Committed
  BY <1>2 DEF Batch, Committed
<1>5. ReaderPhases'
  <2>1. pc' = "hosts" => r \in Finders /\ left' = {}
    BY <1>3 DEF Start
  <2>2. pc' # "idle" /\ reader' # "none" /\ failed' = {} /\ Answered' = {}
    BY <1>2, <1>3
  <2>3. pc' # "series" => pc' = "hosts"
    BY <1>2
  <2> QED
    BY <1>2, <2>1, <2>2, <2>3 DEF ReaderPhases
<1>6. ClocksAreClose' /\ StoredTogether'
  BY <1>2, <1>4 DEF ClocksAreClose, StoredTogether
<1>7. BaseIsCommitted' /\ AnswersAreTrue' /\ AnsweredInOrder'
  BY <1>2, <1>3, <1>4 DEF BaseIsCommitted, AnswersAreTrue, AnsweredInOrder
<1>8. StampsHaveARow'
  <2> SUFFICES ASSUME NEW s \in Series, exported[s] # -MaxSkew - Bucket
               PROVE  \E i \in Batch :
                        /\ batches[i].host = s[2]
                        /\ stored[i][s[1]] > 0
                        /\ exported[s] = BucketOf(batches[i].time)
                        /\ batches[i].time <= now /\ <<i, s[1]>> \in Committed
    BY <1>2, <1>4 DEF StampsHaveARow, BucketOf
  <2>1. s[1] \in Names
    BY DEF Series
  <2> QED
    BY <1>2, <2>1 DEF StampsHaveARow, Committed
<1>9. ReadsAreComplete'
  <2> SUFFICES ASSUME pc' = "series", NEW s \in Series,
                      s \in Wanted(r, s[2]), r \in Finders \/ s[2] \in hosts'
               PROVE  s \in left'
    BY <1>2 DEF ReadsAreComplete, Wanted
  <2> QED
    BY DEF Start
<1>10. LaterSeriesIsNotOlder'
  BY <1>3 DEF LaterSeriesIsNotOlder
<1> QED
  BY <1>1, <1>5, <1>6, <1>7, <1>8, <1>9, <1>10

(* What all steps between the start and the end of a page leave alone.     *)
LEMMA PageKeepsTable ==
  ASSUME MetricInv, reader # "none",
         UNCHANGED <<now, batches, stored, reader, start, base, exported>>
  PROVE  /\ ClocksAreClose' /\ StoredTogether' /\ BaseIsCommitted'
         /\ StampsHaveARow' /\ Batch' = Batch
         /\ \A s \in Series : InWindow(s)' = InWindow(s) /\ OfSeries(s)' = OfSeries(s)
         /\ \A i \in Batch : BucketOf(batches'[i].time) = BucketOf(batches[i].time)
<1>1. Batch' = Batch
  BY DEF Batch
<1>2. ClocksAreClose' /\ StoredTogether' /\ BaseIsCommitted'
  BY <1>1 DEF MetricInv, ClocksAreClose, StoredTogether, BaseIsCommitted, Committed
<1>3. StampsHaveARow'
  BY <1>1 DEF MetricInv, StampsHaveARow, BucketOf
<1>4. \A s \in Series : InWindow(s)' = InWindow(s) /\ OfSeries(s)' = OfSeries(s)
  BY <1>1 DEF InWindow, OfSeries
<1> QED
  BY <1>1, <1>2, <1>3, <1>4

(* The Hosts query finds the host of each batch that was committed and is  *)
(* surely inside, so its series are still to be read.                      *)
LEMMA FindHostsKeeps ==
  ASSUME MetricInv, FindHosts
  PROVE  MetricInv'
<1> USE DEF MetricInv, storeVars
<1>1. TypeOK'
  BY ReaderTypes
<1>2. /\ pc = "hosts" /\ pc' = "series" /\ foundAt' = now
      /\ hosts' = HostsSince(now - HostWindow[reader])
      /\ left' = UNION {Wanted(reader, h) : h \in hosts'}
      /\ UNCHANGED <<now, batches, stored, reader, start, answer, base, failed,
                     exported>>
  BY DEF FindHosts
<1>3. reader \in Finders /\ reader # "none" /\ Answered = {} /\ Answered' = {}
  BY <1>2 DEF ReaderPhases, Answered, Finders
<1>4. /\ ClocksAreClose' /\ StoredTogether' /\ BaseIsCommitted'
      /\ StampsHaveARow' /\ Batch' = Batch
      /\ \A s \in Series : OfSeries(s)' = OfSeries(s)
  BY <1>2, <1>3, PageKeepsTable
<1>5. ReaderPhases' /\ AnswersAreTrue' /\ AnsweredInOrder' /\ LaterSeriesIsNotOlder'
  BY <1>2, <1>3 DEF ReaderPhases, AnswersAreTrue, AnsweredInOrder,
                    LaterSeriesIsNotOlder
<1>6. ReadsAreComplete'
  <2> SUFFICES ASSUME NEW s \in Series, NEW i \in OfSeries(s),
                      <<i, s[1]>> \in base,
                      batches[i].at - MaxSkew > now - HostWindow[reader],
                      s \in Wanted(reader, s[2])
               PROVE  s \in left'
    BY <1>2, <1>3, <1>4 DEF ReadsAreComplete, SurelyInside, Wanted
  <2>1. i \in Batch /\ batches[i].host = s[2] /\ <<i, s[1]>> \in Committed
    BY DEF OfSeries, BaseIsCommitted
  <2>2. batches[i].time > now - HostWindow[reader]
    <3>1. batches[i].time >= batches[i].at - MaxSkew
      BY <2>1, BatchTypes, Constants DEF ClocksAreClose
    <3>2. batches[i].at - MaxSkew \in Int /\ batches[i].time \in Int
      BY <2>1, BatchTypes, Constants
    <3>3. now - HostWindow[reader] \in Int
      BY <1>3, Constants DEF TypeOK
    <3> QED
      BY <3>1, <3>2, <3>3
  <2>3. s[2] \in hosts'
    BY <1>2, <2>1, <2>2 DEF HostsSince
  <2> QED
    BY <1>2, <2>3
<1> QED
  BY <1>1, <1>4, <1>5, <1>6

(* The answer to a query has the buckets of the rows committed by then.    *)
LEMMA ReadSeriesKeeps ==
  ASSUME MetricInv, NEW s \in Series, ReadSeries(s)
  PROVE  MetricInv'
<1> USE DEF MetricInv, storeVars
<1> DEFINE Q == {BucketOf(batches[i].time) : i \in InWindow(s)}
<1>1. TypeOK'
  BY ReaderTypes
<1>2. /\ pc = "series" /\ s \in left /\ \A t \in left : s[1] <= t[1]
      /\ left' = left \ {s}
      /\ UNCHANGED <<now, batches, stored, reader, pc, start, foundAt, hosts,
                     base, failed, exported>>
  BY DEF ReadSeries
<1>3. DOMAIN answer'[s] = Q /\ \A t \in Series \ {s} : answer'[t] = answer[t]
  BY QueryDomain DEF ReadSeries, TypeOK, InWindow
<1> HIDE DEF Q
<1>4. reader # "none"
  BY <1>2 DEF ReaderPhases
<1>5. /\ ClocksAreClose' /\ StoredTogether' /\ BaseIsCommitted'
      /\ StampsHaveARow' /\ Batch' = Batch
      /\ \A t \in Series : InWindow(t)' = InWindow(t) /\ OfSeries(t)' = OfSeries(t)
      /\ \A i \in Batch : BucketOf(batches'[i].time) = BucketOf(batches[i].time)
  BY <1>2, <1>4, PageKeepsTable
<1>6. ReaderPhases'
  BY <1>2, <1>4 DEF ReaderPhases
<1>7. AnswersAreTrue'
  <2>1. \A t \in Series : InWindow(t) \subseteq Batch
    BY DEF InWindow
  <2>2. ASSUME NEW t \in Answered', t = s
        PROVE  /\ \A b \in DOMAIN answer'[t] :
                    \E i \in InWindow(t)' : b = BucketOf(batches'[i].time)
               /\ \A i \in InWindow(t)' : <<i, t[1]>> \in base' =>
                    BucketOf(batches'[i].time) \in DOMAIN answer'[t]
    BY <1>3, <1>5, <2>1, <2>2 DEF Q
  <2>3. ASSUME NEW t \in Answered', t # s
        PROVE  /\ \A b \in DOMAIN answer'[t] :
                    \E i \in InWindow(t)' : b = BucketOf(batches'[i].time)
               /\ \A i \in InWindow(t)' : <<i, t[1]>> \in base' =>
                    BucketOf(batches'[i].time) \in DOMAIN answer'[t]
    <3>1. t \in Answered /\ t \in Series /\ answer'[t] = answer[t]
      BY <1>3, <2>3 DEF Answered
    <3> QED
      BY <1>2, <1>5, <2>1, <3>1 DEF AnswersAreTrue
  <2> QED
    BY <2>2, <2>3 DEF AnswersAreTrue
<1>8. AnsweredInOrder'
  <2> SUFFICES ASSUME NEW t \in Answered', NEW u \in left \ {s}
               PROVE  t[1] <= u[1]
    BY <1>2 DEF AnsweredInOrder
  <2>1. CASE t = s
    BY <1>2, <2>1
  <2>2. CASE t # s
    <3>1. t \in Answered
      BY <1>3, <2>2 DEF Answered
    <3> QED
      BY <3>1 DEF AnsweredInOrder
  <2> QED
    BY <2>1, <2>2
<1>9. ReadsAreComplete'
  <2> SUFFICES ASSUME NEW t \in Series, NEW i \in OfSeries(t),
                      <<i, t[1]>> \in base, SurelyInside(i)',
                      t \in Wanted(reader, t[2]),
                      reader \in Finders \/ t[2] \in hosts,
                      t \notin (left \ {s}) \cup failed
               PROVE  BucketOf(batches[i].time) \in DOMAIN answer'[t]
    BY <1>2, <1>5 DEF ReadsAreComplete, Wanted, OfSeries
  <2>1. i \in Batch /\ SurelyInside(i)
    BY <1>2 DEF OfSeries, SurelyInside
  <2>2. CASE t = s
    <3>1. stored[i][s[1]] > 0 /\ batches[i].host = s[2]
      BY <2>2 DEF BaseIsCommitted, Committed, OfSeries
    <3>2. batches[i].time \in (start - Window[reader])..start
      <4>1. /\ batches[i].at \in Int /\ batches[i].time \in Int
            /\ start \in Int /\ Window[reader] \in Nat /\ MaxSkew \in Nat
        <5>1. reader \in Readers
          BY <1>4 DEF TypeOK
        <5> QED
          BY <2>1, <5>1, BatchTypes, Constants DEF TypeOK
      <4>2. batches[i].time \in
              (batches[i].at - MaxSkew)..(batches[i].at + MaxSkew)
        BY <2>1 DEF ClocksAreClose
      <4> QED
        BY <2>1, <4>1, <4>2 DEF SurelyInside
    <3> QED
      BY <1>3, <2>1, <2>2, <3>1, <3>2 DEF InWindow, Q
  <2>3. CASE t # s
    BY <1>2, <1>3, <2>1, <2>3 DEF ReadsAreComplete
  <2> QED
    BY <2>2, <2>3
<1>10. LaterSeriesIsNotOlder'
  <2> SUFFICES ASSUME NEW t \in Answered', NEW u \in Answered',
                      t[2] = u[2], t[1] < u[1], NEW b \in DOMAIN answer'[t],
                      \A i \in OfSeries(t) :
                        BucketOf(batches[i].time) = b => i \in OfSeries(u)
               PROVE  b \in DOMAIN answer'[u]
    <3>1. \A t \in Series : OfSeries(t) \subseteq Batch
      BY DEF OfSeries
    <3> QED
      BY <1>5, <3>1 DEF LaterSeriesIsNotOlder, Answered
  <2>1. /\ t \in Series /\ u \in Series
        /\ t[1] \in Names /\ u[1] \in Names
        /\ t[1] \in Int /\ u[1] \in Int /\ t # u
    BY DEF Answered, Series, Names
  <2>2. CASE t = s
    <3>1. u \in Answered
      BY <1>3, <2>1, <2>2 DEF Answered
    <3>2. u[1] <= s[1]
      BY <1>2, <3>1 DEF AnsweredInOrder
    <3> QED
      BY <2>1, <2>2, <3>2
  <2>3. CASE t # s /\ u = s
    <3>1. t \in Answered /\ b \in DOMAIN answer[t]
      BY <1>3, <2>1, <2>3 DEF Answered
    <3>2. PICK i \in InWindow(t) : b = BucketOf(batches[i].time)
      BY <3>1 DEF AnswersAreTrue
    <3>3. i \in Batch /\ batches[i].host = t[2] /\ stored[i][t[1]] > 0
      BY <3>2 DEF InWindow
    <3>4. t[1] \in batches[i].names
      BY <2>1, <3>3, RowsHaveTheName
    <3>5. i \in OfSeries(u)
      BY <3>2, <3>3, <3>4 DEF OfSeries
    <3>6. stored[i][u[1]] = stored[i][t[1]]
      BY <2>1, <3>3, <3>4, <3>5 DEF StoredTogether, OfSeries
    <3>7. i \in InWindow(s)
      BY <2>3, <3>2, <3>3, <3>5, <3>6 DEF InWindow, OfSeries
    <3> QED
      BY <1>3, <2>3, <3>2, <3>7 DEF Q
  <2>4. CASE t # s /\ u # s
    BY <1>3, <2>1, <2>4 DEF LaterSeriesIsNotOlder, Answered
  <2> QED
    BY <2>2, <2>3, <2>4
<1> QED
  BY <1>1, <1>5, <1>6, <1>7, <1>8, <1>9, <1>10

(* A series that is skipped is left out, and nothing else changes.         *)
LEMMA SkipSeriesKeeps ==
  ASSUME MetricInv, NEW s \in Series, SkipSeries(s)
  PROVE  MetricInv'
<1> USE DEF MetricInv, storeVars
<1>1. TypeOK'
  BY ReaderTypes
<1>2. /\ pc = "series" /\ left' = left \ {s} /\ failed' = failed \cup {s}
      /\ UNCHANGED <<now, batches, stored, reader, pc, start, foundAt, hosts,
                     answer, base, exported>>
  BY DEF SkipSeries
<1>3. reader # "none" /\ Answered' = Answered /\ Answered \subseteq Series
  BY <1>2 DEF ReaderPhases, Answered
<1>4. /\ ClocksAreClose' /\ StoredTogether' /\ BaseIsCommitted'
      /\ StampsHaveARow' /\ Batch' = Batch
      /\ \A t \in Series : InWindow(t)' = InWindow(t) /\ OfSeries(t)' = OfSeries(t)
      /\ \A i \in Batch : BucketOf(batches'[i].time) = BucketOf(batches[i].time)
  BY <1>2, <1>3, PageKeepsTable
<1>5. ReaderPhases' /\ AnsweredInOrder'
  BY <1>2, <1>3 DEF ReaderPhases, AnsweredInOrder
<1>6. \A t \in Series : InWindow(t) \subseteq Batch /\ OfSeries(t) \subseteq Batch
  BY DEF InWindow, OfSeries
<1>7. AnswersAreTrue'
  BY <1>2, <1>3, <1>4, <1>6 DEF AnswersAreTrue
<1>8. ReadsAreComplete'
  <2>1. \A i \in Batch : SurelyInside(i)' = SurelyInside(i)
    BY <1>2 DEF SurelyInside
  <2>2. \A r, h : Wanted(r, h)' = Wanted(r, h)
    BY DEF Wanted
  <2> QED
    BY <1>2, <1>4, <1>6, <2>1, <2>2 DEF ReadsAreComplete
<1>9. LaterSeriesIsNotOlder'
  BY <1>2, <1>3, <1>4, <1>6 DEF LaterSeriesIsNotOlder
<1> QED
  BY <1>1, <1>4, <1>5, <1>7, <1>8, <1>9

(* A stamp never goes back.  Either the row behind the old one is still in *)
(* the window, and then the answer has its bucket; or it has left, and     *)
(* then each row of the answer is later.                                   *)
LEMMA LineNeverGoesBack ==
  ASSUME MetricInv, reader # "none", NEW s \in Series
  PROVE  Line(s) >= exported[s]
<1> USE DEF MetricInv
<1>1. exported[s] \in Int /\ reader \in Readers /\ start \in Int
  BY DEF TypeOK
<1>2. Window[reader] \in Nat
  BY <1>1, Constants
<1>3. CASE s \notin Answered
  BY <1>1, <1>3 DEF Line
<1>4. CASE s \in Answered
  <2> DEFINE top == Newest(answer[s])
  <2>1. top \in DOMAIN answer[s] /\ top \in Int
        /\ \A b \in DOMAIN answer[s] : b <= top
    BY <1>4, NewestIsGreatest
  <2>2. PICK j \in InWindow(s) : top = BucketOf(batches[j].time)
    BY <1>4, <2>1 DEF AnswersAreTrue
  <2>3. Line(s) = top
    BY <1>4 DEF Line
  <2> HIDE DEF top
  <2>4. /\ j \in Batch /\ batches[j].time \in Int
        /\ batches[j].time >= -MaxSkew
        /\ batches[j].time >= start - Window[reader]
    BY <1>1, <1>2, BatchTypes DEF InWindow
  <2>5. CASE exported[s] = -MaxSkew - Bucket
    <3>1. top > batches[j].time - Bucket
      BY <2>2, <2>4, BucketIsClose
    <3> QED
      BY <2>1, <2>3, <2>4, <2>5, <3>1, Constants
  <2>6. CASE exported[s] # -MaxSkew - Bucket
    <3>1. PICK i \in Batch : /\ batches[i].host = s[2] /\ stored[i][s[1]] > 0
                             /\ exported[s] = BucketOf(batches[i].time)
                             /\ batches[i].time <= start
                             /\ <<i, s[1]>> \in base
      BY <2>6 DEF StampsHaveARow
    <3>2. batches[i].time \in Int
      BY BatchTypes
    <3>3. CASE batches[i].time >= start - Window[reader]
      <4>1. i \in InWindow(s)
        BY <1>1, <1>2, <3>1, <3>2, <3>3 DEF InWindow
      <4>2. exported[s] \in DOMAIN answer[s]
        BY <1>4, <3>1, <4>1 DEF AnswersAreTrue
      <4>3. exported[s] <= top
        BY <2>1, <4>2
      <4> QED
        BY <1>1, <2>1, <2>3, <4>3
    <3>4. CASE batches[i].time < start - Window[reader]
      <4>1. batches[i].time <= batches[j].time
        BY <1>1, <1>2, <2>4, <3>2, <3>4
      <4>2. exported[s] <= top
        BY <2>2, <2>4, <3>1, <3>2, <4>1, BucketsAreOrdered
      <4> QED
        BY <1>1, <2>1, <2>3, <4>2
    <3> QED
      BY <1>1, <1>2, <3>2, <3>3, <3>4
  <2> QED
    BY <2>5, <2>6
<1> QED
  BY <1>3, <1>4

(* The line that a page shows for a series has a row behind it.            *)
LEMMA LineHasARow ==
  ASSUME MetricInv, reader # "none", NEW s \in Series,
         Line(s) # -MaxSkew - Bucket
  PROVE  \E i \in Batch : /\ batches[i].host = s[2] /\ stored[i][s[1]] > 0
                          /\ Line(s) = BucketOf(batches[i].time)
                          /\ batches[i].time <= start
<1> USE DEF MetricInv
<1>1. CASE s \in Answered
  <2>1. Line(s) \in DOMAIN answer[s]
    BY <1>1, NewestIsGreatest DEF Line
  <2>2. PICK i \in InWindow(s) : Line(s) = BucketOf(batches[i].time)
    BY <1>1, <2>1 DEF AnswersAreTrue
  <2>3. start \in Int /\ Window[reader] \in Nat
    BY Constants DEF TypeOK
  <2>4. batches[i].time <= start
    BY <2>3 DEF InWindow
  <2> QED
    BY <2>2, <2>4 DEF InWindow
<1>2. CASE s \notin Answered
  BY <1>2 DEF Line, StampsHaveARow
<1> QED
  BY <1>1, <1>2

(* The end of a page forgets all but the stamps it showed.                 *)
LEMMA FinishKeeps ==
  ASSUME MetricInv, Finish
  PROVE  MetricInv'
<1> USE DEF MetricInv, storeVars
<1>1. TypeOK'
  BY ReaderTypes
<1>2. /\ reader' = "none" /\ pc' = "idle" /\ left' = {} /\ base' = {}
      /\ failed' = {} /\ answer' = [s \in Series |-> <<>>]
      /\ UNCHANGED <<now, batches, stored>>
  BY DEF Finish
<1>3. reader # "none" /\ Batch' = Batch
  BY <1>2 DEF Finish, ReaderPhases, Batch
<1>4. Answered' = {}
  BY <1>2 DEF Answered
<1>5. ReaderPhases' /\ AnswersAreTrue' /\ AnsweredInOrder'
      /\ LaterSeriesIsNotOlder' /\ BaseIsCommitted'
  BY <1>2, <1>4 DEF ReaderPhases, AnswersAreTrue, AnsweredInOrder,
                    LaterSeriesIsNotOlder, BaseIsCommitted
<1>6. ClocksAreClose' /\ StoredTogether'
  BY <1>2, <1>3 DEF ClocksAreClose, StoredTogether
<1>7. ReadsAreComplete'
  BY <1>2 DEF ReadsAreComplete
<1>8. StampsHaveARow'
  <2>1. ASSUME NEW s \in Series PROVE exported'[s] \in {exported[s], Line(s)}
    BY DEF Finish
  <2>2. ASSUME NEW s \in Series, exported'[s] # -MaxSkew - Bucket
        PROVE  \E i \in Batch : /\ batches[i].host = s[2] /\ stored[i][s[1]] > 0
                                /\ exported'[s] = BucketOf(batches[i].time)
                                /\ batches[i].time <= start
    <3>1. CASE exported'[s] = Line(s)
      BY <1>3, <2>2, <3>1, LineHasARow
    <3>2. CASE exported'[s] = exported[s]
      BY <1>3, <2>2, <3>2 DEF StampsHaveARow
    <3> QED
      BY <2>1, <3>1, <3>2
  <2>3. ASSUME NEW i \in Batch, batches[i].time <= start
        PROVE  batches[i].time <= now
    <3>1. batches[i].time \in Int /\ start \in Int /\ now \in Int /\ start <= now
      BY BatchTypes DEF TypeOK
    <3> QED
      BY <2>3, <3>1
  <2> QED
    BY <1>2, <1>3, <2>2, <2>3 DEF StampsHaveARow, BucketOf
<1> QED
  BY <1>1, <1>5, <1>6, <1>7, <1>8

-----------------------------------------------------------------------------
(* The theorems                                                            *)

(* The clock of the server moves on.                                       *)
LEMMA TimeKeeps ==
  ASSUME MetricInv, TimePasses
  PROVE  MetricInv'
<1> USE DEF MetricInv
<1>1. now' = now + 1 /\ UNCHANGED <<storeVars, readerVars, exported>>
  BY DEF TimePasses
<1>2. TypeOK'
  BY StepType DEF Next
<1>3. Batch' = Batch
  BY <1>1 DEF Batch, storeVars
<1>4. StampsHaveARow'
  <2>1. ASSUME NEW i \in Batch, batches[i].time <= now
        PROVE  batches[i].time <= now'
    <3>1. batches[i].time \in Int /\ now \in Int
      BY BatchTypes DEF TypeOK
    <3> QED
      BY <1>1, <2>1, <3>1
  <2> QED
    BY <1>1, <1>3, <2>1 DEF StampsHaveARow, storeVars, readerVars, BucketOf
<1>5. /\ ReaderPhases' /\ ClocksAreClose' /\ StoredTogether'
      /\ BaseIsCommitted' /\ AnswersAreTrue' /\ AnsweredInOrder'
  BY <1>1, <1>3
     DEF storeVars, readerVars, ReaderPhases, ClocksAreClose, StoredTogether,
         BaseIsCommitted, Committed, AnswersAreTrue, AnsweredInOrder, Answered,
         InWindow, BucketOf
<1>6. ReadsAreComplete' /\ LaterSeriesIsNotOlder'
  BY <1>1, <1>3
     DEF storeVars, readerVars, ReadsAreComplete, LaterSeriesIsNotOlder,
         Answered, OfSeries, SurelyInside, Wanted, BucketOf
<1> QED
  BY <1>2, <1>4, <1>5, <1>6

LEMMA InitInv == Init => MetricInv
<1> SUFFICES ASSUME Init PROVE MetricInv
  OBVIOUS
<1>1. TypeOK
  BY InitType
<1>2. Batch = {} /\ Answered = {}
  BY DEF Init, Batch, Answered
<1>3. ReaderPhases /\ ClocksAreClose /\ StoredTogether /\ BaseIsCommitted
  BY <1>2 DEF Init, ReaderPhases, ClocksAreClose, StoredTogether, BaseIsCommitted
<1>4. AnswersAreTrue /\ AnsweredInOrder /\ LaterSeriesIsNotOlder
  BY <1>2 DEF AnswersAreTrue, AnsweredInOrder, LaterSeriesIsNotOlder
<1>5. StampsHaveARow /\ ReadsAreComplete
  BY DEF Init, StampsHaveARow, ReadsAreComplete
<1> QED
  BY <1>1, <1>3, <1>4, <1>5 DEF MetricInv

LEMMA StepInv == MetricInv /\ [Next]_vars => MetricInv'
<1> SUFFICES ASSUME MetricInv, [Next]_vars PROVE MetricInv'
  OBVIOUS
<1>1. CASE (\E h \in Hosts : Collect(h)) \/ (\E i \in Batch : Insert(i))
  <2>1. TypeOK' /\ TableGrows
    BY <1>1, TableTypes, TableStepsGrow DEF MetricInv
  <2>2. ReaderPhases' /\ AnsweredInOrder'
    BY <2>1 DEF MetricInv, ReaderPhases, AnsweredInOrder, Answered, TableGrows,
                readerVars
  <2>3. ClocksAreClose' /\ StoredTogether'
    BY <1>1, TableKeeps DEF MetricInv
  <2>4. /\ BaseIsCommitted' /\ AnswersAreTrue' /\ StampsHaveARow'
        /\ ReadsAreComplete' /\ LaterSeriesIsNotOlder'
    BY <2>1, GrowthKeepsAnswers, GrowthKeepsStamps, GrowthKeepsReads
       DEF MetricInv
  <2> QED
    BY <2>1, <2>2, <2>3, <2>4 DEF MetricInv
<1>2. CASE UNCHANGED vars
  <2>1. TypeOK'
    BY StepType DEF MetricInv
  <2>2. Batch' = Batch /\ Answered' = Answered
    BY <1>2 DEF vars, Batch, Answered
  <2>3. /\ ReaderPhases' /\ ClocksAreClose' /\ StoredTogether'
        /\ BaseIsCommitted' /\ AnswersAreTrue' /\ AnsweredInOrder'
    BY <1>2, <2>2
       DEF vars, MetricInv, ReaderPhases, ClocksAreClose, StoredTogether,
           BaseIsCommitted, Committed, AnswersAreTrue, AnsweredInOrder,
           InWindow, BucketOf
  <2>4. StampsHaveARow'
    BY <1>2, <2>2 DEF vars, MetricInv, StampsHaveARow, BucketOf
  <2>5. ReadsAreComplete' /\ LaterSeriesIsNotOlder'
    BY <1>2, <2>2
       DEF vars, MetricInv, ReadsAreComplete, LaterSeriesIsNotOlder, OfSeries,
           SurelyInside, Wanted, BucketOf
  <2> QED
    BY <2>1, <2>3, <2>4, <2>5 DEF MetricInv
<1> QED
  BY <1>1, <1>2, TimeKeeps, StartKeeps, FindHostsKeeps, ReadSeriesKeeps,
     SkipSeriesKeeps, FinishKeeps DEF Next

LEMMA SpecInv == Spec => []MetricInv
  BY InitInv, StepInv, PTL DEF Spec

(* Theorem: the clock, the table and the reader keep their types.          *)
THEOREM TypeCorrect == Spec => []TypeOK
<1>1. MetricInv => TypeOK
  BY DEF MetricInv
<1> QED
  BY <1>1, SpecInv, PTL

(* Theorem: no reader misses what was stored before it began, although     *)
(* Hosts reads a clock of its own and queries of other series may fail.    *)
THEOREM NoReadMisses == Spec => []ReadsAreComplete
<1>1. MetricInv => ReadsAreComplete
  BY DEF MetricInv
<1> QED
  BY <1>1, SpecInv, PTL

(* Theorem: a series read later in a page has every bucket that one read   *)
(* before it has, of batches that have both names.                         *)
THEOREM PagesShowWholeBatches == Spec => []LaterSeriesIsNotOlder
<1>1. MetricInv => LaterSeriesIsNotOlder
  BY DEF MetricInv
<1> QED
  BY <1>1, SpecInv, PTL

(* Theorem: the timestamp a scrape shows for a series never goes back,     *)
(* whatever arrives late and whatever leaves the window.                   *)
THEOREM StampsAreMonotone == Spec => StampsNeverGoBack
<1>1. MetricInv /\ [Next]_vars => [\A s \in Series : exported'[s] >= exported[s]]_vars
  <2> SUFFICES ASSUME MetricInv, Next, NEW s \in Series
               PROVE  exported'[s] >= exported[s]
    OBVIOUS
  <2>1. exported[s] \in Int
    BY DEF MetricInv, TypeOK
  <2>2. CASE Finish
    <3>1. exported'[s] = exported[s] \/ exported'[s] = Line(s)
      BY <2>2 DEF Finish
    <3>2. reader # "none"
      BY <2>2 DEF Finish, MetricInv, ReaderPhases
    <3> QED
      BY <2>1, <3>1, <3>2, LineNeverGoesBack
  <2>3. CASE ~ Finish
    <3>1. exported' = exported
      BY <2>3 DEF Next, TimePasses, Collect, Insert, Start, FindHosts,
                  ReadSeries, SkipSeries
    <3> QED
      BY <2>1, <3>1
  <2> QED
    BY <2>2, <2>3
<1> QED
  BY <1>1, SpecInv, PTL DEF Spec, StampsNeverGoBack

-----------------------------------------------------------------------------
(* Sums.  g[U] is the sum of f over U, for each subset U of S, as the fold *)
(* of the library builds it: one chosen element after the other.           *)
Chosen(U) == CHOOSE x \in U : TRUE

Unfolds(g, f, S) ==
  g = [U \in SUBSET S |-> IF U = {} THEN 0 ELSE f[Chosen(U)] + g[U \ {Chosen(U)}]]

LEMMA LeastNat ==
  ASSUME NEW T, T \subseteq Nat, T # {}
  PROVE  \E x \in T : \A y \in T : x <= y
<1>1. PICK x \in T : \A y \in T : <<y, x>> \notin OpToRel(<, Nat)
  BY NatLessThanWellFounded, WFMin
<1>2. \A y \in T : ~(y < x)
  BY <1>1 DEF OpToRel
<1> QED
  BY <1>2

(* A subset that is not empty is its chosen element and a smaller subset.  *)
LEMMA ChosenIsRemoved ==
  ASSUME NEW S, IsFiniteSet(S), NEW U \in SUBSET S, U # {}
  PROVE  /\ Chosen(U) \in U
         /\ U \ {Chosen(U)} \in SUBSET S
         /\ Cardinality(U) \in Nat \ {0}
         /\ Cardinality(U \ {Chosen(U)}) = Cardinality(U) - 1
<1>1. Chosen(U) \in U
  BY DEF Chosen
<1>2. IsFiniteSet(U)
  BY FS_Subset
<1>3. Cardinality(U) \in Nat /\ Cardinality(U) # 0
  BY <1>2, FS_CardinalityType, FS_EmptySet
<1>4. Cardinality(U \ {Chosen(U)}) = Cardinality(U) - 1
  BY <1>1, <1>2, FS_RemoveElement
<1> QED
  BY <1>1, <1>3, <1>4

(* The subsets of at most n elements, and the sums over these.             *)
UpTo(S, n) == {U \in SUBSET S : Cardinality(U) <= n}

UnfoldsUpTo(g, f, S, n) ==
  g = [U \in UpTo(S, n) |->
         IF U = {} THEN 0 ELSE f[Chosen(U)] + g[U \ {Chosen(U)}]]

LEMMA SumsExistUpTo ==
  ASSUME NEW S, IsFiniteSet(S), NEW f, NEW N \in Nat
  PROVE  \E g : UnfoldsUpTo(g, f, S, N)
<1> DEFINE T == {n \in Nat : ~ \E g : UnfoldsUpTo(g, f, S, n)}
<1>1. SUFFICES ASSUME T # {}
               PROVE  FALSE
  OBVIOUS
<1>2. PICK n \in T : \A m \in T : n <= m
  <2>1. T \subseteq Nat
    OBVIOUS
  <2> QED
    BY <1>1, <2>1, LeastNat
<1>3. n # 0
  <2>1. ASSUME NEW U \in UpTo(S, 0)
        PROVE  U = {}
    <3>1. U \in SUBSET S /\ Cardinality(U) <= 0
      BY DEF UpTo
    <3>2. U # {} => Cardinality(U) \in Nat \ {0}
      BY <3>1, ChosenIsRemoved
    <3> QED
      BY <3>1, <3>2
  <2>2. UnfoldsUpTo([U \in UpTo(S, 0) |-> 0], f, S, 0)
    BY <2>1 DEF UnfoldsUpTo
  <2> QED
    BY <1>2, <2>2
<1>4. n - 1 \in Nat /\ n - 1 \notin T
  BY <1>2, <1>3
<1>5. PICK g : UnfoldsUpTo(g, f, S, n - 1)
  BY <1>4
<1> DEFINE Next1(U) == f[Chosen(U)] + g[U \ {Chosen(U)}]
           more == [U \in UpTo(S, n) |-> IF U = {} THEN 0 ELSE Next1(U)]
<1>6. ASSUME NEW U \in UpTo(S, n), U # {}
      PROVE  more[U \ {Chosen(U)}] = g[U \ {Chosen(U)}]
  <2> DEFINE V == U \ {Chosen(U)}
  <2>1. V \in UpTo(S, n - 1) /\ V \in UpTo(S, n)
    <3>1. U \in SUBSET S /\ Cardinality(U) <= n
      BY DEF UpTo
    <3>2. V \in SUBSET S /\ Cardinality(V) = Cardinality(U) - 1 /\ Cardinality(U) \in Nat
      BY <1>6, <3>1, ChosenIsRemoved
    <3>3. Cardinality(V) <= n - 1 /\ Cardinality(V) <= n
      BY <3>1, <3>2
    <3> HIDE DEF V
    <3> QED
      BY <3>2, <3>3 DEF UpTo
  <2>2. g[V] = IF V = {} THEN 0 ELSE Next1(V)
    <3> HIDE DEF V
    <3> QED
      BY <1>5, <2>1 DEF UnfoldsUpTo
  <2>3. more[V] = IF V = {} THEN 0 ELSE Next1(V)
    <3> HIDE DEF V, Next1
    <3> QED
      BY <2>1
  <2> QED
    BY <2>2, <2>3
<1>7. \A U \in UpTo(S, n) :
        more[U] = IF U = {} THEN 0 ELSE f[Chosen(U)] + more[U \ {Chosen(U)}]
  BY <1>6
<1>8. UnfoldsUpTo(more, f, S, n)
  <2>1. more = [U \in UpTo(S, n) |-> more[U]]
    OBVIOUS
  <2> HIDE DEF more
  <2> QED
    BY <1>7, <2>1 DEF UnfoldsUpTo
<1> QED
  BY <1>2, <1>8

LEMMA SumsExist ==
  ASSUME NEW S, IsFiniteSet(S), NEW f
  PROVE  \E g : Unfolds(g, f, S)
<1>1. Cardinality(S) \in Nat
  BY FS_CardinalityType
<1>2. UpTo(S, Cardinality(S)) = SUBSET S
  <2>1. \A U \in SUBSET S : Cardinality(U) <= Cardinality(S)
    BY FS_Subset
  <2> QED
    BY <2>1 DEF UpTo
<1>3. PICK g : UnfoldsUpTo(g, f, S, Cardinality(S))
  BY <1>1, SumsExistUpTo
<1> QED
  BY <1>2, <1>3 DEF UnfoldsUpTo, Unfolds

LEMMA SumUnfolds ==
  ASSUME NEW f, IsFiniteSet(DOMAIN f)
  PROVE  \E g : Unfolds(g, f, DOMAIN f) /\ SumFunction(f) = g[DOMAIN f]
<1>1. SumFunction(f) = (CHOOSE g : Unfolds(g, f, DOMAIN f))[DOMAIN f]
  BY DEF SumFunction, SumFunctionOnSet, FoldFunctionOnSet, MapThenFoldSet,
         Unfolds, Chosen
<1>2. \E g : Unfolds(g, f, DOMAIN f)
  BY SumsExist
<1> QED
  BY <1>1, <1>2

LEMMA CardinalityUnfolds ==
  ASSUME NEW S, IsFiniteSet(S)
  PROVE  Unfolds([U \in SUBSET S |-> Cardinality(U)], [x \in S |-> 1], S)
<1> DEFINE card == [U \in SUBSET S |-> Cardinality(U)]
           one  == [x \in S |-> 1]
<1>1. ASSUME NEW U \in SUBSET S
      PROVE  card[U] = IF U = {} THEN 0 ELSE one[Chosen(U)] + card[U \ {Chosen(U)}]
  <2>1. CASE U = {}
    BY <2>1, FS_EmptySet
  <2>2. CASE U # {}
    <3>1. /\ Chosen(U) \in U /\ U \ {Chosen(U)} \in SUBSET S
          /\ Cardinality(U) \in Nat
          /\ Cardinality(U \ {Chosen(U)}) = Cardinality(U) - 1
      BY <2>2, ChosenIsRemoved
    <3>2. one[Chosen(U)] = 1
      BY <3>1
    <3>3. card[U \ {Chosen(U)}] = Cardinality(U \ {Chosen(U)}) /\ card[U] = Cardinality(U)
      BY <3>1
    <3> HIDE DEF card, one
    <3> QED
      BY <2>2, <3>1, <3>2, <3>3
  <2> QED
    BY <2>1, <2>2
<1>2. card = [U \in SUBSET S |-> card[U]]
  OBVIOUS
<1> HIDE DEF card, one
<1>3. Unfolds(card, one, S)
  BY <1>1, <1>2 DEF Unfolds
<1> QED
  BY <1>3 DEF card, one

(* When each term of f is bounded by K times that of w, so is the sum.     *)
LEMMA SumsCompare ==
  ASSUME NEW S, IsFiniteSet(S), NEW K \in Int,
         NEW f, \A x \in S : f[x] \in Int,
         NEW w, \A x \in S : w[x] \in Nat,
         NEW g, Unfolds(g, f, S), NEW h, Unfolds(h, w, S)
  PROVE  /\ g[S] \in Int /\ h[S] \in Nat
         /\ (\A x \in S : K * w[x] <= f[x]) => K * h[S] <= g[S]
         /\ (\A x \in S : f[x] <= K * w[x]) => g[S] <= K * h[S]
<1> DEFINE Good(U) ==
             /\ g[U] \in Int /\ h[U] \in Nat
             /\ (\A x \in S : K * w[x] <= f[x]) => K * h[U] <= g[U]
             /\ (\A x \in S : f[x] <= K * w[x]) => g[U] <= K * h[U]
           Bad == {U \in SUBSET S : ~Good(U)}
           T == {Cardinality(U) : U \in Bad}
<1>1. SUFFICES ASSUME Bad # {}
               PROVE  FALSE
  OBVIOUS
<1>2. T \subseteq Nat /\ T # {}
  <2>1. \A U \in SUBSET S : Cardinality(U) \in Nat
    BY FS_Subset, FS_CardinalityType
  <2> QED
    BY <1>1, <2>1
<1>3. PICK n \in T : \A m \in T : n <= m
  <2> HIDE DEF T
  <2> QED
    BY <1>2, LeastNat
<1>4. PICK U \in Bad : \A V \in Bad : Cardinality(U) <= Cardinality(V)
  BY <1>3
<1>5. U \in SUBSET S /\ ~Good(U)
  OBVIOUS
<1>6. /\ g[U] = IF U = {} THEN 0 ELSE f[Chosen(U)] + g[U \ {Chosen(U)}]
      /\ h[U] = IF U = {} THEN 0 ELSE w[Chosen(U)] + h[U \ {Chosen(U)}]
  BY <1>5 DEF Unfolds
<1>7. CASE U = {}
  <2>1. g[U] = 0 /\ h[U] = 0 /\ K * 0 = 0
    BY <1>6, <1>7
  <2> QED
    BY <1>5, <2>1
<1>8. CASE U # {}
  <2> DEFINE x == Chosen(U)
             V == U \ {x}
  <2>1. /\ x \in S /\ V \in SUBSET S
        /\ Cardinality(V) = Cardinality(U) - 1 /\ Cardinality(U) \in Nat
    BY <1>5, <1>8, ChosenIsRemoved
  <2>2. V \notin Bad
    <3> HIDE DEF V, Bad
    <3> QED
      BY <1>4, <2>1
  <2>3. Good(V)
    BY <2>1, <2>2
  <2>4. g[U] = f[x] + g[V] /\ h[U] = w[x] + h[V]
    BY <1>6, <1>8
  <2>5. f[x] \in Int /\ w[x] \in Nat
    BY <2>1
  <2> HIDE DEF x, V
  <2>6. g[U] \in Int /\ h[U] \in Nat /\ K * h[U] = K * w[x] + K * h[V]
    BY <2>3, <2>4, <2>5
  <2>7. K * w[x] \in Int /\ K * h[V] \in Int
    BY <2>3, <2>5
  <2>8. (\A y \in S : K * w[y] <= f[y]) => K * h[U] <= g[U]
    BY <2>1, <2>3, <2>4, <2>5, <2>6, <2>7
  <2>9. (\A y \in S : f[y] <= K * w[y]) => g[U] <= K * h[U]
    BY <2>1, <2>3, <2>4, <2>5, <2>6, <2>7
  <2> QED
    BY <1>5, <2>6, <2>8, <2>9
<1> QED
  BY <1>7, <1>8

(* Two functions with the same finite domain.                              *)
LEMMA SumBounds ==
  ASSUME NEW f, NEW w, DOMAIN w = DOMAIN f, IsFiniteSet(DOMAIN f),
         \A x \in DOMAIN f : f[x] \in Int /\ w[x] \in Nat,
         NEW K \in Int
  PROVE  /\ SumFunction(f) \in Int /\ SumFunction(w) \in Nat
         /\ (\A x \in DOMAIN f : K * w[x] <= f[x])
              => K * SumFunction(w) <= SumFunction(f)
         /\ (\A x \in DOMAIN f : f[x] <= K * w[x])
              => SumFunction(f) <= K * SumFunction(w)
<1>1. PICK g : Unfolds(g, f, DOMAIN f) /\ SumFunction(f) = g[DOMAIN f]
  BY SumUnfolds
<1>2. PICK h : Unfolds(h, w, DOMAIN f) /\ SumFunction(w) = h[DOMAIN f]
  BY SumUnfolds
<1> QED
  BY <1>1, <1>2, SumsCompare

(* The number of terms as the measure.                                     *)
LEMMA SumBoundsByCount ==
  ASSUME NEW f, IsFiniteSet(DOMAIN f), \A x \in DOMAIN f : f[x] \in Int,
         NEW K \in Int
  PROVE  /\ SumFunction(f) \in Int
         /\ (\A x \in DOMAIN f : K <= f[x])
              => K * Cardinality(DOMAIN f) <= SumFunction(f)
         /\ (\A x \in DOMAIN f : f[x] <= K)
              => SumFunction(f) <= K * Cardinality(DOMAIN f)
<1> DEFINE S == DOMAIN f
           card == [U \in SUBSET S |-> Cardinality(U)]
           one == [x \in S |-> 1]
<1>1. PICK g : Unfolds(g, f, S) /\ SumFunction(f) = g[S]
  BY SumUnfolds
<1>2. Unfolds(card, one, S)
  BY CardinalityUnfolds
<1>3. card[S] = Cardinality(S)
  OBVIOUS
<1>4. \A x \in S : one[x] \in Nat /\ K * one[x] = K
  OBVIOUS
<1> HIDE DEF card, one
<1>5. /\ g[S] \in Int
      /\ (\A x \in S : K * one[x] <= f[x]) => K * card[S] <= g[S]
      /\ (\A x \in S : f[x] <= K * one[x]) => g[S] <= K * card[S]
  BY <1>1, <1>2, <1>4, SumsCompare
<1> QED
  BY <1>1, <1>3, <1>4, <1>5

-----------------------------------------------------------------------------
(* The verdict of a rule.                                                  *)

LEMMA QuotientBounds ==
  ASSUME NEW a \in Int, NEW n \in Nat \ {0}, NEW q \in Int
  PROVE  /\ a \div n \in Int
         /\ q * n <= a => q <= a \div n
         /\ a <= q * n => a \div n <= q
<1> DEFINE d == a \div n
<1>1. d \in Int /\ n * d <= a /\ a < n * d + n
  OBVIOUS
<1> HIDE DEF d
<1>2. ASSUME q * n <= a
      PROVE  q <= d
  <2>1. SUFFICES ASSUME d + 1 <= q
                 PROVE  FALSE
    BY <1>1
  <2>2. PICK k \in Nat : q = (d + 1) + k
    BY <1>1, <2>1
  <2>3. q * n = n * d + n + k * n /\ k * n \in Nat
    BY <1>1, <2>2
  <2> QED
    BY <1>1, <1>2, <2>3
<1>3. ASSUME a <= q * n
      PROVE  d <= q
  <2>1. SUFFICES ASSUME q + 1 <= d
                 PROVE  FALSE
    BY <1>1
  <2>2. PICK k \in Nat : d = (q + 1) + k
    BY <1>1, <2>1
  <2>3. n * d = q * n + n + k * n /\ k * n \in Nat /\ q * n \in Int
    BY <1>1, <2>2
  <2> QED
    BY <1>1, <1>3, <2>3
<1> QED
  BY <1>1, <1>2, <1>3 DEF d

(* A weighted mean lies between the bounds of its values.                  *)
LEMMA MeanBounds ==
  ASSUME NEW D, IsFiniteSet(D), D # {}, NEW c, NEW v, NEW K \in Int,
         \A i \in D : c[i] \in Nat \ {0} /\ v[i] \in Int,
         NEW mean,
         mean = (Scale * SumFunction([i \in D |-> c[i] * v[i]]))
                  \div SumFunction([i \in D |-> c[i]])
  PROVE  /\ mean \in Int
         /\ (\A i \in D : K <= v[i]) => Scale * K <= mean
         /\ (\A i \in D : v[i] <= K) => mean <= Scale * K
<1> DEFINE f == [i \in D |-> c[i] * v[i]]
           w == [i \in D |-> c[i]]
           a == SumFunction(f)
           n == SumFunction(w)
<1>1. Scale \in Nat
  BY MetricStoreAssumption
<1>2. DOMAIN f = D /\ DOMAIN w = D /\ \A i \in D : f[i] = c[i] * v[i] /\ w[i] = c[i]
  OBVIOUS
<1>3. mean = (Scale * a) \div n
  OBVIOUS
<1> HIDE DEF f, w
<1>4. \A i \in D : w[i] \in Nat /\ f[i] \in Int /\ 1 <= w[i]
  BY <1>2
<1>5. ASSUME NEW i \in D, K <= v[i]
      PROVE  K * w[i] <= f[i]
  <2> DEFINE k == v[i] - K
  <2>1. k \in Nat /\ v[i] = K + k
    <3>1. v[i] \in Int
      BY <1>5
    <3> QED
      BY <1>5, <3>1
  <2> HIDE DEF k
  <2>2. f[i] = K * w[i] + k * w[i] /\ k * w[i] \in Nat /\ K * w[i] \in Int
    BY <1>2, <2>1
  <2> QED
    BY <1>4, <2>2
<1>6. ASSUME NEW i \in D, v[i] <= K
      PROVE  f[i] <= K * w[i]
  <2> DEFINE k == K - v[i]
  <2>1. k \in Nat /\ K = v[i] + k /\ v[i] \in Int
    <3>1. v[i] \in Int
      BY <1>6
    <3> QED
      BY <1>6, <3>1
  <2> HIDE DEF k
  <2>2. K * w[i] = f[i] + k * w[i] /\ k * w[i] \in Nat
    BY <1>2, <2>1
  <2> QED
    BY <1>4, <2>2
<1>7. /\ a \in Int /\ n \in Nat
      /\ (\A i \in D : K <= v[i]) => K * n <= a
      /\ (\A i \in D : v[i] <= K) => a <= K * n
  BY <1>2, <1>4, <1>5, <1>6, SumBounds
<1>8. n \in Nat \ {0}
  <2>1. 1 * Cardinality(D) <= n
    BY <1>2, <1>4, SumBoundsByCount
  <2>2. Cardinality(D) \in Nat \ {0}
    BY FS_CardinalityType, FS_EmptySet
  <2> QED
    BY <1>7, <2>1, <2>2
<1> HIDE DEF a, n
<1>9. /\ Scale * a \in Int /\ Scale * K \in Int
      /\ K * n <= a => (Scale * K) * n <= Scale * a
      /\ a <= K * n => Scale * a <= (Scale * K) * n
  <2>1. Scale * a \in Int /\ Scale * K \in Int
    BY <1>1, <1>7
  <2>2. ASSUME K * n <= a
        PROVE  (Scale * K) * n <= Scale * a
    <3>1. PICK k \in Nat : a = K * n + k
      BY <1>7, <2>2
    <3>2. Scale * a = (Scale * K) * n + Scale * k /\ Scale * k \in Nat
      BY <1>1, <1>7, <3>1
    <3>3. (Scale * K) * n \in Int
      BY <1>7, <2>1
    <3> QED
      BY <3>2, <3>3
  <2>3. ASSUME a <= K * n
        PROVE  Scale * a <= (Scale * K) * n
    <3>1. PICK k \in Nat : K * n = a + k
      BY <1>7, <2>3
    <3>2. (Scale * K) * n = Scale * (K * n)
      BY <1>1, <1>7
    <3>3. Scale * (a + k) = Scale * a + Scale * k /\ Scale * k \in Nat
      BY <1>1, <1>7
    <3> QED
      BY <2>1, <3>1, <3>2, <3>3
  <2> QED
    BY <2>1, <2>2, <2>3
<1> QED
  BY <1>3, <1>7, <1>8, <1>9, QuotientBounds

(* The rows that decide a bucket, and what its mean is.                    *)
LEMMA QueryMeans ==
  ASSUME TypeOK, NEW s \in Series, NEW from, NEW to, NEW K \in Int,
         NEW b \in DOMAIN Query(s, from, to),
         NEW seen,
         \A i \in Batch : /\ batches[i].host = s[2]
                          /\ stored[i][s[1]] > 0
                          /\ batches[i].time \in from..to
                          => i \in seen
  PROVE  /\ Query(s, from, to)[b] \in Int
         /\ (\A i \in seen : K <= batches[i].value) => Scale * K <= Query(s, from, to)[b]
         /\ (\A i \in seen : batches[i].value <= K) => Query(s, from, to)[b] <= Scale * K
<1> DEFINE rows == {i \in Batch : /\ batches[i].host = s[2]
                                  /\ stored[i][s[1]] > 0
                                  /\ batches[i].time \in from..to}
           In(x) == {i \in rows : BucketOf(batches[i].time) = x}
           D == In(b)
           c == [i \in D |-> stored[i][s[1]]]
           v == [i \in D |-> batches[i].value]
<1>1. D \subseteq Batch /\ D \subseteq seen
  OBVIOUS
<1>2. IsFiniteSet(D)
  <2>1. Batch = 1..Len(batches) /\ Len(batches) \in Nat
    BY LenProperties DEF TypeOK, Batch
  <2>2. IsFiniteSet(1..Len(batches))
    BY <2>1, FS_Interval
  <2> QED
    BY <1>1, <2>1, <2>2, FS_Subset
<1>3. D # {}
  <2>1. DOMAIN Query(s, from, to) = {BucketOf(batches[i].time) : i \in rows}
    BY Zenon DEF Query
  <2>2. PICK i \in rows : b = BucketOf(batches[i].time)
    <3> HIDE DEF rows
    <3> QED
      BY <2>1
  <2> QED
    BY <2>2
<1>4. \A i \in D : c[i] \in Nat \ {0} /\ v[i] \in Int /\ v[i] = batches[i].value
  <2>1. ASSUME NEW i \in D
        PROVE  stored[i][s[1]] \in Nat \ {0} /\ batches[i].value \in Int
    <3>1. s[1] \in Names
      BY DEF Series
    <3>2. stored[i][s[1]] \in Nat /\ batches[i] \in BatchRecord
      BY <1>1, <3>1, BatchTypes
    <3>3. batches[i].value \in Int
      BY <3>2, MetricStoreAssumption DEF BatchRecord
    <3>4. stored[i][s[1]] > 0
      OBVIOUS
    <3> QED
      BY <3>2, <3>3, <3>4
  <2> QED
    BY <2>1
<1>5. Query(s, from, to)[b] =
        (Scale * SumFunction([i \in D |-> c[i] * v[i]]))
          \div SumFunction([i \in D |-> c[i]])
  <2>1. Query(s, from, to)[b] =
          (Scale * SumFunction([i \in D |-> [j \in D |-> stored[j][s[1]]][i] * batches[i].value]))
            \div SumFunction([i \in D |-> stored[i][s[1]]])
    BY DEF Query
  <2>2. [i \in D |-> [j \in D |-> stored[j][s[1]]][i] * batches[i].value]
          = [i \in D |-> c[i] * v[i]]
    OBVIOUS
  <2>3. [i \in D |-> stored[i][s[1]]] = [i \in D |-> c[i]]
    OBVIOUS
  <2> QED
    BY <2>1, <2>2, <2>3
<1> HIDE DEF D, c, v
<1>6. /\ Query(s, from, to)[b] \in Int
      /\ (\A i \in D : K <= v[i]) => Scale * K <= Query(s, from, to)[b]
      /\ (\A i \in D : v[i] <= K) => Query(s, from, to)[b] <= Scale * K
  BY <1>2, <1>3, <1>4, <1>5, MeanBounds
<1> QED
  BY <1>1, <1>4, <1>6

(* The batches a point of series s can be made of, whatever their clocks   *)
(* showed.                                                                 *)
Seen(s) == {i \in OfSeries(s) : MayBeInside(i)}

(* A point is above the threshold by a whole unit if all these batches     *)
(* are, and is not above it if none of them is.                            *)
MeansAreTrue ==
  \A s \in Answered :
     /\ IsFiniteSet(DOMAIN answer[s])
     /\ \A b \in DOMAIN answer[s] :
          /\ answer[s][b] \in Int
          /\ (\A i \in Seen(s) : Threshold + 1 <= batches[i].value)
               => Scale * (Threshold + 1) <= answer[s][b]
          /\ (\A i \in Seen(s) : batches[i].value <= Threshold)
               => answer[s][b] <= Scale * Threshold

(* A query in the window of the reader finds only batches that it may see. *)
LEMMA RowsAreSeen ==
  ASSUME MetricInv, reader \in Readers, NEW s \in Series, NEW i \in Batch,
         batches[i].host = s[2], stored[i][s[1]] > 0,
         batches[i].time \in (start - Window[reader])..start
  PROVE  i \in Seen(s)
<1>1. s[1] \in batches[i].names
  <2>1. s[1] \in Names
    BY DEF Series
  <2> QED
    BY <2>1, RowsHaveTheName DEF MetricInv
<1>2. /\ batches[i].at \in Int /\ batches[i].time \in Int
      /\ start \in Int /\ Window[reader] \in Nat /\ MaxSkew \in Nat
  BY BatchTypes, Constants DEF MetricInv, TypeOK
<1>3. batches[i].time \in (batches[i].at - MaxSkew)..(batches[i].at + MaxSkew)
  BY DEF MetricInv, ClocksAreClose
<1>4. MayBeInside(i)
  BY <1>2, <1>3 DEF MayBeInside
<1> QED
  BY <1>1, <1>4 DEF Seen, OfSeries

(* There are no more buckets in an answer than batches.                    *)
LEMMA BucketsAreFinite ==
  ASSUME TypeOK, NEW s, NEW from, NEW to
  PROVE  IsFiniteSet(DOMAIN Query(s, from, to))
<1> DEFINE rows == {i \in Batch : /\ batches[i].host = s[2]
                                  /\ stored[i][s[1]] > 0
                                  /\ batches[i].time \in from..to}
           Of(i) == BucketOf(batches[i].time)
           f == [i \in rows |-> Of(i)]
           T == {Of(i) : i \in rows}
<1>1. IsFiniteSet(rows)
  <2>1. Batch = 1..Len(batches) /\ Len(batches) \in Nat
    BY LenProperties DEF TypeOK, Batch
  <2>2. IsFiniteSet(1..Len(batches))
    BY <2>1, FS_Interval
  <2> QED
    BY <2>1, <2>2, FS_Subset
<1>2. DOMAIN Query(s, from, to) = T
  BY Zenon DEF Query
<1>3. f \in Surjection(rows, T)
  <2> HIDE DEF rows, Of
  <2> QED
    BY DEF Surjection
<1> HIDE DEF rows, T, f
<1> QED
  BY <1>1, <1>2, <1>3, FS_Surjection

LEMMA ReadSeriesMeans ==
  ASSUME MetricInv, MeansAreTrue, NEW s \in Series, ReadSeries(s)
  PROVE  MeansAreTrue'
<1> DEFINE from == start - Window[reader]
           q == Query(s, from, start)
<1>1. /\ reader \in Readers /\ Batch' = Batch
      /\ UNCHANGED <<batches, reader, start>>
  <2>1. pc = "series" /\ UNCHANGED <<batches, reader, start>>
    BY DEF ReadSeries, storeVars
  <2> QED
    BY <2>1 DEF MetricInv, ReaderPhases, TypeOK, Batch
<1>2. answer'[s] = q /\ \A t \in Series \ {s} : answer'[t] = answer[t]
  BY DEF ReadSeries, MetricInv, TypeOK
<1>3. \A t : Seen(t)' = Seen(t)
  BY <1>1 DEF Seen, OfSeries, MayBeInside
<1>4. \A i \in Batch : /\ batches[i].host = s[2]
                       /\ stored[i][s[1]] > 0
                       /\ batches[i].time \in from..start
                       => i \in Seen(s)
  BY <1>1, RowsAreSeen
<1>5. TypeOK /\ Threshold \in Int /\ Threshold + 1 \in Int
  BY MetricStoreAssumption DEF MetricInv
<1>6. IsFiniteSet(DOMAIN q)
  BY <1>5, BucketsAreFinite
<1>7. ASSUME NEW b \in DOMAIN q
      PROVE  /\ q[b] \in Int
             /\ (\A i \in Seen(s) : Threshold + 1 <= batches[i].value)
                  => Scale * (Threshold + 1) <= q[b]
             /\ (\A i \in Seen(s) : batches[i].value <= Threshold)
                  => q[b] <= Scale * Threshold
  <2> HIDE DEF from
  <2>1. /\ q[b] \in Int
        /\ (\A i \in Seen(s) : Threshold + 1 <= batches[i].value)
             => Scale * (Threshold + 1) <= q[b]
    BY <1>4, <1>5, QueryMeans
  <2>2. (\A i \in Seen(s) : batches[i].value <= Threshold)
          => q[b] <= Scale * Threshold
    BY <1>4, <1>5, QueryMeans
  <2> QED
    BY <2>1, <2>2
<1> HIDE DEF q, from
<1> SUFFICES ASSUME NEW t \in Answered'
             PROVE  /\ IsFiniteSet(DOMAIN answer'[t])
                    /\ \A b \in DOMAIN answer'[t] :
                         /\ answer'[t][b] \in Int
                         /\ (\A i \in Seen(t) : Threshold + 1 <= batches[i].value)
                              => Scale * (Threshold + 1) <= answer'[t][b]
                         /\ (\A i \in Seen(t) : batches[i].value <= Threshold)
                              => answer'[t][b] <= Scale * Threshold
  BY <1>1, <1>3 DEF MeansAreTrue
<1>8. CASE t = s
  BY <1>2, <1>6, <1>7, <1>8
<1>9. CASE t # s
  <2>1. t \in Series /\ answer'[t] = answer[t] /\ t \in Answered
    BY <1>2, <1>9 DEF Answered
  <2> QED
    BY <2>1 DEF MeansAreTrue
<1> QED
  BY <1>8, <1>9

(* The batches collected meanwhile may be seen, too; a mean stays what it  *)
(* was of those before.                                                    *)
LEMMA MeansStay ==
  ASSUME MeansAreTrue, UNCHANGED <<reader, start, answer>>,
         Batch \subseteq Batch', \A i \in Batch : batches'[i] = batches[i]
  PROVE  MeansAreTrue'
<1>1. \A s : Seen(s) \subseteq Seen(s)' /\ Seen(s) \subseteq Batch
  BY DEF Seen, OfSeries, MayBeInside
<1>2. Answered' = Answered
  BY DEF Answered
<1> QED
  BY <1>1, <1>2 DEF MeansAreTrue

LEMMA StepMeans == MetricInv /\ MeansAreTrue /\ [Next]_vars => MeansAreTrue'
<1> SUFFICES ASSUME MetricInv, MeansAreTrue, [Next]_vars
             PROVE  MeansAreTrue'
  OBVIOUS
<1>1. CASE (\E h \in Hosts : Collect(h)) \/ (\E i \in Batch : Insert(i))
  <2>1. TableGrows
    BY <1>1, TableStepsGrow DEF MetricInv
  <2> QED
    BY <2>1, MeansStay DEF TableGrows, readerVars
<1>2. CASE TimePasses \/ FindHosts \/ (\E s \in Series : SkipSeries(s)) \/ UNCHANGED vars
  <2>1. UNCHANGED <<batches, reader, start, answer>>
    BY <1>2 DEF TimePasses, FindHosts, SkipSeries, vars, storeVars, readerVars
  <2>2. Batch' = Batch
    BY <2>1 DEF Batch
  <2> QED
    BY <2>1, <2>2, MeansStay
<1>3. CASE (\E r \in Readers : Start(r)) \/ Finish
  <2>1. Answered' = {}
    <3>1. ASSUME NEW r \in Readers, Start(r) PROVE Answered' = {}
      <4>1. reader = "none" /\ answer' = answer
        BY <3>1 DEF Start
      <4> QED
        BY <4>1 DEF MetricInv, ReaderPhases, Answered
    <3>2. CASE Finish
      BY <3>2 DEF Finish, Answered
    <3> QED
      BY <1>3, <3>1, <3>2
  <2> QED
    BY <2>1 DEF MeansAreTrue
<1> QED
  BY <1>1, <1>2, <1>3, ReadSeriesMeans DEF Next

(* Means that are true add up to a verdict that is.                        *)
LEMMA MeansDecide == MetricInv /\ MeansAreTrue => VerdictIsSound
<1> SUFFICES ASSUME MetricInv, MeansAreTrue, NEW s \in Answered
             PROVE  /\ (\A i \in Seen(s) : batches[i].value > Threshold)
                         => Firing(answer[s])
                    /\ (\A i \in Seen(s) : ~(batches[i].value > Threshold))
                         => ~Firing(answer[s])
  BY DEF VerdictIsSound, Seen
<1> DEFINE p == answer[s]
           n == Cardinality(DOMAIN p)
           sum == SumFunction(p)
<1>1. /\ IsFiniteSet(DOMAIN p) /\ \A b \in DOMAIN p : p[b] \in Int
      /\ Threshold \in Int /\ Scale \in Nat \ {0}
  BY MetricStoreAssumption DEF MeansAreTrue
<1>2. n \in Nat \ {0}
  BY <1>1, FS_CardinalityType, FS_EmptySet DEF Answered
<1>3. \A i \in Seen(s) : batches[i].value \in Int
  <2>1. \A i \in Seen(s) : i \in Batch
    BY DEF Seen, OfSeries
  <2> QED
    BY <2>1, BatchTypes, MetricStoreAssumption DEF MetricInv, BatchRecord
<1>4. /\ Scale * Threshold \in Int /\ Scale * (Threshold + 1) \in Int
      /\ Scale * (Threshold + 1) = Scale * Threshold + Scale
  BY <1>1
<1>5. /\ sum \in Int
      /\ (\A b \in DOMAIN p : Scale * (Threshold + 1) <= p[b])
           => (Scale * (Threshold + 1)) * n <= sum
      /\ (\A b \in DOMAIN p : p[b] <= Scale * Threshold)
           => sum <= (Scale * Threshold) * n
  <2> HIDE DEF p
  <2> QED
    BY <1>1, <1>4, SumBoundsByCount
<1>6. (Scale * (Threshold + 1)) * n = (Threshold * Scale) * n + Scale * n
  BY <1>1, <1>2
<1>7. /\ (Scale * Threshold) * n = (Threshold * Scale) * n
      /\ (Threshold * Scale) * n \in Int /\ Scale * n \in Nat \ {0}
  BY <1>1, <1>2
<1>8. Firing(p) <=> sum > (Threshold * Scale) * n
  BY DEF Firing
<1>9. ASSUME \A i \in Seen(s) : batches[i].value > Threshold
      PROVE  Firing(p)
  <2>1. \A i \in Seen(s) : Threshold + 1 <= batches[i].value
    BY <1>1, <1>3, <1>9
  <2>2. \A b \in DOMAIN p : Scale * (Threshold + 1) <= p[b]
    BY <2>1 DEF MeansAreTrue
  <2> HIDE DEF p, n, sum
  <2> QED
    BY <1>5, <1>6, <1>7, <1>8, <2>2
<1>10. ASSUME \A i \in Seen(s) : ~(batches[i].value > Threshold)
       PROVE  ~Firing(p)
  <2>1. \A i \in Seen(s) : batches[i].value <= Threshold
    BY <1>1, <1>3, <1>10
  <2>2. \A b \in DOMAIN p : p[b] <= Scale * Threshold
    BY <2>1 DEF MeansAreTrue
  <2> HIDE DEF p, n, sum
  <2> QED
    BY <1>5, <1>7, <1>8, <2>2
<1> QED
  BY <1>9, <1>10

(* Theorem: a rule fires for a host that was above the threshold all       *)
(* through its window and not for one that never was, however the batches  *)
(* fall into buckets and however often each is stored.                     *)
THEOREM VerdictsAreSound == Spec => []VerdictIsSound
<1>1. Init => MeansAreTrue
  BY DEF Init, MeansAreTrue, Answered
<1> QED
  BY <1>1, SpecInv, StepMeans, MeansDecide, PTL DEF Spec
=============================================================================
