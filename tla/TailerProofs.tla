---------------------------- MODULE TailerProofs ----------------------------
(***************************************************************************)
(* Proofs about the log tailer, for any number of lines, of rotations and  *)
(* of lines that are too long, and any size of the chunks; and about the   *)
(* log sender, for any number of chunks, of attempts and of late handlers. *)
(***************************************************************************)
EXTENDS Tailer, SequenceTheorems, WellFoundedInduction, TLAPS

(* The files hold only lines that were written, each in one file, none     *)
(* that the path did not name yet has any, and a renamed file can be       *)
(* followed by another.                                                    *)
FilesAreBounded ==
  /\ \A g \in Gen :
       /\ Len(content[g]) <= written
       /\ \A i \in DOMAIN content[g] : content[g][i] <= written
       /\ g > newest => content[g] = <<>>
  /\ \A g, h \in Gen :
       \A i \in DOMAIN content[g], j \in DOMAIN content[h] :
          content[g][i] = content[h][j] => g = h
  /\ \A l \in old : l <= written
  /\ current = NoFile => newest < MaxGens

FilesTyped == TypeOK /\ FilesAreBounded

Kinds == {"write", "rename", "create"}

(* Only the file that the path names is watched.  In the queue a write is  *)
(* the last event, while its file is watched, or the rename of that file   *)
(* comes next.                                                             *)
QueueIsOrdered ==
  /\ watched \in {NoFile, current}
  /\ Starting => events = <<>> /\ watched = NoFile
  /\ \A i \in 1..(Len(events) - 1) : events[i] = "write" => events[i + 1] = "rename"
  /\ events # <<>> /\ Last(events) = "write" => watched # NoFile

(* The next event is no creation, now or when it comes.                    *)
NoCreationNext ==
  IF events = <<>> THEN watched # NoFile ELSE Head(events) # "create"

(* No creation interrupts the reading of an open file before its rename;   *)
(* an offset that was left without an open file is not used until the next *)
(* creation resets it.                                                     *)
QueueFitsHandle ==
  /\ pc \in {"open", "reopen", "lookup"} => handle = NoFile
  /\ pc = "open" => offset = 0
  /\ \/ offset > 0 /\ ~Starting /\ handle # NoFile
     \/ pc \in {"lookup", "read", "scan"}
     => NoCreationNext
  /\ handle = NoFile /\ offset > 0 =>
       /\ watched = NoFile
       /\ pc # "lookup"
       /\ ToSet(events) \subseteq {"create"}

QueueInv == QueueIsOrdered /\ QueueFitsHandle

(* The write event that comes next.                                        *)
WriteNext == events # <<>> /\ Head(events) = "write"

WritePending == "write" \in ToSet(events)

(* Old lines are never in front of the tailer: not behind its offset, its  *)
(* size or its Scanner, and not in a file it has still to open.            *)
OldIsBehind ==
  /\ pc \in {"open", "stat"} => old = {} /\ read = {}
  /\ pc = "add" => read = {}
  /\ handle # NoFile =>
       \A i \in DOMAIN content[handle] : content[handle][i] \in old =>
         /\ i <= offset /\ offset <= Len(content[handle])
         /\ pc = "scan" => /\ i <= statSize /\ statSize <= Len(content[handle])
                           /\ i <= position
  /\ current # NoFile /\ (\E i \in DOMAIN content[current] : content[current][i] \in old) =>
       /\ ToSet(events) \subseteq {"write"}
       /\ pc # "reopen"
       /\ \/ handle = current
          \/ handle = NoFile /\ events = <<>> /\ watched = NoFile

(* Lines that need no more attention.                                      *)
Done == read \cup old \cup overflowed

(* Unless a truncation interferes, what is before the offset, or before    *)
(* the Scanner, was dealt with, and neither is beyond the end of the file. *)
ReadingIsComplete ==
  handle # NoFile /\ ~shrunk /\ ~missed =>
    /\ offset <= Len(content[handle])
    /\ pc = "scan" => statSize <= Len(content[handle])
                        /\ position <= Len(content[handle])
    /\ \A i \in DOMAIN content[handle] :
         i <= (IF pc = "scan" THEN position ELSE offset)
           => content[handle][i] \in Done

(* A line that nobody has to look for.                                     *)
Accounted(g, i) == content[g][i] \in Done \cup unnoticed \cup strayed

(* A line that was noticed is accounted for, or it is in the open file and *)
(* the tailer has not looked at the size of that file since, or had not    *)
(* when it was written and is not through with the reading.                *)
LinesAreAccountedFor ==
  ~missed =>
    \A g \in Gen : \A i \in DOMAIN content[g] :
      \/ Accounted(g, i)
      \/ g = handle /\ (WriteNext \/ pc = "read")
      \/ g = handle /\ pc = "scan" /\ ~shrunk /\ i <= statSize

(* The inductive invariant.                                                *)
TailerInv ==
  /\ FilesTyped
  /\ QueueInv
  /\ OldIsBehind
  /\ OldIsNeverRead
  /\ ReadingIsComplete
  /\ LinesAreAccountedFor

-----------------------------------------------------------------------------
(* Where an event goes when it is queued, and what remains when the oldest *)
(* is taken.                                                               *)
LEMMA Queues ==
  ASSUME TypeOK, NEW e \in Kinds
  PROVE  /\ Queue(e) \in Seq(Kinds) /\ Queue(e) # <<>> /\ Last(Queue(e)) = e
         /\ Head(Queue(e)) = IF events = <<>> THEN e ELSE Head(events)
         /\ ToSet(Queue(e)) = ToSet(events) \cup {e}
         /\ \A i \in 1..(Len(Queue(e)) - 1) :
              \/ /\ i \in 1..(Len(events) - 1)
                 /\ Queue(e)[i] = events[i] /\ Queue(e)[i + 1] = events[i + 1]
              \/ /\ events # <<>>
                 /\ Queue(e)[i] = Last(events) /\ Queue(e)[i + 1] = e
<1>1. /\ events \in Seq(Kinds) /\ Len(events) \in Nat
      /\ DOMAIN events = 1..Len(events)
      /\ events # <<>> => Len(events) > 0 /\ Head(events) = events[1]
      /\ events = <<>> => Len(events) = 0
  BY EmptySeq, HeadTailProperties, LenProperties DEF TypeOK, Kinds
<1>2. CASE events # <<>> /\ Last(events) = e
  <2>1. Queue(e) = events
    BY <1>2 DEF Queue
  <2>2. e \in ToSet(events)
    BY <1>1, <1>2 DEF ToSet, Last
  <2> QED
    BY <1>1, <1>2, <2>1, <2>2
<1>3. CASE ~(events # <<>> /\ Last(events) = e)
  <2>1. Queue(e) = Append(events, e)
    BY <1>3 DEF Queue
  <2> DEFINE q == Append(events, e)
  <2>2. /\ q \in Seq(Kinds)
        /\ Len(q) = Len(events) + 1
        /\ \A i \in 1..Len(events) : q[i] = events[i]
        /\ q[Len(events) + 1] = e
        /\ DOMAIN q = 1..(Len(events) + 1)
    BY <1>1, AppendProperties, LenProperties
  <2> HIDE DEF q
  <2>3. q # <<>> /\ Head(q) = q[1] /\ Last(q) = e
    <3>1. q # <<>>
      BY <1>1, <2>2, EmptySeq
    <3>2. Head(q) = q[1]
      BY <2>2, <3>1, HeadTailProperties
    <3>3. Last(q) = q[Len(q)]
      BY DEF Last
    <3> QED
      BY <2>2, <3>1, <3>2, <3>3
  <2>4. Head(q) = IF events = <<>> THEN e ELSE Head(events)
    BY <1>1, <2>2, <2>3
  <2>5. ASSUME NEW i \in 1..(Len(q) - 1)
        PROVE  \/ i \in 1..(Len(events) - 1) /\ q[i] = events[i] /\ q[i + 1] = events[i + 1]
               \/ events # <<>> /\ q[i] = Last(events) /\ q[i + 1] = e
    <3>1. CASE i = Len(events)
      BY <1>1, <2>2, <3>1 DEF Last
    <3>2. CASE i # Len(events)
      <4>1. i \in 1..Len(events)
        BY <1>1, <2>2
      <4> DEFINE N == Len(events)
      <4>2. N \in Nat /\ i \in 1..N /\ i # N
        BY <1>1, <3>2, <4>1
      <4> HIDE DEF N
      <4>3. i \in 1..(N - 1) /\ i + 1 \in 1..N
        BY <4>2
      <4>4. i \in 1..(Len(events) - 1) /\ i + 1 \in 1..Len(events)
        BY <4>3 DEF N
      <4>5. q[i] = events[i] /\ q[i + 1] = events[i + 1]
        BY <2>2, <4>1, <4>4
      <4> QED
        BY <4>4, <4>5
    <3> QED
      BY <3>1, <3>2
  <2>6. ToSet(q) = ToSet(events) \cup {e}
    <3>1. \A i \in DOMAIN q : q[i] \in ToSet(events) \cup {e}
      BY <1>1, <2>2 DEF ToSet
    <3>2. \A i \in DOMAIN events : events[i] \in ToSet(q)
      BY <1>1, <2>2 DEF ToSet
    <3>3. e \in ToSet(q)
      BY <1>1, <2>2 DEF ToSet
    <3> QED
      BY <3>1, <3>2, <3>3 DEF ToSet
  <2>7. Queue(e) = q
    BY <2>1 DEF q
  <2> QED
    BY <2>2, <2>3, <2>4, <2>5, <2>6, <2>7
<1> QED
  BY <1>2, <1>3

LEMMA Tails ==
  ASSUME TypeOK, events # <<>>
  PROVE  /\ Tail(events) \in Seq(Kinds)
         /\ ToSet(Tail(events)) \subseteq ToSet(events)
         /\ Head(events) \in ToSet(events)
         /\ Tail(events) = <<>> => Last(events) = Head(events)
         /\ Tail(events) # <<>> =>
              /\ Len(events) - 1 \in Nat \ {0}
              /\ Head(events) = events[1]
              /\ Head(Tail(events)) = events[2]
              /\ Last(Tail(events)) = Last(events)
         /\ \A i \in 1..(Len(Tail(events)) - 1) :
              /\ i + 1 \in 1..(Len(events) - 1)
              /\ Tail(events)[i] = events[i + 1]
              /\ Tail(events)[i + 1] = events[i + 2]
<1> DEFINE t == Tail(events)
<1>1. /\ events \in Seq(Kinds) /\ Len(events) \in Nat /\ Len(events) > 0
      /\ DOMAIN events = 1..Len(events)
      /\ Head(events) = events[1]
      /\ t \in Seq(Kinds) /\ Len(t) = Len(events) - 1
      /\ DOMAIN t = 1..(Len(events) - 1)
      /\ \A i \in 1..(Len(events) - 1) : t[i] = events[i + 1]
  BY EmptySeq, HeadTailProperties, LenProperties DEF TypeOK, Kinds
<1>2. t = <<>> => Len(events) = 1
  BY <1>1, EmptySeq
<1>3. t # <<>> => Len(events) > 1 /\ Head(t) = t[1]
  BY <1>1, EmptySeq, HeadTailProperties
<1> HIDE DEF t
<1>4. /\ t = <<>> => Last(events) = Head(events)
      /\ t # <<>> => /\ Len(events) - 1 \in Nat \ {0}
                     /\ Head(t) = events[2]
                     /\ Last(t) = Last(events)
  BY <1>1, <1>2, <1>3 DEF Last
<1>5. /\ \A i \in DOMAIN t : t[i] \in ToSet(events)
      /\ Head(events) \in ToSet(events)
  BY <1>1 DEF ToSet
<1>6. \A i \in 1..(Len(t) - 1) :
        /\ i + 1 \in 1..(Len(events) - 1)
        /\ t[i] = events[i + 1] /\ t[i + 1] = events[i + 2]
  BY <1>1
<1>7. ToSet(t) \subseteq ToSet(events)
  BY <1>5 DEF ToSet
<1> QED
  BY <1>1, <1>4, <1>5, <1>6, <1>7 DEF t

-----------------------------------------------------------------------------
(* The files are sequences of lines, no longer than there are lines.       *)
LEMMA Files ==
  ASSUME FilesTyped, NEW g \in Gen
  PROVE  /\ content[g] \in Seq(Line)
         /\ DOMAIN content[g] = 1..Len(content[g])
         /\ Len(content[g]) \in 0..written
         /\ \A i \in DOMAIN content[g] :
              content[g][i] \in Line /\ content[g][i] <= written
  BY TailerAssumption, LenProperties, ElementOfSeq
     DEF FilesTyped, TypeOK, FilesAreBounded

(* A line is appended to the newest file; no line has its number yet.      *)
LEMMA WriteAppends ==
  ASSUME FilesTyped, WriteLine
  PROVE  /\ newest \in Gen /\ written' = written + 1 /\ written' \in Line
         /\ content' \in [Gen -> Seq(Line)]
         /\ \A g \in Gen : g # newest => content'[g] = content[g]
         /\ Len(content'[newest]) = Len(content[newest]) + 1
         /\ DOMAIN content'[newest] = 1..(Len(content[newest]) + 1)
         /\ \A i \in DOMAIN content'[newest] :
              content'[newest][i] =
                IF i \in DOMAIN content[newest] THEN content[newest][i] ELSE written'
<1> USE DEF WriteLine
<1>1. /\ newest \in Gen /\ written' = written + 1 /\ written' \in Line
      /\ content \in [Gen -> Seq(Line)]
  BY TailerAssumption DEF FilesTyped, TypeOK, Line
<1>2. /\ content'[newest] = Append(content[newest], written')
      /\ \A g \in Gen : g # newest => content'[g] = content[g]
  BY <1>1
<1>3. /\ content[newest] \in Seq(Line)
      /\ DOMAIN content[newest] = 1..Len(content[newest])
      /\ Len(content[newest]) \in Nat
  BY <1>1, LenProperties
<1>4. /\ content'[newest] \in Seq(Line)
      /\ Len(content'[newest]) = Len(content[newest]) + 1
      /\ \A i \in 1..Len(content[newest]) : content'[newest][i] = content[newest][i]
      /\ content'[newest][Len(content[newest]) + 1] = written'
  BY <1>1, <1>2, <1>3, AppendProperties
<1>5. DOMAIN content'[newest] = 1..(Len(content[newest]) + 1)
  BY <1>3, <1>4, LenProperties
<1>6. content' \in [Gen -> Seq(Line)]
  BY <1>1, <1>2, <1>4
<1> QED
  BY <1>1, <1>2, <1>3, <1>4, <1>5, <1>6

LEMMA TruncateEmpties ==
  ASSUME FilesTyped, TruncateFile
  PROVE  /\ current \in Gen
         /\ content' \in [Gen -> Seq(Line)]
         /\ content'[current] = <<>> /\ Len(content'[current]) = 0
         /\ DOMAIN content'[current] = {}
         /\ \A g \in Gen : g # current => content'[g] = content[g]
<1>1. current \in Gen /\ <<>> \in Seq(Line) /\ Len(<<>>) = 0 /\ DOMAIN <<>> = {}
  BY EmptySeq DEF FilesTyped, TypeOK, TruncateFile
<1> QED
  BY <1>1 DEF FilesTyped, TypeOK, TruncateFile

-----------------------------------------------------------------------------
(* The tailer starts well-typed, on an empty file or one with a line.      *)
LEMMA InitialFile ==
  ASSUME Init
  PROVE  /\ written \in 0..MaxLines
         /\ content \in [Gen -> Seq(Line)]
         /\ 1 \in Gen /\ Len(content[1]) = written
         /\ DOMAIN content[1] = 1..written
         /\ \A i \in DOMAIN content[1] : content[1][i] = i
         /\ \A g \in Gen : g > 1 => content[g] = <<>>
<1> USE TailerAssumption DEF Init, Gen, Line
<1>1. written \in 0..1 /\ written \in 0..MaxLines
  OBVIOUS
<1>2. content[1] = [i \in 1..written |-> i]
  OBVIOUS
<1>3. content[1] \in [1..written -> Line]
  BY <1>1, <1>2
<1>4. content[1] \in Seq(Line) /\ Len(content[1]) = written
  BY <1>1, <1>3
<1>5. content \in [Gen -> Seq(Line)]
  BY <1>2, <1>4, EmptySeq
<1> QED
  BY <1>1, <1>2, <1>4, <1>5

LEMMA InitFiles == Init => FilesTyped
<1> SUFFICES ASSUME Init PROVE FilesTyped
  OBVIOUS
<1>1. events \in Seq({"write", "rename", "create"}) /\ entries \in Seq(Line)
  BY EmptySeq DEF Init
<1>2. TypeOK
  <2>1. /\ newest \in Gen /\ current \in {newest, NoFile}
        /\ watched \in 0..MaxGens /\ handle \in 0..MaxGens
        /\ offset \in 0..MaxLines /\ statSize \in 0..MaxLines
        /\ position \in 0..MaxLines
    BY TailerAssumption DEF Init, Gen, NoFile
  <2>2. {cancelled, shrunk, missed} \subseteq BOOLEAN
    BY DEF Init
  <2>3. unnoticed \in SUBSET Line
    BY InitialFile, TailerAssumption DEF Init, Line
  <2>4. {old, unnoticed, strayed, read, overflowed, settled} \subseteq SUBSET Line
    BY <2>3 DEF Init
  <2> QED
    BY <1>1, <2>1, <2>2, <2>4, InitialFile DEF Init, TypeOK
<1>3. FilesAreBounded
  <2>1. ASSUME NEW g \in Gen
        PROVE  /\ Len(content[g]) <= written
               /\ \A i \in DOMAIN content[g] : content[g][i] <= written
               /\ g > newest => content[g] = <<>>
               /\ g # 1 => DOMAIN content[g] = {}
    <3>1. CASE g = 1
      BY <3>1, InitialFile DEF Init
    <3>2. CASE g # 1
      BY <3>2, InitialFile, TailerAssumption, EmptySeq DEF Init, Gen
    <3> QED
      BY <3>1, <3>2
  <2>2. \A g, h \in Gen : \A i \in DOMAIN content[g], j \in DOMAIN content[h] : g = h
    BY <2>1
  <2> QED
    BY <2>1, <2>2 DEF Init, FilesAreBounded, NoFile
<1> QED
  BY <1>2, <1>3 DEF FilesTyped

(* The application, the rotation and their events keep the types; a file   *)
(* has no more lines than were written, and none of another file.          *)
LEMMA FileSystemTyped ==
  ASSUME FilesTyped,
         WriteLine \/ TruncateFile \/ RenameFile \/ CreateFile
  PROVE  FilesTyped'
<1> USE DEF FilesTyped
<1>1. CASE WriteLine
  <2> USE DEF WriteLine, handleVars, scanVars, truncVars
  <2>1. TypeOK'
    <3>1. unnoticed' \in SUBSET Line /\ strayed' \in SUBSET Line
      BY <1>1, WriteAppends DEF TypeOK
    <3>2. events' \in Seq({"write", "rename", "create"})
      BY <1>1, Queues DEF TypeOK, Kinds
    <3>3. written' \in 0..MaxLines
      BY <1>1, TailerAssumption DEF TypeOK
    <3> QED
      BY <1>1, <3>1, <3>2, <3>3, WriteAppends DEF TypeOK
  <2>2. ASSUME NEW g \in Gen
        PROVE  /\ Len(content'[g]) <= written'
               /\ \A i \in DOMAIN content'[g] : content'[g][i] <= written'
               /\ g > newest => content'[g] = <<>>
    <3>1. /\ written \in Nat /\ newest \in Gen /\ written' = written + 1
          /\ content[g] \in Seq(Line) /\ Len(content[g]) \in 0..written
      BY <1>1, Files, WriteAppends DEF TypeOK
    <3>2. \A i \in DOMAIN content[g] :
             content[g][i] \in Nat /\ content[g][i] <= written
      BY Files DEF Line
    <3>3. CASE g = newest
      BY <1>1, <3>1, <3>2, <3>3, WriteAppends DEF Gen
    <3>4. CASE g # newest
      BY <1>1, <3>1, <3>2, <3>4, WriteAppends DEF FilesAreBounded
    <3> QED
      BY <3>3, <3>4
  <2>3. \A l \in old : l \in Int /\ l <= written /\ written \in Int
    BY DEF TypeOK, FilesAreBounded, Line
  <2>4. ASSUME NEW g \in Gen, NEW h \in Gen,
               NEW i \in DOMAIN content'[g], NEW j \in DOMAIN content'[h],
               content'[g][i] = content'[h][j]
        PROVE  g = h
    <3>1. ASSUME NEW f \in Gen, NEW k \in DOMAIN content'[f]
          PROVE  \/ /\ k \in DOMAIN content[f] /\ content'[f][k] = content[f][k]
                    /\ content[f][k] # written'
                 \/ f = newest /\ content'[f][k] = written'
      <4>1. \A m \in DOMAIN content[f] : content[f][m] # written'
        <5>1. \A m \in DOMAIN content[f] : content[f][m] \in Nat /\ content[f][m] <= written
          BY Files DEF Line
        <5>2. \A x, y \in Nat : x <= y => x # y + 1
          OBVIOUS
        <5>3. written' = written + 1 /\ written \in Nat
          BY <1>1, WriteAppends DEF TypeOK
        <5> HIDE DEF WriteLine
        <5> QED
          BY <5>1, <5>2, <5>3
      <4>2. CASE f = newest
        BY <1>1, <4>1, <4>2, WriteAppends
      <4>3. CASE f # newest
        <5>1. content'[f] = content[f]
          BY <1>1, <4>3, WriteAppends
        <5> QED
          BY <4>1, <5>1
      <4> QED
        BY <4>2, <4>3
    <3> HIDE DEF WriteLine
    <3>2. CASE i \in DOMAIN content[g] /\ j \in DOMAIN content[h]
      BY <2>4, <3>1, <3>2, WriteAppends, <1>1 DEF FilesAreBounded
    <3>3. CASE i \notin DOMAIN content[g]
      BY <2>4, <3>1, <3>3
    <3>4. CASE j \notin DOMAIN content[h]
      BY <2>4, <3>1, <3>4
    <3> QED
      BY <3>2, <3>3, <3>4
  <2> QED
    BY <1>1, <2>1, <2>2, <2>3, <2>4, WriteAppends DEF FilesAreBounded
<1>2. CASE TruncateFile
  <2> USE DEF TruncateFile, handleVars, scanVars, noteVars
  <2>1. TypeOK'
    <3>1. events' \in Seq({"write", "rename", "create"})
      BY <1>2, Queues DEF TypeOK, Kinds
    <3>2. shrunk' \in BOOLEAN
      BY <1>2 DEF TypeOK
    <3> QED
      BY <1>2, <3>1, <3>2, TruncateEmpties DEF TypeOK
  <2>2. written \in Nat
    BY DEF TypeOK
  <2> QED
    BY <1>2, <2>1, <2>2, TruncateEmpties DEF FilesAreBounded
<1>3. CASE RenameFile
  <2> USE DEF RenameFile, handleVars, scanVars, watchVars, historyVars
  <2>1. events' \in Seq({"write", "rename", "create"}) /\ watched' \in 0..MaxGens
    BY <1>3, Queues, TailerAssumption DEF TypeOK, NoFile, Kinds
  <2> QED
    BY <1>3, <2>1 DEF TypeOK, FilesAreBounded, NoFile
<1>4. CASE CreateFile
  <2> USE DEF CreateFile, handleVars, scanVars, historyVars
  <2>1. events' \in Seq({"write", "rename", "create"})
    BY <1>4, Queues DEF TypeOK, Kinds
  <2>2. newest' \in Gen /\ newest' > newest /\ current' # NoFile
    BY <1>4, TailerAssumption DEF TypeOK, FilesAreBounded, Gen, NoFile
  <2>3. \A g \in Gen : g > newest' => g > newest
    BY <1>4, TailerAssumption DEF TypeOK, Gen
  <2> QED
    BY <1>4, <2>1, <2>2, <2>3 DEF TypeOK, FilesAreBounded
<1> QED
  BY <1>1, <1>2, <1>3, <1>4

(* The tailer's own steps and a restart keep the types; they only read the *)
(* files.                                                                  *)
LEMMA ReaderTyped ==
  ASSUME FilesTyped, Tailer \/ Cancel \/ Restart
  PROVE  FilesTyped'
<1> USE DEF FilesTyped, fileVars, truncVars, watchVars, handleVars, scanVars,
            noteVars, historyVars
<1> SUFFICES TypeOK' /\ \A l \in old' : l <= written
  BY DEF FilesAreBounded, Tailer, OpenPath, StatPath, AddWatch, HandleCreate,
         Reopen, Rewatch, HandleRename, HandleWrite, OpenToRead, StatFile, ScanLine,
         ScanEnds, SendChunk, SendEnds, SendCancelled, RunReturns, Cancel, Restart
<1>1. /\ \A l \in old : l <= written
      /\ current \in 0..MaxGens /\ 0 \in 0..MaxLines /\ NoFile \in 0..MaxGens
  BY TailerAssumption DEF FilesAreBounded, TypeOK, Gen, NoFile
<1>2. CASE HandleCreate \/ HandleRename \/ HandleWrite
  <2>1. events' \in Seq({"write", "rename", "create"})
    BY <1>2, Tails DEF HandleCreate, HandleRename, HandleWrite, Kinds
  <2> QED
    BY <1>1, <1>2, <2>1 DEF HandleCreate, HandleRename, HandleWrite, TypeOK
<1>3. CASE OpenPath \/ AddWatch \/ Reopen \/ Rewatch \/ OpenToRead
  BY <1>1, <1>3 DEF OpenPath, AddWatch, Reopen, Rewatch, OpenToRead, TypeOK
<1>4. CASE StatPath
  <2>1. handle \in Gen
    BY <1>4, TailerAssumption DEF StatPath, TypeOK, Gen, NoFile
  <2>2. Len(content[handle]) \in 0..MaxLines
    BY <2>1, Files, TailerAssumption DEF TypeOK
  <2>3. \A l \in old' : l \in Line /\ l <= written
    BY <1>4, <2>1, Files DEF StatPath, ToSet
  <2> QED
    BY <1>4, <2>2, <2>3 DEF StatPath, TypeOK
<1>5. CASE StatFile
  <2>1. handle \in Gen
    BY <1>5, TailerAssumption DEF StatFile, TypeOK, Gen, NoFile
  <2>2. Len(content[handle]) \in 0..MaxLines
    BY <2>1, Files, TailerAssumption DEF TypeOK
  <2>3. offset' \in 0..MaxLines /\ missed' \in BOOLEAN
    BY <1>5, TailerAssumption DEF StatFile, TypeOK
  <2> QED
    BY <1>1, <1>5, <2>2, <2>3 DEF StatFile, TypeOK
<1>6. CASE ScanLine
  <2>1. handle \in Gen
    BY <1>6, TailerAssumption DEF ScanLine, TypeOK, Gen, NoFile
  <2>2. position + 1 \in DOMAIN content[handle] /\ position + 1 \in 0..MaxLines
    <3>1. /\ DOMAIN content[handle] = 1..Len(content[handle])
          /\ Len(content[handle]) \in 0..written
      BY <2>1, Files
    <3> QED
      BY <1>6, <3>1, TailerAssumption DEF ScanLine, AtEOF, TypeOK
  <2>3. content[handle][position + 1] \in Line
    BY <2>1, <2>2, Files
  <2>4. entries' \in Seq(Line) /\ read' \in SUBSET Line
    BY <1>6, <2>3, AppendProperties DEF ScanLine, TypeOK
  <2> QED
    BY <1>1, <1>6, <2>2, <2>4 DEF ScanLine, TypeOK
<1>7. CASE ScanEnds
  <2>1. handle \in Gen
    BY <1>7, TailerAssumption DEF ScanEnds, TypeOK, Gen, NoFile
  <2>2. \A i \in DOMAIN content[handle] : content[handle][i] \in Line
    BY <2>1, Files
  <2>3. overflowed' \in SUBSET Line
    BY <1>7, <2>2 DEF ScanEnds, TypeOK
  <2> QED
    BY <1>1, <1>7, <2>3 DEF ScanEnds, TypeOK
<1>8. CASE SendChunk
  <2> DEFINE n == IF Len(entries) < Chunk THEN Len(entries) ELSE Chunk
  <2>1. /\ entries \in Seq(Line) /\ Len(entries) \in Nat /\ n \in 0..Len(entries)
        /\ \A i \in 1..Len(entries) : entries[i] \in Line
    BY TailerAssumption, LenProperties, ElementOfSeq DEF TypeOK
  <2>2. /\ SubSeq(entries, 1, n) \in Seq(Line)
        /\ SubSeq(entries, n + 1, Len(entries)) \in Seq(Line)
    BY <2>1, SubSeqProperties
  <2>3. ToSet(SubSeq(entries, 1, n)) \in SUBSET Line
    BY <2>2, LenProperties, ElementOfSeq DEF ToSet
  <2>4. settled' \in SUBSET Line /\ entries' \in Seq(Line)
    BY <1>8, <2>2, <2>3 DEF SendChunk, TypeOK
  <2> QED
    BY <1>1, <1>8, <2>4 DEF SendChunk, TypeOK
<1>9. CASE SendEnds \/ SendCancelled \/ RunReturns \/ Cancel
  <2>1. <<>> \in Seq(Line)
    BY EmptySeq
  <2> QED
    BY <1>1, <1>9, <2>1 DEF SendEnds, SendCancelled, RunReturns, Cancel, TypeOK
<1>10. CASE Restart
  <2>1. <<>> \in Seq(Line) /\ <<>> \in Seq({"write", "rename", "create"})
    BY EmptySeq
  <2>2. unnoticed' \in SUBSET Line
    BY <1>10, TailerAssumption DEF Restart, TypeOK, Line
  <2> QED
    BY <1>1, <1>10, <2>1, <2>2 DEF Restart, TypeOK
<1> QED
  BY <1>2, <1>3, <1>4, <1>5, <1>6, <1>7, <1>8, <1>9, <1>10 DEF Tailer

LEMMA NextFiles == FilesTyped /\ [Next]_vars => FilesTyped'
<1>1. FilesTyped /\ UNCHANGED vars => FilesTyped'
  BY DEF FilesTyped, TypeOK, FilesAreBounded, vars
<1> QED
  BY <1>1, FileSystemTyped, ReaderTyped DEF Next

(* Theorem: the tailer is type-correct, for every value of the constants.  *)
THEOREM TypeCorrect == Spec => []TypeOK
<1>1. FilesTyped => TypeOK
  BY DEF FilesTyped
<1> QED
  BY <1>1, InitFiles, NextFiles, PTL DEF Spec

-----------------------------------------------------------------------------
(* The event queue keeps its order: a rename is queued only while the file *)
(* is watched, and a creation only after its rename.                       *)
LEMMA InitQueue == Init => QueueInv
  BY EmptySeq DEF Init, QueueInv, QueueIsOrdered, QueueFitsHandle, Starting, NoFile

LEMMA FileSystemQueue ==
  ASSUME FilesTyped, QueueInv,
         WriteLine \/ TruncateFile \/ RenameFile \/ CreateFile
  PROVE  QueueInv'
<1> USE DEF QueueInv
<1>1. /\ newest # NoFile /\ current \in {newest, NoFile} /\ watched \in {NoFile, current}
      /\ TypeOK
      /\ "write" \in Kinds /\ "rename" \in Kinds /\ "create" \in Kinds
  BY DEF FilesTyped, TypeOK, Gen, NoFile, Kinds, QueueIsOrdered
<1>2. UNCHANGED <<handle, offset, pc>>
  BY DEF WriteLine, TruncateFile, RenameFile, CreateFile, handleVars
<1>3. CASE UNCHANGED <<events, watched>> /\ watched \in {NoFile, current'}
  <2>1. Starting' = Starting
    BY <1>2 DEF Starting
  <2>2. QueueIsOrdered'
    BY <1>3, <2>1 DEF QueueIsOrdered
  <2>3. NoCreationNext' = NoCreationNext
    BY <1>3 DEF NoCreationNext
  <2> QED
    BY <1>2, <1>3, <2>1, <2>2, <2>3 DEF QueueFitsHandle
<1>4. CASE /\ events' = Queue("write") /\ watched' = watched /\ current' = current
           /\ watched = current /\ current # NoFile
  <2>1. ~Starting
    BY <1>4 DEF QueueIsOrdered
  <2>2. \A i \in 1..(Len(events') - 1) : events'[i] = "write" => events'[i + 1] = "rename"
    <3> SUFFICES ASSUME NEW i \in 1..(Len(events') - 1), events'[i] = "write"
                 PROVE  events'[i + 1] = "rename"
      OBVIOUS
    <3>1. CASE events # <<>> /\ Last(events) = "write"
      BY <1>4, <3>1 DEF Queue, QueueIsOrdered
    <3>2. CASE ~(events # <<>> /\ Last(events) = "write")
      BY <1>1, <1>4, <3>2, Queues DEF QueueIsOrdered
    <3> QED
      BY <3>1, <3>2
  <2>3. QueueIsOrdered'
    BY <1>2, <1>4, <2>1, <2>2 DEF QueueIsOrdered, Starting
  <2>4. NoCreationNext => NoCreationNext'
    BY <1>1, <1>4, Queues DEF NoCreationNext
  <2> QED
    BY <1>2, <1>4, <2>1, <2>3, <2>4 DEF QueueFitsHandle, Starting
<1>5. CASE /\ events' = Queue("rename") /\ watched' = NoFile
           /\ watched = current /\ current # NoFile
  <2>1. ~Starting
    BY <1>5 DEF QueueIsOrdered
  <2>2. \A i \in 1..(Len(events') - 1) : events'[i] = "write" => events'[i + 1] = "rename"
    BY <1>1, <1>5, Queues DEF QueueIsOrdered
  <2>3. Last(events') = "rename"
    BY <1>1, <1>5, Queues
  <2>4. QueueIsOrdered'
    BY <1>2, <1>5, <2>1, <2>2, <2>3 DEF QueueIsOrdered, Starting
  <2>5. NoCreationNext => NoCreationNext'
    BY <1>1, <1>5, Queues DEF NoCreationNext
  <2> QED
    BY <1>2, <1>5, <2>1, <2>4, <2>5 DEF QueueFitsHandle, Starting
<1>6. CASE /\ events' = Queue("create") /\ UNCHANGED watched
           /\ current = NoFile /\ ~Starting
  <2>1. watched = NoFile
    BY <1>1, <1>6
  <2>2. \A i \in 1..(Len(events') - 1) : events'[i] = "write" => events'[i + 1] = "rename"
    BY <1>1, <1>6, <2>1, Queues DEF QueueIsOrdered
  <2>3. Last(events') = "create" /\ events' # <<>>
    BY <1>1, <1>6, Queues
  <2>4. QueueIsOrdered'
    BY <1>2, <1>6, <2>1, <2>2, <2>3 DEF QueueIsOrdered, Starting
  <2>5. NoCreationNext => NoCreationNext'
    BY <1>1, <1>6, <2>1, Queues DEF NoCreationNext
  <2>6. ToSet(events') = ToSet(events) \cup {"create"}
    BY <1>1, <1>6, Queues
  <2> QED
    BY <1>2, <1>6, <2>1, <2>4, <2>5, <2>6 DEF QueueFitsHandle, Starting
<1>7. CASE WriteLine
  BY <1>1, <1>3, <1>4, <1>7 DEF WriteLine
<1>8. CASE TruncateFile
  BY <1>1, <1>3, <1>4, <1>8 DEF TruncateFile
<1>9. CASE RenameFile
  BY <1>1, <1>3, <1>5, <1>9 DEF RenameFile, watchVars
<1>10. CASE CreateFile
  BY <1>1, <1>3, <1>6, <1>10 DEF CreateFile
<1> QED
  BY <1>7, <1>8, <1>9, <1>10

(* Taking the oldest event keeps the order of the others.                  *)
LEMMA TakeKeepsOrder ==
  ASSUME FilesTyped, QueueIsOrdered, events # <<>>, events' = Tail(events),
         UNCHANGED <<watched, current>>, ~Starting'
  PROVE  QueueIsOrdered'
<1>1. TypeOK
  BY DEF FilesTyped
<1>2. \A i \in 1..(Len(events') - 1) : events'[i] = "write" => events'[i + 1] = "rename"
  <2> SUFFICES ASSUME NEW i \in 1..(Len(events') - 1), events'[i] = "write"
               PROVE  events'[i + 1] = "rename"
    OBVIOUS
  <2>1. /\ i + 1 \in 1..(Len(events) - 1)
        /\ events'[i] = events[i + 1] /\ events'[i + 1] = events[(i + 1) + 1]
    BY <1>1, Tails
  <2> QED
    BY <2>1 DEF QueueIsOrdered
<1>3. events' # <<>> /\ Last(events') = "write" => watched' # NoFile
  BY <1>1, Tails DEF QueueIsOrdered
<1> QED
  BY <1>2, <1>3 DEF QueueIsOrdered

LEMMA ReaderQueue ==
  ASSUME FilesTyped, QueueInv, Tailer \/ Cancel \/ Restart
  PROVE  QueueInv'
<1> USE DEF QueueInv, fileVars, truncVars, watchVars, handleVars, scanVars,
            noteVars, historyVars
<1>1. /\ TypeOK /\ watched \in {NoFile, current}
      /\ offset \in Nat
      /\ pc \in {"stat", "add", "rewatch", "read", "scan"} => handle # NoFile
  BY TailerAssumption DEF FilesTyped, TypeOK, QueueIsOrdered
<1>2. CASE HandleCreate
  <2>1. QueueIsOrdered'
    BY <1>2, TakeKeepsOrder DEF HandleCreate, Starting
  <2>2. ~NoCreationNext /\ ToSet(events') \subseteq ToSet(events)
    BY <1>1, <1>2, Tails DEF HandleCreate, NoCreationNext
  <2>3. ~(offset > 0 /\ handle # NoFile)
    BY <1>2, <2>2 DEF HandleCreate, QueueFitsHandle, Starting
  <2> QED
    BY <1>1, <1>2, <2>1, <2>2, <2>3 DEF HandleCreate, QueueFitsHandle
<1>3. CASE HandleRename
  <2>1. QueueIsOrdered'
    BY <1>3, TakeKeepsOrder DEF HandleRename, Starting
  <2> QED
    BY <1>3, <2>1 DEF HandleRename, QueueFitsHandle
<1>4. CASE HandleWrite
  <2>1. QueueIsOrdered'
    BY <1>4, TakeKeepsOrder DEF HandleWrite, Starting
  <2>2. NoCreationNext'
    <3>1. CASE events' = <<>>
      <4>1. Last(events) = "write"
        BY <1>1, <1>4, <3>1, Tails DEF HandleWrite
      <4> QED
        BY <1>4, <3>1, <4>1 DEF HandleWrite, QueueIsOrdered, NoCreationNext
    <3>2. CASE events' # <<>>
      <4>1. /\ events[1] = "write" /\ Len(events) - 1 \in Nat \ {0}
            /\ Head(events') = events[2]
        BY <1>1, <1>4, <3>2, Tails DEF HandleWrite
      <4>2. 1 \in 1..(Len(events) - 1) /\ 1 + 1 = 2
        BY <4>1
      <4>3. events[2] = "rename"
        BY <4>1, <4>2 DEF QueueIsOrdered
      <4> QED
        BY <3>2, <4>1, <4>3 DEF NoCreationNext
    <3> QED
      BY <3>1, <3>2
  <2>3. "write" \in ToSet(events)
    BY <1>1, <1>4, Tails DEF HandleWrite
  <2>4. handle = NoFile => ~(offset > 0)
    BY <2>3 DEF QueueFitsHandle
  <2> QED
    BY <1>4, <2>1, <2>2, <2>4 DEF HandleWrite, QueueFitsHandle
<1>5. CASE OpenPath
  BY <1>5 DEF OpenPath, QueueIsOrdered, QueueFitsHandle, Starting
<1>6. CASE StatPath
  BY <1>1, <1>6 DEF StatPath, QueueIsOrdered, QueueFitsHandle, Starting
<1>7. CASE AddWatch
  <2>1. events = <<>> /\ watched = NoFile /\ ToSet(events) = {}
    BY <1>7, EmptySeq DEF AddWatch, QueueIsOrdered, Starting, ToSet
  <2> QED
    BY <1>1, <1>7, <2>1, EmptySeq
       DEF AddWatch, QueueIsOrdered, QueueFitsHandle, Starting, NoCreationNext
<1>8. CASE Reopen
  BY <1>8 DEF Reopen, QueueIsOrdered, QueueFitsHandle, Starting
<1>9. CASE Rewatch
  <2>1. watched' # NoFile \/ UNCHANGED watched
    BY <1>9 DEF Rewatch
  <2>2. NoCreationNext => NoCreationNext'
    BY <1>9, <2>1 DEF Rewatch, NoCreationNext
  <2>3. QueueIsOrdered'
    BY <1>9, <2>1 DEF Rewatch, QueueIsOrdered, Starting
  <2> QED
    BY <1>1, <1>9, <2>2, <2>3 DEF Rewatch, QueueFitsHandle, Starting
<1>10. CASE OpenToRead
  BY <1>10 DEF OpenToRead, QueueIsOrdered, QueueFitsHandle, Starting, NoCreationNext
<1>11. CASE StatFile \/ ScanEnds
  BY <1>1, <1>11 DEF StatFile, ScanEnds, QueueIsOrdered, QueueFitsHandle, Starting,
                     NoCreationNext
<1>12. CASE \/ ScanLine \/ SendChunk \/ SendEnds \/ SendCancelled \/ RunReturns
            \/ Cancel
  BY <1>12 DEF ScanLine, SendChunk, SendEnds, SendCancelled, RunReturns, Cancel,
               QueueIsOrdered, QueueFitsHandle, Starting, NoCreationNext
<1>13. CASE Restart
  BY <1>13, EmptySeq DEF Restart, QueueIsOrdered, QueueFitsHandle, Starting
<1> QED
  BY <1>2, <1>3, <1>4, <1>5, <1>6, <1>7, <1>8, <1>9, <1>10, <1>11, <1>12, <1>13
     DEF Tailer

-----------------------------------------------------------------------------
(* Old lines stay behind the tailer.                                       *)
OldInv == OldIsBehind /\ OldIsNeverRead

HasOld(g) == \E i \in DOMAIN content[g] : content[g][i] \in old

LEMMA OldFileSystem ==
  ASSUME FilesTyped, QueueInv, OldInv,
         WriteLine \/ TruncateFile \/ RenameFile \/ CreateFile
  PROVE  OldInv'
<1> USE DEF OldInv
<1>1. /\ TypeOK /\ "write" \in Kinds
      /\ watched # NoFile => watched = current
  BY DEF FilesTyped, Kinds, QueueInv, QueueIsOrdered
<1>2. CASE WriteLine
  <2> USE DEF WriteLine, handleVars, scanVars, truncVars
  <2>1. written' \notin old
    BY <1>2 DEF FilesTyped, TypeOK, FilesAreBounded
  <2>2. ASSUME NEW g \in Gen
        PROVE  /\ Len(content[g]) \in Nat
               /\ Len(content'[g]) \in {Len(content[g]), Len(content[g]) + 1}
               /\ \A i \in DOMAIN content'[g] : content'[g][i] \in old =>
                    i \in DOMAIN content[g] /\ content'[g][i] = content[g][i]
    BY <1>2, <2>1, WriteAppends, Files
  <2>3. /\ handle # NoFile => handle \in Gen
        /\ current # NoFile => current \in Gen
        /\ offset \in Nat /\ statSize \in Nat
    <3>1. /\ handle \in 0..MaxGens
          /\ newest \in 1..MaxGens /\ current \in {newest, NoFile}
      BY DEF FilesTyped, TypeOK, Gen
    <3>2. offset \in Nat /\ statSize \in Nat
      BY TailerAssumption DEF FilesTyped, TypeOK
    <3> QED
      BY <3>1, <3>2, TailerAssumption DEF Gen, NoFile
  <2>4. ASSUME handle # NoFile, NEW i \in DOMAIN content'[handle],
               content'[handle][i] \in old
        PROVE  /\ i <= offset /\ offset <= Len(content'[handle])
               /\ pc = "scan" => /\ i <= statSize
                                 /\ statSize <= Len(content'[handle])
                                 /\ i <= position
    BY <2>2, <2>3, <2>4 DEF OldIsBehind
  <2>5. ASSUME current # NoFile, \E i \in DOMAIN content'[current] : content'[current][i] \in old
        PROVE  /\ ToSet(events') \subseteq {"write"}
               /\ pc # "reopen"
               /\ \/ handle = current
                  \/ handle = NoFile /\ events' = <<>> /\ watched = NoFile
    <3>1. /\ ToSet(events) \subseteq {"write"} /\ pc # "reopen"
          /\ \/ handle = current
             \/ handle = NoFile /\ events = <<>> /\ watched = NoFile
      BY <2>2, <2>3, <2>5 DEF OldIsBehind
    <3>2. CASE watched = newest
      <4>1. ToSet(events') = ToSet(events) \cup {"write"}
        BY <1>1, <1>2, <3>2, Queues
      <4>2. watched # NoFile
        BY <3>2 DEF FilesTyped, TypeOK, Gen, NoFile
      <4> QED
        BY <3>1, <4>1, <4>2
    <3>3. CASE watched # newest
      BY <1>2, <3>1, <3>3
    <3> QED
      BY <3>2, <3>3
  <2>6. OldIsBehind'
    BY <1>2, <2>4, <2>5 DEF OldIsBehind
  <2> QED
    BY <1>2, <2>6 DEF OldIsNeverRead
<1>3. CASE TruncateFile
  <2>1. handle # NoFile => handle \in Gen
    BY TailerAssumption DEF FilesTyped, TypeOK, Gen, NoFile
  <2>2. OldIsBehind'
    BY <1>3, <2>1, TruncateEmpties
       DEF TruncateFile, OldIsBehind, handleVars, scanVars, noteVars
  <2> QED
    BY <1>3, <2>2 DEF TruncateFile, OldIsNeverRead, noteVars
<1>4. CASE RenameFile
  BY <1>4 DEF RenameFile, OldIsBehind, OldIsNeverRead, handleVars, scanVars,
              historyVars
<1>5. CASE CreateFile
  <2>1. newest' \in Gen /\ newest' > newest
    BY <1>5, TailerAssumption
       DEF CreateFile, FilesTyped, TypeOK, FilesAreBounded, Gen
  <2>2. DOMAIN content[newest'] = {}
    BY <2>1, EmptySeq DEF FilesTyped, FilesAreBounded
  <2> QED
    BY <1>5, <2>2 DEF CreateFile, OldIsBehind, OldIsNeverRead, handleVars,
                      scanVars, historyVars
<1> QED
  BY <1>2, <1>3, <1>4, <1>5

LEMMA OldReader ==
  ASSUME FilesTyped, QueueInv, OldInv, Tailer \/ Cancel \/ Restart
  PROVE  OldInv'
<1> USE DEF OldInv, fileVars, truncVars, watchVars, handleVars, scanVars,
            noteVars, historyVars
<1>1. /\ TypeOK
      /\ handle # NoFile => handle \in Gen
      /\ current # NoFile => current \in Gen
      /\ offset \in Nat /\ statSize \in Nat /\ position \in Nat
      /\ pc \in {"stat", "add", "rewatch", "read", "scan"} => handle # NoFile
      /\ pc \in {"open", "reopen", "lookup"} => handle = NoFile
  BY TailerAssumption
     DEF FilesTyped, TypeOK, Gen, NoFile, QueueInv, QueueFitsHandle
<1>2. CASE OpenPath
  BY <1>2 DEF OpenPath, OldIsBehind, OldIsNeverRead
<1>3. CASE StatPath
  <2>1. handle \in Gen /\ handle # NoFile
    BY <1>1, <1>3 DEF StatPath
  <2>2. /\ Len(content[handle]) \in Nat
        /\ DOMAIN content[handle] = 1..Len(content[handle])
    BY <2>1, Files
  <2>3. ASSUME current # NoFile, NEW i \in DOMAIN content[current],
               content[current][i] \in old'
        PROVE  handle = current
    <3>1. PICK j \in DOMAIN content[handle] : content[current][i] = content[handle][j]
      BY <1>3, <2>3 DEF StatPath, ToSet
    <3> QED
      BY <1>1, <2>1, <2>3, <3>1 DEF FilesTyped, FilesAreBounded
  <2>4. ToSet(events) = {}
    BY <1>3, EmptySeq DEF StatPath, QueueInv, QueueIsOrdered, Starting, ToSet
  <2>5. read = {}
    BY <1>3 DEF StatPath, OldIsBehind
  <2> QED
    BY <1>3, <2>1, <2>2, <2>3, <2>4, <2>5 DEF StatPath, OldIsBehind, OldIsNeverRead
<1>4. CASE AddWatch
  <2>1. events = <<>> /\ watched = NoFile
    BY <1>4 DEF AddWatch, QueueInv, QueueIsOrdered, Starting
  <2> QED
    BY <1>1, <1>4, <2>1 DEF AddWatch, OldIsBehind, OldIsNeverRead
<1>5. CASE HandleCreate
  <2>1. "create" \in ToSet(events)
    BY <1>1, <1>5, Tails DEF HandleCreate
  <2>2. current # NoFile => ~HasOld(current)
    BY <2>1 DEF OldIsBehind, HasOld
  <2> QED
    BY <1>5, <2>2 DEF HandleCreate, OldIsBehind, OldIsNeverRead, HasOld
<1>6. CASE Reopen
  <2>1. current # NoFile => ~HasOld(current)
    BY <1>6 DEF Reopen, OldIsBehind, HasOld
  <2> QED
    BY <1>6, <2>1 DEF Reopen, OldIsBehind, OldIsNeverRead, HasOld
<1>7. CASE Rewatch
  BY <1>1, <1>7 DEF Rewatch, OldIsBehind, OldIsNeverRead
<1>8. CASE HandleRename
  <2>1. "rename" \in ToSet(events)
    BY <1>1, <1>8, Tails DEF HandleRename
  <2>2. current # NoFile => ~HasOld(current)
    BY <2>1 DEF OldIsBehind, HasOld
  <2> QED
    BY <1>8, <2>2 DEF HandleRename, OldIsBehind, OldIsNeverRead, HasOld
<1>9. CASE HandleWrite
  <2>1. ToSet(events') \subseteq ToSet(events) /\ events # <<>>
    BY <1>1, <1>9, Tails DEF HandleWrite
  <2> QED
    BY <1>9, <2>1 DEF HandleWrite, OldIsBehind, OldIsNeverRead
<1>10. CASE OpenToRead
  <2>1. NoCreationNext /\ handle = NoFile
    BY <1>1, <1>10 DEF OpenToRead, QueueInv, QueueFitsHandle
  <2>2. current # NoFile => ~HasOld(current)
    BY <2>1 DEF OldIsBehind, HasOld, NoCreationNext
  <2> QED
    BY <1>10, <2>2 DEF OpenToRead, OldIsBehind, OldIsNeverRead, HasOld
<1>11. CASE StatFile
  <2>1. handle \in Gen /\ handle # NoFile
    BY <1>1, <1>11 DEF StatFile
  <2>2. Len(content[handle]) \in Nat
    BY <2>1, Files
  <2>3. ASSUME NEW i \in DOMAIN content[handle], content[handle][i] \in old
        PROVE  /\ i <= offset' /\ offset' <= Len(content[handle])
               /\ i <= statSize' /\ statSize' <= Len(content[handle])
               /\ i <= position'
    <3>1. i <= offset /\ offset <= Len(content[handle]) /\ i \in Nat
      BY <1>1, <2>1, <2>3, Files DEF OldIsBehind
    <3> QED
      BY <1>1, <1>11, <2>2, <3>1 DEF StatFile
  <2> QED
    BY <1>11, <2>3 DEF StatFile, OldIsBehind, OldIsNeverRead
<1>12. CASE ScanLine
  <2>1. handle \in Gen /\ handle # NoFile
    BY <1>1, <1>12 DEF ScanLine
  <2>2. position + 1 \in DOMAIN content[handle]
    BY <1>1, <1>12, <2>1, Files DEF ScanLine, AtEOF
  <2>3. content[handle][position + 1] \notin old
    BY <1>1, <1>12, <2>1, <2>2 DEF ScanLine, OldIsBehind
  <2>4. \A i \in DOMAIN content[handle] : i \in Nat
    BY <2>1, Files
  <2> QED
    BY <1>1, <1>12, <2>1, <2>3, <2>4 DEF ScanLine, OldIsBehind, OldIsNeverRead
<1>13. CASE ScanEnds
  BY <1>13 DEF ScanEnds, OldIsBehind, OldIsNeverRead
<1>14. CASE SendChunk \/ SendEnds \/ SendCancelled \/ RunReturns \/ Cancel
  BY <1>14 DEF SendChunk, SendEnds, SendCancelled, RunReturns, Cancel, OldIsBehind,
               OldIsNeverRead
<1>15. CASE Restart
  BY <1>15 DEF Restart, OldIsBehind, OldIsNeverRead
<1> QED
  BY <1>2, <1>3, <1>4, <1>5, <1>6, <1>7, <1>8, <1>9, <1>10, <1>11, <1>12, <1>13,
     <1>14, <1>15 DEF Tailer

-----------------------------------------------------------------------------
(* No line of the open file is left out.                                   *)
LEMMA ReadingFileSystem ==
  ASSUME FilesTyped, ReadingIsComplete,
         WriteLine \/ TruncateFile \/ RenameFile \/ CreateFile
  PROVE  ReadingIsComplete'
<1> USE DEF Done
<1>1. /\ handle # NoFile => handle \in Gen
      /\ offset \in Nat /\ statSize \in Nat /\ position \in Nat
  BY TailerAssumption DEF FilesTyped, TypeOK, Gen, NoFile
<1>2. CASE WriteLine
  <2> USE DEF WriteLine, handleVars, scanVars, truncVars
  <2> SUFFICES ASSUME handle # NoFile, ~shrunk, ~missed
               PROVE  ReadingIsComplete'
    BY <1>2 DEF ReadingIsComplete
  <2>1. /\ Len(content[handle]) \in Nat
        /\ Len(content'[handle]) \in {Len(content[handle]), Len(content[handle]) + 1}
        /\ DOMAIN content[handle] = 1..Len(content[handle])
        /\ DOMAIN content'[handle] = 1..Len(content'[handle])
        /\ \A i \in DOMAIN content[handle] : content'[handle][i] = content[handle][i]
    BY <1>1, <1>2, WriteAppends, Files
  <2>2. ASSUME NEW i \in DOMAIN content'[handle],
               i <= (IF pc = "scan" THEN position ELSE offset)
        PROVE  content'[handle][i] \in Done
    BY <1>1, <2>1, <2>2 DEF ReadingIsComplete
  <2> QED
    BY <1>1, <1>2, <2>1, <2>2 DEF ReadingIsComplete
<1>3. CASE TruncateFile
  <2>1. ~shrunk' => content'[handle] = content[handle] \/ handle = NoFile
    BY <1>1, <1>3, TruncateEmpties DEF TruncateFile
  <2> QED
    BY <1>3, <2>1 DEF TruncateFile, ReadingIsComplete, handleVars, scanVars,
                      noteVars
<1>4. CASE RenameFile \/ CreateFile
  BY <1>4 DEF RenameFile, CreateFile, ReadingIsComplete, handleVars, scanVars,
              historyVars
<1> QED
  BY <1>2, <1>3, <1>4

LEMMA ReadingReader ==
  ASSUME FilesTyped, QueueInv, ReadingIsComplete,
         Tailer \/ Cancel \/ Restart
  PROVE  ReadingIsComplete'
<1> USE DEF Done, fileVars, truncVars, watchVars, handleVars, scanVars,
            noteVars, historyVars
<1>1. /\ handle # NoFile => handle \in Gen
      /\ current # NoFile => current \in Gen
      /\ offset \in Nat /\ statSize \in Nat /\ position \in Nat
      /\ handle = NoFile /\ offset > 0 => pc # "lookup"
      /\ pc = "open" => offset = 0
      /\ pc \in {"open", "reopen", "lookup"} => handle = NoFile
  BY TailerAssumption
     DEF FilesTyped, TypeOK, Gen, NoFile, QueueInv, QueueFitsHandle
<1>2. CASE OpenPath \/ Reopen \/ OpenToRead
  <2>1. current # NoFile =>
          /\ 0 <= Len(content[current])
          /\ \A i \in DOMAIN content[current] : ~(i <= 0)
    BY <1>1, Files
  <2>2. handle' # NoFile => handle' = current /\ offset' = 0 /\ pc' # "scan"
    BY <1>1, <1>2 DEF OpenPath, Reopen, OpenToRead
  <2>3. UNCHANGED content
    BY <1>2 DEF OpenPath, Reopen, OpenToRead
  <2> QED
    BY <2>1, <2>2, <2>3 DEF ReadingIsComplete
<1>3. CASE StatPath
  <2>1. handle \in Gen
    BY <1>1, <1>3 DEF StatPath, FilesTyped, TypeOK
  <2>2. Len(content[handle]) <= Len(content[handle])
    BY <2>1, Files
  <2> QED
    BY <1>3, <2>2 DEF StatPath, ReadingIsComplete, ToSet
<1>4. CASE AddWatch \/ HandleCreate \/ Rewatch \/ HandleRename \/ HandleWrite
  <2>1. /\ handle' = NoFile \/ UNCHANGED <<handle, offset, shrunk>>
        /\ pc # "scan" /\ pc' # "scan"
        /\ UNCHANGED <<content, missed, read, old, overflowed>>
    BY <1>4 DEF AddWatch, HandleCreate, Rewatch, HandleRename, HandleWrite
  <2> QED
    BY <2>1 DEF ReadingIsComplete
<1>5. CASE StatFile
  <2>1. handle \in Gen /\ handle # NoFile
    BY <1>1, <1>5 DEF StatFile, FilesTyped, TypeOK
  <2>2. /\ Len(content[handle]) \in Nat
        /\ DOMAIN content[handle] = 1..Len(content[handle])
    BY <2>1, Files
  <2> SUFFICES ASSUME ~missed'
               PROVE  /\ offset' <= Len(content[handle])
                      /\ statSize' <= Len(content[handle])
                      /\ position' = offset'
                      /\ \A i \in DOMAIN content[handle] :
                           i <= offset' => content[handle][i] \in Done
    BY <1>5, <2>1 DEF StatFile, ReadingIsComplete
  <2>3. CASE offset' = 0
    BY <1>5, <2>2, <2>3 DEF StatFile
  <2>4. CASE offset' # 0
    <3>1. offset' = offset /\ offset <= Len(content[handle]) /\ offset > 0
      BY <1>1, <1>5, <2>2, <2>4 DEF StatFile
    <3>2. ~shrunk /\ ~missed
      BY <1>5, <3>1 DEF StatFile
    <3> QED
      BY <1>5, <2>1, <2>2, <3>1, <3>2 DEF StatFile, ReadingIsComplete
  <2> QED
    BY <2>3, <2>4
<1>6. CASE ScanLine
  <2>1. handle \in Gen /\ handle # NoFile
    BY <1>1, <1>6 DEF ScanLine, FilesTyped, TypeOK
  <2>2. /\ Len(content[handle]) \in Nat
        /\ DOMAIN content[handle] = 1..Len(content[handle])
        /\ position + 1 <= Len(content[handle])
    BY <1>1, <1>6, <2>1, Files DEF ScanLine, AtEOF
  <2>3. ASSUME ~shrunk, ~missed, NEW i \in DOMAIN content[handle],
               i <= position + 1
        PROVE  content[handle][i] \in Done'
    <3>1. i <= position \/ i = position + 1
      BY <1>1, <2>2, <2>3
    <3> QED
      BY <1>6, <2>1, <2>3, <3>1 DEF ScanLine, ReadingIsComplete
  <2> QED
    BY <1>6, <2>1, <2>2, <2>3 DEF ScanLine, ReadingIsComplete
<1>7. CASE ScanEnds
  <2>1. handle \in Gen /\ handle # NoFile
    BY <1>1, <1>7 DEF ScanEnds, FilesTyped, TypeOK
  <2>2. DOMAIN content[handle] \subseteq Nat
    BY <2>1, Files
  <2>3. ASSUME ~shrunk, ~missed, NEW i \in DOMAIN content[handle], i <= statSize
        PROVE  content[handle][i] \in Done'
    <3>1. i <= position \/ i \in (position + 1)..statSize
      BY <1>1, <2>2, <2>3
    <3> QED
      BY <1>7, <2>1, <2>3, <3>1 DEF ScanEnds, ReadingIsComplete
  <2> QED
    BY <1>7, <2>1, <2>3 DEF ScanEnds, ReadingIsComplete
<1>8. CASE SendChunk \/ SendEnds \/ SendCancelled \/ RunReturns \/ Cancel
  BY <1>8 DEF SendChunk, SendEnds, SendCancelled, RunReturns, Cancel,
              ReadingIsComplete
<1>9. CASE Restart
  BY <1>9 DEF Restart, ReadingIsComplete
<1> QED
  BY <1>2, <1>3, <1>4, <1>5, <1>6, <1>7, <1>8, <1>9 DEF Tailer

-----------------------------------------------------------------------------
(* No line that was noticed is forgotten.                                  *)
LEMMA AccountingFileSystem ==
  ASSUME FilesTyped, QueueInv, LinesAreAccountedFor,
         WriteLine \/ TruncateFile \/ RenameFile \/ CreateFile
  PROVE  LinesAreAccountedFor'
<1> USE DEF Accounted, Done
<1>1. WriteNext => WriteNext'
  <2>1. TypeOK /\ \A e \in {"write", "rename", "create"} : e \in Kinds
    BY DEF FilesTyped, Kinds
  <2>2. \A e \in Kinds : WriteNext => Queue(e) # <<>> /\ Head(Queue(e)) = "write"
    BY <2>1, Queues DEF WriteNext
  <2>3. events' \in {events} \cup {Queue(e) : e \in Kinds}
    BY <2>1 DEF WriteLine, TruncateFile, RenameFile, CreateFile, watchVars
  <2> QED
    BY <2>2, <2>3 DEF WriteNext
<1>2. CASE WriteLine
  <2> USE DEF WriteLine, handleVars, scanVars, truncVars
  <2> SUFFICES ASSUME ~missed, NEW g \in Gen, NEW i \in DOMAIN content'[g]
               PROVE  \/ Accounted(g, i)'
                      \/ g = handle /\ (WriteNext' \/ pc = "read")
                      \/ g = handle /\ pc = "scan" /\ ~shrunk /\ i <= statSize
    BY <1>2 DEF LinesAreAccountedFor
  <2>1. CASE i \in DOMAIN content[g]
    <3>1. /\ content'[g][i] = content[g][i]
          /\ unnoticed \subseteq unnoticed' /\ strayed \subseteq strayed'
      BY <1>2, <2>1, WriteAppends
    <3> QED
      BY <1>1, <1>2, <2>1, <3>1 DEF LinesAreAccountedFor
  <2>2. CASE i \notin DOMAIN content[g]
    <3>1. g = newest /\ content'[g][i] = written'
      BY <1>2, <2>2, WriteAppends
    <3>2. CASE watched = newest /\ Attended
      <4>1. TypeOK /\ "write" \in Kinds /\ ToSet(events) \subseteq {"write"}
        BY <3>2 DEF FilesTyped, Kinds, Attended
      <4>2. events = <<>> \/ Head(events) = "write"
        BY <4>1, Tails
      <4>3. WriteNext'
        BY <1>2, <3>2, <4>1, <4>2, Queues DEF WriteNext
      <4> QED
        BY <3>1, <3>2, <4>3 DEF Attended
    <3>3. CASE ~(watched = newest /\ Attended)
      BY <1>2, <3>1, <3>3
    <3> QED
      BY <3>2, <3>3
  <2> QED
    BY <2>1, <2>2
<1>3. CASE TruncateFile
  <2> SUFFICES ASSUME ~missed, NEW g \in Gen, NEW i \in DOMAIN content'[g]
               PROVE  \/ Accounted(g, i)'
                      \/ g = handle /\ (WriteNext' \/ pc = "read")
                      \/ g = handle /\ pc = "scan" /\ ~shrunk' /\ i <= statSize
    BY <1>3 DEF TruncateFile, LinesAreAccountedFor, handleVars, scanVars
  <2>1. content'[g] = content[g] /\ g # current
    BY <1>3, TruncateEmpties
  <2> QED
    BY <1>1, <1>3, <2>1 DEF TruncateFile, LinesAreAccountedFor, noteVars
<1>4. CASE RenameFile \/ CreateFile
  BY <1>1, <1>4 DEF RenameFile, CreateFile, LinesAreAccountedFor, handleVars,
                    scanVars, historyVars
<1> QED
  BY <1>2, <1>3, <1>4

LEMMA AccountingReader ==
  ASSUME FilesTyped, QueueInv, OldIsBehind, ReadingIsComplete,
         LinesAreAccountedFor, Tailer \/ Cancel \/ Restart
  PROVE  LinesAreAccountedFor'
<1> USE DEF Accounted, Done, fileVars, truncVars, watchVars, handleVars, scanVars,
            noteVars, historyVars
<1>1. /\ handle # NoFile => handle \in Gen
      /\ NoFile \notin Gen
      /\ offset \in Nat /\ statSize \in Nat /\ position \in Nat
      /\ pc \in {"reopen", "lookup"} => handle = NoFile
      /\ Starting => ~WriteNext
  BY TailerAssumption
     DEF FilesTyped, TypeOK, Gen, NoFile, QueueInv, QueueFitsHandle,
         QueueIsOrdered, WriteNext
<1>2. CASE OpenPath \/ StatPath \/ AddWatch
  <2>1. /\ Starting /\ pc \notin {"read", "scan"}
        /\ pc = "stat" => old = {}
        /\ old \subseteq old'
        /\ UNCHANGED <<content, missed, read, overflowed, unnoticed, strayed>>
    BY <1>2 DEF OpenPath, StatPath, AddWatch, Starting, OldIsBehind
  <2> QED
    BY <1>1, <2>1 DEF LinesAreAccountedFor
<1>3. CASE HandleCreate \/ HandleRename
  BY <1>3 DEF HandleCreate, HandleRename, LinesAreAccountedFor, WriteNext
<1>4. CASE HandleWrite
  BY <1>1, <1>4 DEF HandleWrite, LinesAreAccountedFor
<1>5. CASE Reopen \/ OpenToRead
  <2>1. /\ handle = NoFile
        /\ UNCHANGED <<content, missed, old, read, overflowed, unnoticed, strayed>>
    BY <1>1, <1>5 DEF Reopen, OpenToRead
  <2> QED
    BY <1>1, <2>1 DEF LinesAreAccountedFor
<1>6. CASE Rewatch
  BY <1>6 DEF Rewatch, LinesAreAccountedFor, WriteNext
<1>7. CASE StatFile
  <2>1. handle \in Gen /\ handle # NoFile
    BY <1>1, <1>7 DEF StatFile, FilesTyped, TypeOK
  <2>2. /\ Len(content[handle]) \in Nat
        /\ DOMAIN content[handle] = 1..Len(content[handle])
    BY <2>1, Files
  <2> SUFFICES ASSUME ~missed', NEW g \in Gen, NEW i \in DOMAIN content[g]
               PROVE  \/ Accounted(g, i)
                      \/ g = handle /\ pc' = "scan" /\ i <= statSize'
    BY <1>7 DEF StatFile, LinesAreAccountedFor
  <2>3. ~missed
    BY <1>7 DEF StatFile
  <2>4. CASE g # handle
    BY <2>3, <2>4 DEF LinesAreAccountedFor
  <2>5. CASE g = handle /\ pc' = "scan"
    BY <1>7, <2>2, <2>5 DEF StatFile
  <2>6. CASE g = handle /\ pc' # "scan"
    <3>1. Len(content[handle]) = offset' /\ i <= offset' /\ offset' > 0
      BY <1>7, <2>2, <2>6 DEF StatFile
    <3>2. offset' = offset
      BY <1>1, <1>7, <3>1 DEF StatFile
    <3>3. ~shrunk
      BY <1>7, <3>1, <3>2 DEF StatFile
    <3> QED
      BY <1>7, <2>1, <2>3, <2>6, <3>1, <3>2, <3>3 DEF StatFile, ReadingIsComplete
  <2> QED
    BY <2>4, <2>5, <2>6
<1>8. CASE ScanLine
  BY <1>8 DEF ScanLine, LinesAreAccountedFor, WriteNext
<1>9. CASE ScanEnds
  <2>1. handle \in Gen /\ handle # NoFile
    BY <1>1, <1>9 DEF ScanEnds, FilesTyped, TypeOK
  <2>2. DOMAIN content[handle] \subseteq Nat
    BY <2>1, Files
  <2> SUFFICES ASSUME ~missed, NEW g \in Gen, NEW i \in DOMAIN content[g],
                      ~(g = handle /\ WriteNext)
               PROVE  Accounted(g, i)'
    BY <1>9 DEF ScanEnds, LinesAreAccountedFor, WriteNext
  <2>3. CASE g = handle /\ ~shrunk /\ i <= statSize
    <3>1. i <= position \/ i \in (position + 1)..statSize
      BY <1>1, <2>2, <2>3
    <3> QED
      BY <1>9, <2>1, <2>3, <3>1 DEF ScanEnds, ReadingIsComplete
  <2>4. CASE ~(g = handle /\ ~shrunk /\ i <= statSize)
    BY <1>9, <2>4 DEF ScanEnds, LinesAreAccountedFor
  <2> QED
    BY <2>3, <2>4
<1>10. CASE SendChunk \/ SendEnds \/ SendCancelled \/ RunReturns \/ Cancel
  BY <1>10 DEF SendChunk, SendEnds, SendCancelled, RunReturns, Cancel,
               LinesAreAccountedFor, WriteNext
<1>11. CASE Restart
  <2>1. ASSUME NEW g \in Gen, NEW i \in DOMAIN content[g]
        PROVE  content[g][i] \in 1..written
    BY Files DEF Line
  <2> QED
    BY <1>11, <2>1 DEF Restart, LinesAreAccountedFor
<1> QED
  BY <1>2, <1>3, <1>4, <1>5, <1>6, <1>7, <1>8, <1>9, <1>10, <1>11 DEF Tailer

-----------------------------------------------------------------------------
(* A tailer that is about to be built satisfies the invariant.             *)
LEMMA InitTailer == Init => TailerInv
<1> SUFFICES ASSUME Init PROVE TailerInv
  OBVIOUS
<1>1. OldIsBehind /\ ReadingIsComplete /\ OldIsNeverRead
  BY DEF Init, OldIsBehind, ReadingIsComplete, OldIsNeverRead
<1>2. LinesAreAccountedFor
  <2>1. ASSUME NEW g \in Gen, NEW i \in DOMAIN content[g]
        PROVE  content[g][i] \in unnoticed
    <3>1. g = 1
      BY InitialFile, EmptySeq, TailerAssumption DEF Gen
    <3> QED
      BY <3>1, InitialFile DEF Init
  <2> QED
    BY <2>1 DEF LinesAreAccountedFor, Accounted, Done
<1> QED
  BY <1>1, <1>2, InitFiles, InitQueue DEF TailerInv

(* Every step keeps the invariant.                                         *)
LEMMA NextTailer == TailerInv /\ [Next]_vars => TailerInv'
<1> SUFFICES ASSUME TailerInv, [Next]_vars PROVE TailerInv'
  OBVIOUS
<1> USE DEF TailerInv
<1>1. FilesTyped'
  BY NextFiles
<1>2. CASE WriteLine \/ TruncateFile \/ RenameFile \/ CreateFile
  BY <1>1, <1>2, FileSystemQueue, OldFileSystem, ReadingFileSystem,
     AccountingFileSystem DEF OldInv
<1>3. CASE Tailer \/ Cancel \/ Restart
  BY <1>1, <1>3, ReaderQueue, OldReader, ReadingReader, AccountingReader DEF OldInv
<1>4. CASE UNCHANGED vars
  <2>1. QueueInv'
    BY <1>4 DEF vars, QueueInv, QueueIsOrdered, QueueFitsHandle, NoCreationNext,
                Starting
  <2> QED
    BY <1>1, <1>4, <2>1 DEF vars, OldIsBehind, OldIsNeverRead, ReadingIsComplete,
                            LinesAreAccountedFor, Accounted, Done, WriteNext
<1> QED
  BY <1>2, <1>3, <1>4 DEF Next

LEMMA SpecTailer == Spec => []TailerInv
  BY InitTailer, NextTailer, PTL DEF Spec

(* Theorem: what was in the file when the tailer was built is never read,  *)
(* whatever truncations, renames and re-opened files follow.               *)
THEOREM OldNeverRead == Spec => []OldIsNeverRead
<1>1. TailerInv => OldIsNeverRead
  BY DEF TailerInv
<1> QED
  BY <1>1, SpecTailer, PTL

(* Theorem: the offset never passes a line of the open file that was not   *)
(* dealt with, unless a truncated file has grown again unseen.             *)
THEOREM OffsetSkipsNothing == Spec => []NoLineIsSkipped
<1>1. TailerInv => NoLineIsSkipped
  BY DEF TailerInv, ReadingIsComplete, NoLineIsSkipped, Done
<1> QED
  BY <1>1, SpecTailer, PTL

(* Theorem: no line is forgotten that was written under the watch to the   *)
(* file the tailer has open, when no older rename or creation was queued:  *)
(* it was read, or the event that leads to it is still in the queue,       *)
(* whatever rotation falls between os.Open and watcher.Add.                *)
THEOREM NoticedNeverForgotten == Spec => []NoticedIsReadOrQueued
<1>1. TailerInv => NoticedIsReadOrQueued
  <2> SUFFICES ASSUME TailerInv, ~missed, NEW g \in Gen,
                      NEW l \in ToSet(content[g]),
                      ~(pc \in {"read", "scan"} \/ "write" \in ToSet(events))
               PROVE  l \in old \cup unnoticed \cup strayed \cup read \cup overflowed
    BY DEF NoticedIsReadOrQueued
  <2>1. PICK i \in DOMAIN content[g] : l = content[g][i]
    BY DEF ToSet
  <2>2. ~WriteNext
    BY Tails DEF TailerInv, FilesTyped, WriteNext
  <2> QED
    BY <2>1, <2>2 DEF TailerInv, LinesAreAccountedFor, Accounted, Done
<1> QED
  BY <1>1, SpecTailer, PTL
-----------------------------------------------------------------------------
(* What was read is answered or still to be sent, and nothing is left over *)
(* when the tailer turns to the next event.                                *)
ReadIsInHand ==
  /\ ~cancelled => read \subseteq settled \cup ToSet(entries)
  /\ pc \notin {"scan", "send"} => entries = <<>>

(* A tailer that waits, with no write in the queue, has had an answer for  *)
(* each line that was written under its watch to the file it had open,     *)
(* with no older rename or creation queued.                                *)
AtRestAllIsSettled ==
  pc = "select" /\ ~cancelled /\ ~missed /\ ~WritePending =>
    \A g \in Gen :
       ToSet(content[g]) \subseteq
         old \cup unnoticed \cup strayed \cup overflowed \cup settled

LEMMA ChunkIsCut ==
  ASSUME TypeOK, SendChunk
  PROVE  ToSet(entries) \subseteq (settled' \cup ToSet(entries'))
<1> DEFINE n == IF Len(entries) < Chunk THEN Len(entries) ELSE Chunk
<1>1. /\ entries \in Seq(Line) /\ Len(entries) \in Nat
      /\ DOMAIN entries = 1..Len(entries)
      /\ Chunk \in Nat /\ n \in 0..Len(entries)
  BY TailerAssumption, LenProperties DEF TypeOK
<1>2. /\ settled' = settled \cup ToSet(SubSeq(entries, 1, n))
      /\ entries' = SubSeq(entries, n + 1, Len(entries))
  BY DEF SendChunk
<1> HIDE DEF n
<1>3. SUFFICES ASSUME NEW i \in 1..Len(entries)
               PROVE  entries[i] \in settled' \cup ToSet(entries')
  BY <1>1 DEF ToSet
<1>4. CASE i <= n
  <2>1. /\ DOMAIN SubSeq(entries, 1, n) = 1..n
        /\ SubSeq(entries, 1, n)[i] = entries[i]
    BY <1>1, <1>4
  <2>2. i \in 1..n
    BY <1>1, <1>4
  <2>3. entries[i] \in ToSet(SubSeq(entries, 1, n))
    BY <2>1, <2>2 DEF ToSet
  <2> QED
    BY <1>2, <2>3
<1>5. CASE i > n
  <2>1. /\ DOMAIN SubSeq(entries, n + 1, Len(entries)) = 1..(Len(entries) - n)
        /\ i - n \in 1..(Len(entries) - n)
        /\ SubSeq(entries, n + 1, Len(entries))[i - n] = entries[i]
    BY <1>1, <1>5
  <2> QED
    BY <1>2, <2>1 DEF ToSet
<1> QED
  BY <1>1, <1>4, <1>5

LEMMA InHandStep ==
  ASSUME TypeOK, ReadIsInHand, [Next]_vars
  PROVE  ReadIsInHand'
<1> USE DEF ReadIsInHand
<1>1. CASE ScanLine
  <2> DEFINE line == content[handle][position + 1]
  <2>1. /\ read' = read \cup {line} /\ entries' = Append(entries, line)
        /\ pc = "scan" /\ UNCHANGED <<pc, cancelled, settled>>
    BY <1>1 DEF ScanLine
  <2>2. ToSet(entries) \cup {line} \subseteq ToSet(entries')
    <3> HIDE DEF line
    <3>1. /\ Len(entries) \in Nat /\ DOMAIN entries = 1..Len(entries)
          /\ DOMAIN entries' = 1..(Len(entries) + 1)
          /\ \A i \in 1..Len(entries) : entries'[i] = entries[i]
          /\ entries'[Len(entries) + 1] = line
      BY <2>1, LenProperties DEF TypeOK
    <3> QED
      BY <3>1 DEF ToSet
  <2> QED
    BY <2>1, <2>2
<1>2. CASE SendChunk
  <2>1. UNCHANGED <<pc, cancelled, read>> /\ pc = "send" /\ settled \subseteq settled'
    BY <1>2 DEF SendChunk
  <2> QED
    BY <1>2, <2>1, ChunkIsCut
<1>3. CASE SendEnds \/ SendCancelled
  BY <1>3 DEF SendEnds, SendCancelled, scanVars, historyVars
<1>4. CASE \/ OpenPath \/ StatPath \/ AddWatch \/ HandleCreate \/ Reopen
           \/ Rewatch \/ HandleRename \/ HandleWrite \/ OpenToRead \/ StatFile
           \/ ScanEnds \/ RunReturns
  BY <1>4 DEF OpenPath, StatPath, AddWatch, HandleCreate, Reopen, Rewatch,
              HandleRename, HandleWrite, OpenToRead, StatFile, ScanEnds,
              RunReturns, scanVars, historyVars
<1>5. CASE WriteLine \/ TruncateFile \/ RenameFile \/ CreateFile
  BY <1>5 DEF WriteLine, TruncateFile, RenameFile, CreateFile, scanVars,
              historyVars
<1>6. CASE Cancel \/ Restart
  BY <1>6 DEF Cancel, Restart, scanVars, historyVars
<1>7. CASE UNCHANGED vars
  BY <1>7 DEF vars
<1> QED
  BY <1>1, <1>2, <1>3, <1>4, <1>5, <1>6, <1>7 DEF Next, Tailer

(* Theorem: from the file to the answer: when the tailer waits with no     *)
(* write queued, the server has answered every line written under its      *)
(* watch to the file it had open with no older rename or creation queued,  *)
(* over rotations and chunks, unless one too long for the buffer stood     *)
(* before it.                                                              *)
THEOREM EverythingNoticedIsAnswered == Spec => []AtRestAllIsSettled
<1>1. Init => ReadIsInHand
  BY DEF Init, ReadIsInHand
<1>2. TailerInv /\ ReadIsInHand /\ [Next]_vars => ReadIsInHand'
  BY InHandStep DEF TailerInv, FilesTyped
<1>3. TailerInv /\ ReadIsInHand => AtRestAllIsSettled
  <2> SUFFICES ASSUME TailerInv, ReadIsInHand, pc = "select", ~cancelled,
                      ~missed, ~WritePending,
                      NEW g \in Gen, NEW l \in ToSet(content[g])
               PROVE  l \in old \cup unnoticed \cup strayed \cup overflowed \cup settled
    BY DEF AtRestAllIsSettled
  <2>1. PICK i \in DOMAIN content[g] : l = content[g][i]
    BY DEF ToSet
  <2>2. ~WriteNext
    BY Tails DEF TailerInv, FilesTyped, WriteNext, WritePending
  <2>3. l \in read \cup old \cup overflowed \cup unnoticed \cup strayed
    BY <2>1, <2>2 DEF TailerInv, LinesAreAccountedFor, Accounted, Done
  <2>4. read \subseteq settled
    BY EmptySeq DEF ReadIsInHand, ToSet
  <2> QED
    BY <2>3, <2>4
<1> QED
  BY <1>1, <1>2, <1>3, SpecTailer, PTL DEF Spec

-----------------------------------------------------------------------------
(* Where the lines go: the log sender and the handlers of its requests,    *)
(* which share no state with the tailer.  Tailer's SendChunk stands for a  *)
(* whole run of SendLogs.                                                  *)

CONSTANTS Size, Invalid, Poison, MaxChunks, Spoiled

VARIABLES chunk, sending, attempt, stopped, reply, running, drawn, committed,
          givenUp

Sender == INSTANCE LogSender WITH pc <- sending, cancelled <- stopped

(* A chunk is with the sender, or was given up, or is in the table.        *)
EachSettled ==
  \A c \in 1..chunk :
     \/ c = chunk /\ sending # "idle"
     \/ c \in givenUp
     \/ \E r \in committed : r[1] = c

(* The server knows no chunk that was not handed over.                     *)
RequestsOfPast == \A r \in running \cup committed : r[1] \in 1..chunk

RepliesTrue ==
  /\ reply # "none" => sending = "wait"
  /\ reply = "2xx" => \E r \in committed : r[1] = chunk

SenderTypes ==
  /\ chunk \in 0..MaxChunks
  /\ sending \in {"idle", "sleep", "do", "wait"}
  /\ sending # "idle" => chunk \in 1..MaxChunks
  /\ givenUp \subseteq 1..chunk

DeliveryInv ==
  /\ SenderTypes
  /\ EachSettled
  /\ RequestsOfPast
  /\ RepliesTrue

LEMMA DeliveryInit == MaxChunks \in Nat /\ Sender!Init => DeliveryInv
  BY DEF Sender!Init, DeliveryInv, SenderTypes, EachSettled, RequestsOfPast,
         RepliesTrue

LEMMA RespondDelivers ==
  ASSUME DeliveryInv, NEW r, NEW class,
         Sender!Respond(r, class),
         class = "2xx" => r \in committed
  PROVE  DeliveryInv'
<1>1. /\ SenderTypes' /\ EachSettled'
  BY DEF DeliveryInv, SenderTypes, EachSettled, Sender!Respond, Sender!senderVars
<1>2. RequestsOfPast'
  BY DEF DeliveryInv, RequestsOfPast, Sender!Respond, Sender!senderVars
<1>3. RepliesTrue'
  <2>1. CASE sending = "wait" /\ r = <<chunk, attempt>>
    <3>1. reply' = class /\ sending' = "wait" /\ chunk' = chunk /\ committed' = committed
      BY <2>1 DEF Sender!Respond, Sender!senderVars
    <3>2. r[1] = chunk
      BY <2>1
    <3> QED
      BY <3>1, <3>2 DEF RepliesTrue
  <2>2. CASE ~(sending = "wait" /\ r = <<chunk, attempt>>)
    <3>1. UNCHANGED <<reply, sending, chunk, committed>>
      BY <2>2 DEF Sender!Respond, Sender!senderVars
    <3> QED
      BY <3>1 DEF DeliveryInv, RepliesTrue
  <2> QED
    BY <2>1, <2>2
<1> QED
  BY <1>1, <1>2, <1>3 DEF DeliveryInv

LEMMA DeliveryStep ==
  ASSUME MaxChunks \in Nat
  PROVE  DeliveryInv /\ [Sender!Next]_(Sender!vars) => DeliveryInv'
<1> SUFFICES ASSUME DeliveryInv, [Sender!Next]_(Sender!vars)
             PROVE  DeliveryInv'
  OBVIOUS
<1> USE DEF DeliveryInv, SenderTypes, EachSettled, RequestsOfPast, RepliesTrue
<1>1. CASE Sender!NextChunk
  BY <1>1 DEF Sender!NextChunk, Sender!serverVars
<1>2. CASE Sender!SleepEnds
  BY <1>2 DEF Sender!SleepEnds, Sender!serverVars
<1>3. CASE Sender!SleepCancelled
  BY <1>3 DEF Sender!SleepCancelled, Sender!serverVars
<1>4. CASE Sender!Post
  BY <1>4 DEF Sender!Post
<1>5. CASE Sender!AttemptFails \/ Sender!AnsweredServerError
  BY <1>5 DEF Sender!AttemptFails, Sender!AnsweredServerError, Sender!Continue,
              Sender!serverVars
<1>6. CASE Sender!AnsweredOK
  BY <1>6 DEF Sender!AnsweredOK, Sender!serverVars
<1>7. CASE Sender!AnsweredRejected
  BY <1>7 DEF Sender!AnsweredRejected, Sender!serverVars
<1>8. CASE Sender!Cancel
  BY <1>8 DEF Sender!Cancel, Sender!serverVars, Sender!senderVars
<1>9. CASE Sender!Restart
  BY <1>9 DEF Sender!Restart, Sender!serverVars
<1>10. ASSUME NEW r \in Sender!Request, Sender!Server(r)
       PROVE  DeliveryInv'
  <2>1. CASE Sender!InsertLine(r)
    BY <2>1 DEF Sender!InsertLine, Sender!senderVars
  <2>2. CASE Sender!Commit(r)
    BY <2>2 DEF Sender!Commit, Sender!senderVars
  <2>3. CASE Sender!HandlerRefuses(r) \/ Sender!HandlerFails(r)
    BY <2>3, RespondDelivers DEF Sender!HandlerRefuses, Sender!HandlerFails
  <2>4. CASE Sender!HandlerAccepts(r)
    BY <2>4, RespondDelivers DEF Sender!HandlerAccepts
  <2> QED
    BY <1>10, <2>1, <2>2, <2>3, <2>4 DEF Sender!Server
<1>11. CASE UNCHANGED Sender!vars
  BY <1>11 DEF Sender!vars
<1> QED
  BY <1>1, <1>2, <1>3, <1>4, <1>5, <1>6, <1>7, <1>8, <1>9, <1>10, <1>11
     DEF Sender!Next, Sender!SendLogs

LEMMA DeliverySpecInv ==
  ASSUME MaxChunks \in Nat
  PROVE  Sender!Spec => []DeliveryInv
  BY DeliveryInit, DeliveryStep, PTL DEF Sender!Spec

LEMMA CommitMapsToOutbox ==
  ASSUME DeliveryInv, NEW r \in running, Sender!Commit(r)
  PROVE  [Sender!Out!Next]_(Sender!Out!vars)
<1> DEFINE inTable == {q[1] : q \in committed}
<1>1. UNCHANGED <<chunk, sending, givenUp>>
  BY DEF Sender!Commit, Sender!senderVars
<1>2. committed' = committed \cup {r}
  BY DEF Sender!Commit
<1>3. {q[1] : q \in committed'} = inTable \cup {r[1]}
  BY <1>2
<1>4. r[1] \in 1..chunk
  BY DEF DeliveryInv, RequestsOfPast
<1>5. CASE r[1] = chunk /\ sending # "idle"
  <2> DEFINE waiting == IF sending = "idle" THEN <<>> ELSE <<chunk>>
  <2>1. waiting # <<>> /\ Head(waiting) = r[1]
    BY <1>5
  <2>2. UNCHANGED waiting
    BY <1>1
  <2>3. Sender!Out!Store
    BY <1>1, <1>3, <2>1, <2>2 DEF Sender!Out!Store
  <2> QED
    BY <2>3 DEF Sender!Out!Next
<1>6. CASE r[1] \in givenUp
  <2>1. Sender!Out!StoreLate
    BY <1>1, <1>3, <1>6 DEF Sender!Out!StoreLate
  <2> QED
    BY <2>1 DEF Sender!Out!Next
<1>7. CASE \E q \in committed : q[1] = r[1]
  <2>1. inTable \cup {r[1]} = inTable
    BY <1>7
  <2> QED
    BY <1>1, <1>3, <2>1 DEF Sender!Out!vars
<1> QED
  BY <1>4, <1>5, <1>6, <1>7 DEF DeliveryInv, EachSettled

(* Each step of the sender is a step of the outbox or leaves it alone.     *)
LEMMA StepOutboxOfSender ==
  ASSUME MaxChunks \in Nat, DeliveryInv, [Sender!Next]_(Sender!vars)
  PROVE  [Sender!Out!Next]_(Sender!Out!vars)
<1>1. CASE Sender!NextChunk
  <2>1. Sender!Out!Offer
    BY <1>1 DEF Sender!NextChunk, Sender!Out!Offer, Sender!serverVars
  <2> QED
    BY <2>1 DEF Sender!Out!Next
<1>2. CASE Sender!AnsweredOK
  <2>1. \E r \in committed : r[1] = chunk
    BY <1>2 DEF DeliveryInv, RepliesTrue, Sender!AnsweredOK
  <2>2. Sender!Out!Confirm
    BY <1>2, <2>1 DEF Sender!AnsweredOK, Sender!Out!Confirm, Sender!serverVars
  <2> QED
    BY <2>2 DEF Sender!Out!Next
<1>3. CASE Sender!AnsweredRejected \/ Sender!SleepCancelled
  <2>1. Sender!Out!Refuse
    BY <1>3 DEF Sender!AnsweredRejected, Sender!SleepCancelled,
                Sender!Out!Refuse, Sender!serverVars
  <2> QED
    BY <2>1 DEF Sender!Out!Next
<1>4. CASE Sender!Restart
  <2>1. CASE sending = "idle"
    BY <1>4, <2>1 DEF Sender!Restart, Sender!Out!vars, Sender!serverVars
  <2>2. CASE sending # "idle"
    <3>1. Sender!Out!Refuse
      BY <1>4, <2>2 DEF Sender!Restart, Sender!Out!Refuse, Sender!serverVars
    <3> QED
      BY <3>1 DEF Sender!Out!Next
  <2> QED
    BY <2>1, <2>2
<1>5. CASE \/ Sender!SleepEnds \/ Sender!Post \/ Sender!AttemptFails
           \/ Sender!AnsweredServerError \/ Sender!Cancel
           \/ UNCHANGED Sender!vars
  <2>1. /\ UNCHANGED <<chunk, committed, givenUp>>
        /\ (sending = "idle") <=> (sending' = "idle")
    BY <1>5 DEF Sender!SleepEnds, Sender!Post, Sender!AttemptFails,
                Sender!AnsweredServerError, Sender!Continue, Sender!Cancel,
                Sender!vars, Sender!senderVars, Sender!serverVars
  <2> QED
    BY <2>1 DEF Sender!Out!vars
<1>6. ASSUME NEW r \in Sender!Request, Sender!Server(r)
      PROVE  [Sender!Out!Next]_(Sender!Out!vars)
  <2>1. CASE Sender!Commit(r)
    BY <2>1, CommitMapsToOutbox DEF Sender!Commit
  <2>2. CASE ~Sender!Commit(r)
    <3>1. UNCHANGED <<chunk, sending, committed, givenUp>>
      BY <1>6, <2>2 DEF Sender!Server, Sender!HandlerRefuses,
                 Sender!InsertLine, Sender!HandlerAccepts, Sender!HandlerFails,
                 Sender!Respond, Sender!senderVars
    <3> QED
      BY <3>1 DEF Sender!Out!vars
  <2> QED
    BY <2>1, <2>2
<1> QED
  BY <1>1, <1>2, <1>3, <1>4, <1>5, <1>6 DEF Sender!Next, Sender!SendLogs

(* Theorem: SendLogs with its retries and the handlers of the requests,    *)
(* late ones included, implement the outbox: a chunk leaves it stored, or  *)
(* given up with an error, and nothing else is ever stored.                *)
THEOREM SenderImplementsOutbox ==
  ASSUME MaxChunks \in Nat
  PROVE  Sender!Spec => Sender!ImplementsOutbox
<1>1. Sender!Init => Sender!Out!Init
  BY DEF Sender!Init, Sender!Out!Init
<1>2. DeliveryInv /\ [Sender!Next]_(Sender!vars) => [Sender!Out!Next]_(Sender!Out!vars)
  BY StepOutboxOfSender
<1> QED
  BY <1>1, <1>2, DeliverySpecInv, PTL
     DEF Sender!Spec, Sender!Out!Spec, Sender!ImplementsOutbox

-----------------------------------------------------------------------------
(* What a rollback leaves: the rows of the other requests, in their order. *)

(* left is the recursive function of RolledBack, up to row n.              *)
IsLeft(left, N, r) ==
  left = [n \in 0..N |-> IF n = 0 THEN <<>>
                         ELSE IF drawn[n][1] = r THEN left[n - 1]
                         ELSE Append(left[n - 1], drawn[n])]

(* e[k] is where row k of rest was among the first n rows.                 *)
Embeds(e, rest, n, r) ==
  /\ e \in [1..Len(rest) -> 1..n]
  /\ \A j, k \in 1..Len(rest) : j < k => e[j] < e[k]
  /\ \A k \in 1..Len(rest) : rest[k] = drawn[e[k]] /\ drawn[e[k]][1] # r
  /\ \A i \in 1..n : drawn[i][1] # r => \E k \in 1..Len(rest) : e[k] = i

LEMMA SmallestNat ==
  ASSUME NEW T, T \subseteq Nat, T # {}
  PROVE  \E x \in T : \A y \in T : x <= y
<1>1. PICK x \in T : \A y \in T : <<y, x>> \notin OpToRel(<, Nat)
  BY NatLessThanWellFounded, WFMin
<1>2. \A y \in T : ~(y < x)
  BY <1>1 DEF OpToRel
<1> QED
  BY <1>2

(* The recursive function exists.                                          *)
LEMMA LeftExists ==
  ASSUME NEW r, NEW N \in Nat
  PROVE  \E left : IsLeft(left, N, r)
<1> DEFINE T == {n \in Nat : ~ \E left : IsLeft(left, n, r)}
<1>1. SUFFICES ASSUME T # {}
               PROVE  FALSE
  OBVIOUS
<1>2. PICK n \in T : \A m \in T : n <= m
  <2>1. T \subseteq Nat
    OBVIOUS
  <2> QED
    BY <1>1, <2>1, SmallestNat
<1>3. n # 0
  <2>1. IsLeft([m \in 0..0 |-> <<>>], 0, r)
    BY DEF IsLeft
  <2> QED
    BY <1>2, <2>1
<1>4. n - 1 \in Nat /\ n - 1 \notin T
  BY <1>2, <1>3
<1>5. PICK left : IsLeft(left, n - 1, r)
  BY <1>4
<1> DEFINE more == [m \in 0..n |->
                      IF m < n THEN left[m]
                      ELSE IF drawn[n][1] = r THEN left[n - 1]
                      ELSE Append(left[n - 1], drawn[n])]
<1>6. IsLeft(more, n, r)
  <2>1. \A m \in 0..(n - 1) :
          left[m] = IF m = 0 THEN <<>>
                    ELSE IF drawn[m][1] = r THEN left[m - 1]
                    ELSE Append(left[m - 1], drawn[m])
    BY <1>5 DEF IsLeft
  <2>2. \A m \in 0..n :
          more[m] = IF m = 0 THEN <<>>
                    ELSE IF drawn[m][1] = r THEN more[m - 1]
                    ELSE Append(more[m - 1], drawn[m])
    BY <1>3, <2>1
  <2> QED
    BY <2>2 DEF IsLeft
<1> QED
  BY <1>2, <1>6

LEMMA LeftEmbeds ==
  ASSUME NEW S, drawn \in Seq(S), NEW r, NEW left, IsLeft(left, Len(drawn), r)
  PROVE  /\ left[Len(drawn)] \in Seq(S)
         /\ \E e : Embeds(e, left[Len(drawn)], Len(drawn), r)
<1> DEFINE Good(n) == left[n] \in Seq(S) /\ \E e : Embeds(e, left[n], n, r)
           T == {n \in 0..Len(drawn) : ~Good(n)}
<1>1. /\ Len(drawn) \in Nat
      /\ \A i \in 1..Len(drawn) : drawn[i] \in S
  BY LenProperties, ElementOfSeq
<1>2. SUFFICES ASSUME T # {}
               PROVE  FALSE
  BY <1>1
<1>3. PICK n \in T : \A m \in T : n <= m
  <2>1. T \subseteq Nat
    BY <1>1
  <2> HIDE DEF T
  <2> QED
    BY <1>2, <2>1, SmallestNat
<1>4. ~Good(n) /\ n \in 0..Len(drawn)
  OBVIOUS
<1>5. n # 0
  <2>1. left[0] = <<>>
    BY <1>1 DEF IsLeft
  <2>2. <<>> \in Seq(S) /\ Len(<<>>) = 0
    BY EmptySeq
  <2>3. Embeds([k \in 1..0 |-> k], <<>>, 0, r)
    BY <2>2 DEF Embeds
  <2> QED
    BY <1>4, <2>1, <2>2, <2>3
<1>6. Good(n - 1)
  <2>1. n - 1 \in 0..Len(drawn) /\ n - 1 \notin T
    BY <1>1, <1>3, <1>4, <1>5
  <2> QED
    BY <2>1
<1> HIDE DEF T
<1> DEFINE rest == left[n - 1]
<1>7. PICK e : Embeds(e, rest, n - 1, r)
  BY <1>6
<1>8. Len(rest) \in Nat /\ rest \in Seq(S)
  BY <1>6, LenProperties
<1>9. left[n] = IF drawn[n][1] = r THEN rest ELSE Append(rest, drawn[n])
  BY <1>1, <1>4, <1>5 DEF IsLeft
<1>10. CASE drawn[n][1] = r
  <2>1. Embeds(e, rest, n, r)
    BY <1>1, <1>4, <1>5, <1>7, <1>8, <1>10 DEF Embeds
  <2> QED
    BY <1>4, <1>8, <1>9, <1>10, <2>1
<1>11. CASE drawn[n][1] # r
  <2> DEFINE full == Append(rest, drawn[n])
             f == [k \in 1..(Len(rest) + 1) |-> IF k <= Len(rest) THEN e[k] ELSE n]
  <2>1. /\ full \in Seq(S)
        /\ Len(full) = Len(rest) + 1
        /\ \A k \in 1..Len(rest) : full[k] = rest[k]
        /\ full[Len(rest) + 1] = drawn[n]
    BY <1>1, <1>4, <1>5, <1>8, AppendProperties
  <2>2. f \in [1..Len(full) -> 1..n]
    BY <1>4, <1>5, <1>7, <1>8, <2>1 DEF Embeds
  <2>7. /\ \A k \in 1..Len(rest) : f[k] = e[k] /\ e[k] \in 1..(n - 1)
        /\ f[Len(rest) + 1] = n
    <3>1. e \in [1..Len(rest) -> 1..(n - 1)]
      BY <1>7 DEF Embeds
    <3>2. ASSUME NEW k \in 1..Len(rest)
          PROVE  f[k] = e[k] /\ e[k] \in 1..(n - 1)
      <4>1. k \in 1..(Len(rest) + 1) /\ k <= Len(rest)
        BY <1>8
      <4>2. f[k] = e[k]
        BY <4>1
      <4>3. e[k] \in 1..(n - 1)
        BY <3>1
      <4> QED
        BY <4>2, <4>3
    <3>3. f[Len(rest) + 1] = n
      BY <1>8
    <3> QED
      BY <3>2, <3>3
  <2>3. ASSUME NEW j \in 1..Len(full), NEW k \in 1..Len(full), j < k
        PROVE  f[j] < f[k]
    <3>1. j \in 1..Len(rest)
      BY <1>8, <2>1, <2>3
    <3>2. CASE k = Len(rest) + 1
      <4>1. f[j] = e[j] /\ e[j] \in 1..(n - 1) /\ f[k] = n
        BY <2>7, <3>1, <3>2
      <4> QED
        BY <1>4, <1>5, <4>1
    <3>3. CASE k # Len(rest) + 1
      <4>1. k \in 1..Len(rest)
        BY <1>8, <2>1, <3>3
      <4>2. f[j] = e[j] /\ f[k] = e[k]
        BY <2>7, <3>1, <4>1
      <4> QED
        BY <1>7, <2>3, <3>1, <4>1, <4>2 DEF Embeds
    <3> QED
      BY <3>2, <3>3
  <2>4. \A k \in 1..Len(full) : full[k] = drawn[f[k]] /\ drawn[f[k]][1] # r
    BY <1>7, <1>8, <1>11, <2>1 DEF Embeds
  <2>5. ASSUME NEW i \in 1..n, drawn[i][1] # r
        PROVE  \E k \in 1..Len(full) : f[k] = i
    <3>1. CASE i = n
      <4>1. Len(rest) + 1 \in 1..Len(full)
        BY <1>8, <2>1
      <4> QED
        BY <2>7, <3>1, <4>1
    <3>2. CASE i # n
      <4>1. i \in 1..(n - 1)
        BY <1>4, <1>5, <3>2
      <4>2. PICK k \in 1..Len(rest) : e[k] = i
        BY <1>7, <2>5, <4>1 DEF Embeds
      <4>3. k \in 1..Len(full) /\ f[k] = e[k]
        BY <1>8, <2>1, <2>7
      <4> QED
        BY <4>2, <4>3
    <3> QED
      BY <3>1, <3>2
  <2>6. Embeds(f, full, n, r)
    <3> HIDE DEF f, full
    <3> QED
      BY <2>2, <2>3, <2>4, <2>5 DEF Embeds
  <2> QED
    BY <1>4, <1>9, <1>11, <2>1, <2>6
<1> QED
  BY <1>10, <1>11

(* Lemma: RolledBack drops the rows of r, keeps all others and their order.*)
LEMMA RollbackKeepsTheRest ==
  ASSUME NEW S, drawn \in Seq(S), NEW r
  PROVE  /\ Sender!RolledBack(r) \in Seq(S)
         /\ \E e : Embeds(e, Sender!RolledBack(r), Len(drawn), r)
<1> DEFINE chosen == CHOOSE left : IsLeft(left, Len(drawn), r)
<1>1. Len(drawn) \in Nat
  BY LenProperties
<1>2. IsLeft(chosen, Len(drawn), r)
  BY <1>1, LeftExists
<1>3. Sender!RolledBack(r) = chosen[Len(drawn)]
  BY DEF Sender!RolledBack, IsLeft
<1> HIDE DEF chosen
<1> QED
  BY <1>2, <1>3, LeftEmbeds

-----------------------------------------------------------------------------
(* The order of the ids.                                                   *)

Row == Sender!Request \X (Nat \X Nat)

(* A row belongs to a handler that still runs, or was committed.           *)
RowsHaveARequest ==
  \A i \in DOMAIN drawn :
     /\ drawn[i][1] \in running \cup committed
     /\ drawn[i][2][1] = drawn[i][1][1]

(* A request inserts its lines in the order of the chunk.                  *)
LinesInOrder ==
  \A i, j \in DOMAIN drawn :
     i < j /\ drawn[i][1] = drawn[j][1] => drawn[i][2][2] < drawn[j][2][2]

CommittedAreComplete ==
  \A r \in committed : Sender!LinesOf(r) = 1..Size[r[1]]

(* A confirmed chunk has a copy before all rows of all later chunks.       *)
ConfirmedComeFirst ==
  \A c \in 1..chunk :
     (c = chunk => sending = "idle") /\ c \notin givenUp =>
       \E r \in committed :
          /\ r[1] = c
          /\ \A i, j \in DOMAIN drawn :
               drawn[i][1] = r /\ drawn[j][1][1] > c => i < j

(* The inductive invariant of the log sender.                              *)
SenderInv ==
  /\ DeliveryInv
  /\ drawn \in Seq(Row)
  /\ RowsHaveARequest
  /\ LinesInOrder
  /\ CommittedAreComplete
  /\ ConfirmedComeFirst

LEMMA SenderInit == MaxChunks \in Nat /\ Sender!Init => SenderInv
<1> SUFFICES ASSUME MaxChunks \in Nat, Sender!Init
             PROVE  SenderInv
  OBVIOUS
<1>1. DeliveryInv
  BY DeliveryInit
<1>2. drawn = <<>> /\ committed = {} /\ chunk = 0
  BY DEF Sender!Init
<1>3. drawn \in Seq(Row) /\ DOMAIN drawn = {}
  BY <1>2, EmptySeq
<1>4. RowsHaveARequest /\ LinesInOrder /\ CommittedAreComplete /\ ConfirmedComeFirst
  BY <1>2, <1>3 DEF RowsHaveARequest, LinesInOrder, CommittedAreComplete,
                    ConfirmedComeFirst
<1> QED
  BY <1>1, <1>3, <1>4 DEF SenderInv

(* What the steps of SendLogs leave of the rows.                           *)
LEMMA SendLogsKeepsRows ==
  ASSUME SenderInv, DeliveryInv', UNCHANGED drawn,
         running \subseteq running', UNCHANGED committed,
         ConfirmedComeFirst'
  PROVE  SenderInv'
<1>1. RowsHaveARequest' /\ LinesInOrder' /\ drawn' \in Seq(Row)
  BY DEF SenderInv, RowsHaveARequest, LinesInOrder
<1>2. CommittedAreComplete'
  BY DEF SenderInv, CommittedAreComplete, Sender!LinesOf
<1> QED
  BY <1>1, <1>2 DEF SenderInv

LEMMA SendLogsKeepsSenderInv ==
  ASSUME MaxChunks \in Nat, SenderInv,
         \/ Sender!NextChunk \/ Sender!SendLogs \/ Sender!Cancel
         \/ Sender!Restart \/ UNCHANGED Sender!vars
  PROVE  SenderInv'
<1>1. DeliveryInv'
  <2>1. DeliveryInv /\ [Sender!Next]_(Sender!vars)
    BY DEF SenderInv, Sender!Next
  <2> QED
    BY <2>1, DeliveryStep
<1>2. UNCHANGED <<drawn, committed>> /\ running \subseteq running'
  BY DEF Sender!NextChunk, Sender!SendLogs, Sender!Cancel, Sender!Restart,
         Sender!vars, Sender!SleepEnds, Sender!SleepCancelled, Sender!Post,
         Sender!AttemptFails, Sender!AnsweredServerError, Sender!AnsweredOK,
         Sender!AnsweredRejected, Sender!Continue, Sender!serverVars
<1>3. ConfirmedComeFirst'
  <2>1. CASE Sender!AnsweredOK
    <3>1. /\ chunk' = chunk /\ UNCHANGED givenUp
          /\ \E r \in committed : r[1] = chunk
      BY <2>1 DEF Sender!AnsweredOK, SenderInv, DeliveryInv, RepliesTrue
    <3>2. \A j \in DOMAIN drawn : drawn[j][1][1] \in 1..chunk
      BY DEF SenderInv, DeliveryInv, RequestsOfPast, RowsHaveARequest
    <3>3. chunk \in Nat
      BY DEF SenderInv, DeliveryInv, SenderTypes
    <3>4. SUFFICES ASSUME NEW c \in 1..chunk, c \notin givenUp
                   PROVE  \E r \in committed :
                            /\ r[1] = c
                            /\ \A i, j \in DOMAIN drawn :
                                 drawn[i][1] = r /\ drawn[j][1][1] > c => i < j
      BY <1>2, <3>1 DEF ConfirmedComeFirst
    <3>5. CASE c = chunk
      BY <3>1, <3>2, <3>3, <3>5
    <3>6. CASE c # chunk
      BY <3>4, <3>6 DEF SenderInv, ConfirmedComeFirst
    <3> QED
      BY <3>5, <3>6
  <2>2. ASSUME ~Sender!AnsweredOK, NEW c \in 1..chunk',
               c = chunk' => sending' = "idle", c \notin givenUp'
        PROVE  /\ c \in 1..chunk /\ c \notin givenUp
               /\ c = chunk => sending = "idle"
    BY <2>2 DEF SenderInv, DeliveryInv, SenderTypes, RepliesTrue,
         Sender!NextChunk, Sender!SendLogs, Sender!Cancel, Sender!Restart,
         Sender!vars, Sender!SleepEnds, Sender!SleepCancelled, Sender!Post,
         Sender!AttemptFails, Sender!AnsweredServerError,
         Sender!AnsweredRejected, Sender!Continue, Sender!serverVars,
         Sender!senderVars
  <2>3. CASE ~Sender!AnsweredOK
    BY <1>2, <2>2, <2>3 DEF SenderInv, ConfirmedComeFirst
  <2> QED
    BY <2>1, <2>3
<1> QED
  BY <1>1, <1>2, <1>3, SendLogsKeepsRows

LEMMA InsertLineKeepsSenderInv ==
  ASSUME MaxChunks \in Nat, Size \in [1..MaxChunks -> Nat \ {0}], SenderInv,
         NEW r \in Sender!Request, Sender!InsertLine(r)
  PROVE  SenderInv'
<1>1. DeliveryInv'
  <2>1. DeliveryInv /\ [Sender!Next]_(Sender!vars)
    BY DEF SenderInv, Sender!Next, Sender!Server
  <2> QED
    BY <2>1, DeliveryStep
<1>2. /\ r \in running /\ r \notin committed
      /\ UNCHANGED <<chunk, sending, running, committed, givenUp>>
  BY DEF Sender!InsertLine, Sender!senderVars
<1>3. PICK n \in 1..Size[r[1]] : /\ Sender!LinesOf(r) = 1..(n - 1)
                                 /\ drawn' = Append(drawn, <<r, <<r[1], n>>>>)
  BY DEF Sender!InsertLine
<1>4. r[1] \in 1..MaxChunks /\ r[1] \in Nat /\ n \in Nat
  <2>1. r[1] \in 1..chunk /\ chunk \in 0..MaxChunks
    BY <1>2 DEF SenderInv, DeliveryInv, RequestsOfPast, SenderTypes
  <2>2. r[1] \in 1..MaxChunks
    BY <2>1
  <2> QED
    BY <2>2
<1> DEFINE row == <<r, <<r[1], n>>>>
<1>5. row \in Row
  BY <1>4 DEF Row
<1>6. Len(drawn) \in Nat /\ DOMAIN drawn = 1..Len(drawn)
  BY LenProperties DEF SenderInv
<1>7. /\ drawn' \in Seq(Row)
      /\ DOMAIN drawn' = 1..(Len(drawn) + 1)
      /\ \A i \in 1..Len(drawn) : drawn'[i] = drawn[i]
      /\ drawn'[Len(drawn) + 1] = row
  BY <1>3, <1>5, AppendProperties, LenProperties DEF SenderInv
<1>8. \A i \in DOMAIN drawn' : i \in DOMAIN drawn \/ i = Len(drawn) + 1
  BY <1>6, <1>7
<1>9. RowsHaveARequest'
  <2>1. SUFFICES ASSUME NEW i \in DOMAIN drawn'
                 PROVE  /\ drawn'[i][1] \in running \cup committed
                        /\ drawn'[i][2][1] = drawn'[i][1][1]
    BY <1>2 DEF RowsHaveARequest
  <2>2. CASE i = Len(drawn) + 1
    BY <1>2, <1>7, <2>2
  <2>3. CASE i \in DOMAIN drawn
    <3>1. drawn'[i] = drawn[i]
      BY <1>6, <1>7, <2>3
    <3> QED
      BY <2>3, <3>1 DEF SenderInv, RowsHaveARequest
  <2> QED
    BY <1>8, <2>2, <2>3
<1>10. LinesInOrder'
  <2>1. SUFFICES ASSUME NEW i \in DOMAIN drawn', NEW j \in DOMAIN drawn', i < j,
                        drawn'[i][1] = drawn'[j][1]
                 PROVE  drawn'[i][2][2] < drawn'[j][2][2]
    BY DEF LinesInOrder
  <2>2. i \in 1..Len(drawn) /\ drawn'[i] = drawn[i]
    BY <1>6, <1>7, <2>1
  <2>3. CASE j = Len(drawn) + 1
    <3>1. drawn[i][1] = r /\ drawn'[j][2][2] = n
      BY <1>7, <2>1, <2>2, <2>3
    <3>2. drawn[i][2][2] \in 1..(n - 1)
      BY <1>3, <1>6, <2>2, <3>1 DEF Sender!LinesOf
    <3> QED
      BY <1>4, <2>2, <3>1, <3>2
  <2>4. CASE j # Len(drawn) + 1
    BY <1>6, <1>7, <1>8, <2>1, <2>2, <2>4 DEF SenderInv, LinesInOrder
  <2> QED
    BY <2>3, <2>4
<1>11. CommittedAreComplete'
  <2>1. SUFFICES ASSUME NEW q \in committed
                 PROVE  Sender!LinesOf(q)' = Sender!LinesOf(q)
    BY <1>2 DEF SenderInv, CommittedAreComplete
  <2>2. q # r
    BY <1>2
  <2>3. {i \in DOMAIN drawn' : drawn'[i][1] = q} = {i \in DOMAIN drawn : drawn[i][1] = q}
    BY <1>6, <1>7, <1>8, <2>2
  <2>4. \A i \in DOMAIN drawn : drawn'[i] = drawn[i]
    BY <1>6, <1>7
  <2> QED
    BY <2>3, <2>4 DEF Sender!LinesOf
<1>12. ConfirmedComeFirst'
  <2>1. SUFFICES ASSUME NEW c \in 1..chunk, c = chunk => sending = "idle",
                        c \notin givenUp
                 PROVE  \E q \in committed :
                          /\ q[1] = c
                          /\ \A i, j \in DOMAIN drawn' :
                               drawn'[i][1] = q /\ drawn'[j][1][1] > c => i < j
    BY <1>2 DEF ConfirmedComeFirst
  <2>2. PICK q \in committed :
               /\ q[1] = c
               /\ \A i, j \in DOMAIN drawn :
                    drawn[i][1] = q /\ drawn[j][1][1] > c => i < j
    BY <2>1 DEF SenderInv, ConfirmedComeFirst
  <2>3. ASSUME NEW i \in DOMAIN drawn', NEW j \in DOMAIN drawn',
               drawn'[i][1] = q, drawn'[j][1][1] > c
        PROVE  i < j
    <3>1. i \in DOMAIN drawn /\ drawn'[i] = drawn[i]
      BY <1>2, <1>6, <1>7, <1>8, <2>3
    <3>2. CASE j = Len(drawn) + 1
      BY <1>6, <3>1, <3>2
    <3>3. CASE j # Len(drawn) + 1
      BY <1>6, <1>7, <1>8, <2>2, <2>3, <3>1, <3>3
    <3> QED
      BY <3>2, <3>3
  <2> QED
    BY <2>2, <2>3
<1> QED
  BY <1>1, <1>7, <1>9, <1>10, <1>11, <1>12 DEF SenderInv

LEMMA RespondKeepsSenderInv ==
  ASSUME SenderInv, DeliveryInv', NEW r, NEW class, Sender!Respond(r, class)
  PROVE  SenderInv'
<1>1. /\ r \in running /\ running' = running \ {r}
      /\ drawn' = IF r \in committed THEN drawn ELSE Sender!RolledBack(r)
      /\ UNCHANGED <<chunk, sending, committed, givenUp>>
  BY DEF Sender!Respond, Sender!senderVars
<1>2. CASE r \in committed
  <2>1. UNCHANGED drawn
    BY <1>1, <1>2
  <2>2. RowsHaveARequest'
    BY <1>1, <1>2, <2>1 DEF SenderInv, RowsHaveARequest
  <2>3. LinesInOrder' /\ ConfirmedComeFirst' /\ drawn' \in Seq(Row)
    BY <1>1, <2>1 DEF SenderInv, LinesInOrder, ConfirmedComeFirst
  <2>4. CommittedAreComplete'
    BY <1>1, <2>1 DEF SenderInv, CommittedAreComplete, Sender!LinesOf
  <2> QED
    BY <2>2, <2>3, <2>4 DEF SenderInv
<1>3. CASE r \notin committed
  <2>1. PICK e : Embeds(e, drawn', Len(drawn), r)
    BY <1>1, <1>3, RollbackKeepsTheRest DEF SenderInv
  <2>2. drawn' \in Seq(Row)
    BY <1>1, <1>3, RollbackKeepsTheRest DEF SenderInv
  <2>3. /\ Len(drawn) \in Nat /\ DOMAIN drawn = 1..Len(drawn)
        /\ Len(drawn') \in Nat /\ DOMAIN drawn' = 1..Len(drawn')
    BY <2>2, LenProperties DEF SenderInv
  <2>4. \A k \in DOMAIN drawn' : /\ e[k] \in DOMAIN drawn
                                 /\ drawn'[k] = drawn[e[k]]
                                 /\ drawn'[k][1] # r
    BY <2>1, <2>3 DEF Embeds
  <2>5. \A j, k \in DOMAIN drawn' : j < k => e[j] < e[k]
    BY <2>1, <2>3 DEF Embeds
  <2>6. \A i \in DOMAIN drawn : drawn[i][1] # r => \E k \in DOMAIN drawn' : e[k] = i
    BY <2>1, <2>3 DEF Embeds
  <2>7. RowsHaveARequest'
    BY <1>1, <2>4 DEF SenderInv, RowsHaveARequest
  <2>8. LinesInOrder'
    BY <2>4, <2>5 DEF SenderInv, LinesInOrder
  <2>9. CommittedAreComplete'
    <3>1. SUFFICES ASSUME NEW q \in committed
                   PROVE  Sender!LinesOf(q)' = Sender!LinesOf(q)
      BY <1>1 DEF SenderInv, CommittedAreComplete
    <3>2. q # r
      BY <1>3
    <3>3. ASSUME NEW k \in DOMAIN drawn', drawn'[k][1] = q
          PROVE  \E i \in DOMAIN drawn : drawn[i][1] = q /\ drawn[i][2][2] = drawn'[k][2][2]
      BY <2>4, <3>3
    <3>4. ASSUME NEW i \in DOMAIN drawn, drawn[i][1] = q
          PROVE  \E k \in DOMAIN drawn' : drawn'[k][1] = q /\ drawn'[k][2][2] = drawn[i][2][2]
      BY <2>4, <2>6, <3>2, <3>4
    <3>5. \A n : n \in Sender!LinesOf(q)' => n \in Sender!LinesOf(q)
      BY <3>3 DEF Sender!LinesOf
    <3>6. \A n : n \in Sender!LinesOf(q) => n \in Sender!LinesOf(q)'
      BY <3>4 DEF Sender!LinesOf
    <3> QED
      BY <3>5, <3>6
  <2>10. ConfirmedComeFirst'
    <3>1. SUFFICES ASSUME NEW c \in 1..chunk, c = chunk => sending = "idle",
                          c \notin givenUp
                   PROVE  \E q \in committed :
                            /\ q[1] = c
                            /\ \A i, j \in DOMAIN drawn' :
                                 drawn'[i][1] = q /\ drawn'[j][1][1] > c => i < j
      BY <1>1 DEF ConfirmedComeFirst
    <3>2. PICK q \in committed :
                 /\ q[1] = c
                 /\ \A i, j \in DOMAIN drawn :
                      drawn[i][1] = q /\ drawn[j][1][1] > c => i < j
      BY <3>1 DEF SenderInv, ConfirmedComeFirst
    <3>3. ASSUME NEW i \in DOMAIN drawn', NEW j \in DOMAIN drawn',
                 drawn'[i][1] = q, drawn'[j][1][1] > c
          PROVE  i < j
      <4>1. e[i] < e[j]
        BY <2>4, <3>2, <3>3
      <4>2. e[i] \in Int /\ e[j] \in Int /\ i \in Int /\ j \in Int
        BY <2>3, <2>4
      <4>3. ~(j < i)
        BY <2>5, <4>1, <4>2
      <4>4. i # j
        BY <4>1, <4>2
      <4> QED
        BY <4>2, <4>3, <4>4
    <3> QED
      BY <3>2, <3>3
  <2> QED
    BY <2>2, <2>7, <2>8, <2>9, <2>10 DEF SenderInv
<1> QED
  BY <1>2, <1>3

LEMMA CommitKeepsSenderInv ==
  ASSUME SenderInv, DeliveryInv', NEW r, Sender!Commit(r)
  PROVE  SenderInv'
<1>1. /\ committed' = committed \cup {r}
      /\ Sender!LinesOf(r) = 1..Size[r[1]]
      /\ UNCHANGED <<chunk, sending, running, drawn, givenUp>>
  BY DEF Sender!Commit, Sender!senderVars
<1>2. drawn' \in Seq(Row) /\ RowsHaveARequest' /\ LinesInOrder' /\ ConfirmedComeFirst'
  BY <1>1 DEF SenderInv, RowsHaveARequest, LinesInOrder, ConfirmedComeFirst
<1>3. CommittedAreComplete'
  BY <1>1 DEF SenderInv, CommittedAreComplete, Sender!LinesOf
<1> QED
  BY <1>2, <1>3 DEF SenderInv

LEMMA SenderStep ==
  ASSUME MaxChunks \in Nat, Size \in [1..MaxChunks -> Nat \ {0}]
  PROVE  SenderInv /\ [Sender!Next]_(Sender!vars) => SenderInv'
<1> SUFFICES ASSUME SenderInv, [Sender!Next]_(Sender!vars)
             PROVE  SenderInv'
  OBVIOUS
<1>1. DeliveryInv'
  BY DeliveryStep DEF SenderInv
<1>2. ASSUME NEW r \in Sender!Request, Sender!Server(r)
      PROVE  SenderInv'
  <2>1. CASE Sender!InsertLine(r)
    BY <2>1, InsertLineKeepsSenderInv
  <2>2. CASE Sender!Commit(r)
    BY <1>1, <2>2, CommitKeepsSenderInv
  <2>3. CASE Sender!HandlerRefuses(r) \/ Sender!HandlerAccepts(r) \/ Sender!HandlerFails(r)
    BY <1>1, <2>3, RespondKeepsSenderInv
       DEF Sender!HandlerRefuses, Sender!HandlerAccepts, Sender!HandlerFails
  <2> QED
    BY <1>2, <2>1, <2>2, <2>3 DEF Sender!Server
<1> QED
  BY <1>2, SendLogsKeepsSenderInv DEF Sender!Next

LEMMA SenderSpecInv ==
  ASSUME MaxChunks \in Nat, Size \in [1..MaxChunks -> Nat \ {0}]
  PROVE  Sender!Spec => []SenderInv
  BY SenderInit, SenderStep, PTL DEF Sender!Spec

(* The first copy of a line that is stored is a copy, and the first.       *)
LEMMA FirstIdIsFirst ==
  ASSUME drawn \in Seq(Row), NEW m, m \in Sender!Stored
  PROVE  /\ Sender!FirstId(m) \in Sender!CopiesOf(m)
         /\ \A j \in Sender!CopiesOf(m) : Sender!FirstId(m) <= j
<1>1. Sender!CopiesOf(m) # {}
  BY DEF Sender!Stored, Sender!CopiesOf
<1>2. Sender!CopiesOf(m) \subseteq Nat
  <2>1. DOMAIN drawn \subseteq Nat
    BY LenProperties
  <2> QED
    BY <2>1 DEF Sender!CopiesOf, Sender!Rows
<1>3. \E i \in Sender!CopiesOf(m) : \A j \in Sender!CopiesOf(m) : i <= j
  BY <1>1, <1>2, SmallestNat
<1> QED
  BY <1>3 DEF Sender!FirstId

LEMMA OrderFromInv ==
  ASSUME MaxChunks \in Nat, Size \in [1..MaxChunks -> Nat \ {0}], SenderInv
  PROVE  Sender!FirstCopiesInOrder
<1> SUFFICES ASSUME NEW m \in Sender!Stored, NEW l \in Sender!Line,
                    Sender!Before(l, m), l[1] \notin givenUp
             PROVE  l \in Sender!Stored /\ Sender!FirstId(l) < Sender!FirstId(m)
  BY DEF Sender!FirstCopiesInOrder
<1>1. /\ drawn \in Seq(Row) /\ DOMAIN drawn = 1..Len(drawn) /\ Len(drawn) \in Nat
  BY LenProperties DEF SenderInv
<1>2. /\ l[1] \in 1..MaxChunks /\ l[2] \in 1..Size[l[1]]
      /\ l = <<l[1], l[2]>>
  BY DEF Sender!Line, Sender!Chunk
<1>3. PICK j : j = Sender!FirstId(m)
  OBVIOUS
<1>4. j \in DOMAIN drawn /\ drawn[j][1] \in committed /\ drawn[j][2] = m
  BY <1>1, <1>3, FirstIdIsFirst DEF Sender!CopiesOf, Sender!Rows
<1>5. m[1] = drawn[j][1][1] /\ m[1] \in 1..chunk
  BY <1>4 DEF SenderInv, DeliveryInv, RequestsOfPast, RowsHaveARequest
<1>6. ASSUME NEW r \in committed, r[1] = l[1]
      PROVE  \E i \in DOMAIN drawn : drawn[i][1] = r /\ drawn[i][2] = l
  <2>1. l[2] \in Sender!LinesOf(r)
    BY <1>2, <1>6 DEF SenderInv, CommittedAreComplete
  <2>2. PICK i \in DOMAIN drawn : drawn[i][1] = r /\ drawn[i][2][2] = l[2]
    BY <2>1 DEF Sender!LinesOf
  <2>3. drawn[i] \in Row
    BY <1>1, ElementOfSeq
  <2>4. drawn[i][2][1] = l[1]
    BY <1>6, <2>2 DEF SenderInv, RowsHaveARequest
  <2>5. drawn[i][2] = <<drawn[i][2][1], drawn[i][2][2]>>
    BY <2>3 DEF Row
  <2> QED
    BY <1>2, <2>2, <2>4, <2>5
<1>7. ASSUME NEW i \in DOMAIN drawn, drawn[i][1] \in committed, drawn[i][2] = l, i < j
      PROVE  l \in Sender!Stored /\ Sender!FirstId(l) < Sender!FirstId(m)
  <2>1. i \in Sender!CopiesOf(l) /\ l \in Sender!Stored
    BY <1>7 DEF Sender!CopiesOf, Sender!Rows, Sender!Stored
  <2>2. PICK k : k = Sender!FirstId(l)
    OBVIOUS
  <2>3. k <= i /\ k \in DOMAIN drawn
    BY <1>1, <2>1, <2>2, FirstIdIsFirst DEF Sender!CopiesOf, Sender!Rows
  <2>4. k < j
    BY <1>1, <1>4, <1>7, <2>3
  <2> QED
    BY <1>3, <2>1, <2>2, <2>4
<1>8. CASE l[1] < m[1]
  <2>1. l[1] \in 1..chunk /\ l[1] # chunk
    <3>1. chunk \in Nat
      BY DEF SenderInv, DeliveryInv, SenderTypes
    <3>2. l[1] \in Nat \ {0}
      BY <1>2
    <3> QED
      BY <1>5, <1>8, <3>1, <3>2
  <2>2. PICK r \in committed :
               /\ r[1] = l[1]
               /\ \A i, k \in DOMAIN drawn :
                    drawn[i][1] = r /\ drawn[k][1][1] > l[1] => i < k
    BY <2>1 DEF SenderInv, ConfirmedComeFirst
  <2>3. PICK i \in DOMAIN drawn : drawn[i][1] = r /\ drawn[i][2] = l
    BY <1>6, <2>2
  <2>4. i < j
    BY <1>2, <1>4, <1>5, <1>8, <2>2, <2>3
  <2> QED
    BY <1>7, <2>3, <2>4
<1>9. CASE l[1] = m[1] /\ l[2] < m[2]
  <2>1. PICK i \in DOMAIN drawn : drawn[i][1] = drawn[j][1] /\ drawn[i][2] = l
    BY <1>4, <1>5, <1>6, <1>9
  <2>2. drawn[i][2][2] < drawn[j][2][2]
    BY <1>4, <1>9, <2>1
  <2>3. drawn[i] \in Row /\ drawn[j] \in Row
    BY <1>1, <1>4, ElementOfSeq
  <2>4. drawn[i][2][2] \in Nat /\ drawn[j][2][2] \in Nat
    BY <2>3 DEF Row
  <2>5. ~(j < i)
    BY <1>4, <2>1, <2>2, <2>4 DEF SenderInv, LinesInOrder
  <2>6. i # j
    BY <2>2, <2>4
  <2>7. i < j
    BY <1>1, <1>4, <2>5, <2>6
  <2> QED
    BY <1>4, <1>7, <2>1, <2>7
<1> QED
  BY <1>8, <1>9 DEF Sender!Before

(* Theorem: a search sorted by id shows each file in its order, for any    *)
(* number of chunks of any size, whatever is lost, late or repeated: the   *)
(* first copies of the lines are drawn in the order of the file.           *)
THEOREM SearchShowsFileOrder ==
  ASSUME MaxChunks \in Nat, Size \in [1..MaxChunks -> Nat \ {0}]
  PROVE  Sender!Spec => []Sender!FirstCopiesInOrder
<1>1. SenderInv => Sender!FirstCopiesInOrder
  BY OrderFromInv
<1> QED
  BY <1>1, SenderSpecInv, PTL
-----------------------------------------------------------------------------
(* The transaction and the retries: no line is lost without an error, no   *)
(* chunk is shown by halves, and a request adds at most one copy of a line.*)
LinesAreSettled ==
  /\ \A l \in Sender!Line :
        l[1] <= chunk =>
          \/ l \in Sender!Stored
          \/ l[1] \in givenUp
          \/ l[1] = chunk /\ sending # "idle"
  /\ \A l, m \in Sender!Line :
        l[1] = m[1] => (l \in Sender!Stored <=> m \in Sender!Stored)
  /\ \A i, j \in Sender!Rows :
        drawn[i] = drawn[j] => i = j

(* A committed request has a row for every line of its chunk.              *)
LEMMA CommittedIsStored ==
  ASSUME SenderInv, NEW r \in committed, NEW l \in Sender!Line, l[1] = r[1]
  PROVE  l \in Sender!Stored
<1>1. PICK c \in Sender!Chunk : \E n \in 1..Size[c] : l = <<c, n>>
  BY DEF Sender!Line
<1>2. l[2] \in Sender!LinesOf(r)
  <2>1. Sender!LinesOf(r) = 1..Size[r[1]]
    BY DEF SenderInv, CommittedAreComplete
  <2>2. l[2] \in 1..Size[l[1]]
    BY <1>1
  <2> QED
    BY <2>1, <2>2
<1>3. PICK i \in DOMAIN drawn : drawn[i][1] = r /\ drawn[i][2][2] = l[2]
  BY <1>2 DEF Sender!LinesOf
<1>4. drawn[i] \in Row /\ drawn[i][2][1] = l[1]
  <2>1. drawn \in [1..Len(drawn) -> Row] /\ DOMAIN drawn = 1..Len(drawn)
    BY LenProperties DEF SenderInv
  <2> QED
    BY <1>3, <2>1 DEF SenderInv, RowsHaveARequest
<1>5. drawn[i][2] = l
  BY <1>1, <1>3, <1>4 DEF Row
<1>6. i \in Sender!Rows
  BY <1>3 DEF Sender!Rows
<1> QED
  BY <1>5, <1>6 DEF Sender!Stored

LEMMA SettledFromInv ==
  ASSUME MaxChunks \in Nat, SenderInv
  PROVE  LinesAreSettled
<1>1. ASSUME NEW l \in Sender!Line, l[1] <= chunk
      PROVE  \/ l \in Sender!Stored
             \/ l[1] \in givenUp
             \/ l[1] = chunk /\ sending # "idle"
  <2>1. l[1] \in 1..MaxChunks
    BY DEF Sender!Line, Sender!Chunk
  <2>2. chunk \in Nat
    BY DEF SenderInv, DeliveryInv, SenderTypes
  <2>3. l[1] \in 1..chunk
    BY <1>1, <2>1, <2>2
  <2> QED
    BY <2>3, CommittedIsStored DEF SenderInv, DeliveryInv, EachSettled
<1>2. ASSUME NEW l \in Sender!Line, NEW m \in Sender!Line, l[1] = m[1],
             l \in Sender!Stored
      PROVE  m \in Sender!Stored
  <2>1. PICK i \in DOMAIN drawn : drawn[i][1] \in committed /\ l = drawn[i][2]
    BY <1>2 DEF Sender!Stored, Sender!Rows
  <2>2. m[1] = drawn[i][1][1]
    BY <1>2, <2>1 DEF SenderInv, RowsHaveARequest
  <2> QED
    BY <2>1, <2>2, CommittedIsStored
<1>3. ASSUME NEW i \in Sender!Rows, NEW j \in Sender!Rows, drawn[i] = drawn[j]
      PROVE  i = j
  <2>1. /\ i \in DOMAIN drawn /\ j \in DOMAIN drawn
        /\ DOMAIN drawn = 1..Len(drawn)
        /\ drawn \in [1..Len(drawn) -> Row]
    BY LenProperties DEF SenderInv, Sender!Rows
  <2>2. drawn[i][2][2] \in Nat
    BY <2>1 DEF Row
  <2>3. ~(i < j) /\ ~(j < i)
    BY <1>3, <2>1, <2>2 DEF SenderInv, LinesInOrder
  <2> QED
    BY <2>1, <2>3
<1> QED
  BY <1>1, <1>2, <1>3 DEF LinesAreSettled

(* Theorem: when SendLogs has returned without an error, each line of the  *)
(* chunk is in the table; a search shows all lines of a chunk or none, and *)
(* no more copies of a line than requests, however the handlers of its     *)
(* attempts interleave and are rolled back.                                *)
THEOREM NoLineLostSilently ==
  ASSUME MaxChunks \in Nat, Size \in [1..MaxChunks -> Nat \ {0}]
  PROVE  Sender!Spec => []LinesAreSettled
<1>1. SenderInv => LinesAreSettled
  BY SettledFromInv
<1> QED
  BY <1>1, SenderSpecInv, PTL

-----------------------------------------------------------------------------
(* The end of a call once the context is done: how many steps of SendLogs  *)
(* are left at most.  Before the first attempt sleepFn does not look at    *)
(* the context, so that such a call goes once through client.Do.           *)
StepsToReturn ==
  IF sending = "idle" THEN 0
  ELSE IF sending = "sleep" THEN IF attempt = 0 THEN 3 ELSE 1
  ELSE 2

CountersAreNat == attempt \in Nat

(* Once the context is done, each step of SendLogs brings its return       *)
(* nearer, and nothing else delays it.                                     *)
CancelEndsTheCall ==
  [][stopped /\ stopped' /\ sending # "idle" =>
       /\ StepsToReturn' <= StepsToReturn
       /\ Sender!SendLogs => StepsToReturn' < StepsToReturn]_(Sender!vars)

LEMMA CountersStep ==
  ASSUME CountersAreNat, [Sender!Next]_(Sender!vars)
  PROVE  CountersAreNat'
<1>1. CASE Sender!AttemptFails \/ Sender!AnsweredServerError
  BY <1>1 DEF Sender!AttemptFails, Sender!AnsweredServerError,
              Sender!Continue, CountersAreNat
<1>2. CASE ~(Sender!AttemptFails \/ Sender!AnsweredServerError)
  <2>1. attempt' = attempt \/ attempt' = 0
    BY <1>2
       DEF Sender!Next, Sender!vars, Sender!NextChunk, Sender!SendLogs,
           Sender!SleepEnds, Sender!SleepCancelled, Sender!Post,
           Sender!AnsweredOK, Sender!AnsweredRejected, Sender!Cancel,
           Sender!Restart, Sender!Server, Sender!HandlerRefuses,
           Sender!InsertLine, Sender!Commit, Sender!HandlerAccepts,
           Sender!HandlerFails, Sender!Respond, Sender!senderVars
  <2> QED
    BY <2>1 DEF CountersAreNat
<1> QED
  BY <1>1, <1>2

(* A failed attempt leaves the counter above zero, whatever the bound.     *)
LEMMA CancelStep ==
  ASSUME MaxChunks \in Nat, Spoiled \in [1..MaxChunks -> Nat],
         SenderTypes, CountersAreNat, Sender!Next,
         stopped, stopped', sending # "idle"
  PROVE  /\ StepsToReturn' <= StepsToReturn
         /\ Sender!SendLogs => StepsToReturn' < StepsToReturn
<1> USE DEF StepsToReturn
<1>1. CASE Sender!SendLogs
  <2>1. CASE Sender!SleepEnds
    BY <1>1, <2>1 DEF Sender!SleepEnds, Sender!Pauses, CountersAreNat
  <2>2. CASE \/ Sender!SleepCancelled \/ Sender!AnsweredOK
             \/ Sender!AnsweredRejected
    <3>1. sending' = "idle" /\ sending \in {"sleep", "wait"}
      BY <2>2 DEF Sender!SleepCancelled, Sender!AnsweredOK,
                  Sender!AnsweredRejected
    <3> QED
      BY <3>1
  <2>3. CASE Sender!AttemptFails \/ Sender!AnsweredServerError
    <3>1. chunk \in 1..MaxChunks /\ Spoiled[chunk] \in Nat
      BY DEF SenderTypes
    <3>2. attempt' # 0
      BY <2>3, <3>1 DEF Sender!AttemptFails, Sender!AnsweredServerError,
                        Sender!Continue, CountersAreNat
    <3>3. sending' = "sleep" /\ sending \in {"do", "wait"}
      BY <2>3 DEF Sender!AttemptFails, Sender!AnsweredServerError,
                  Sender!Continue
    <3> QED
      BY <3>2, <3>3
  <2> QED
    BY <1>1, <2>1, <2>2, <2>3 DEF Sender!SendLogs, Sender!Post
<1>2. CASE ~Sender!SendLogs
  <2>1. UNCHANGED <<sending, attempt>>
    BY <1>2 DEF Sender!Next, Sender!NextChunk, Sender!Cancel, Sender!Restart,
                Sender!Server, Sender!HandlerRefuses, Sender!InsertLine,
                Sender!Commit, Sender!HandlerAccepts, Sender!HandlerFails,
                Sender!Respond, Sender!senderVars
  <2> QED
    BY <1>2, <2>1
<1> QED
  BY <1>1, <1>2

(* Theorem: once the context is done, SendLogs returns within three of its *)
(* own steps, whatever the server answers or does not: the variant of the  *)
(* first part of SendLogsReturns.                                          *)
THEOREM CancelledSendLogsReturns ==
  ASSUME MaxChunks \in Nat, Spoiled \in [1..MaxChunks -> Nat]
  PROVE  Sender!Spec => []CountersAreNat /\ CancelEndsTheCall
<1>1. Sender!Init => CountersAreNat
  BY DEF Sender!Init, CountersAreNat
<1>2. CountersAreNat /\ [Sender!Next]_(Sender!vars) => CountersAreNat'
  BY CountersStep
<1>3. DeliveryInv /\ CountersAreNat /\ [Sender!Next]_(Sender!vars) =>
        [stopped /\ stopped' /\ sending # "idle" =>
           /\ StepsToReturn' <= StepsToReturn
           /\ Sender!SendLogs => StepsToReturn' < StepsToReturn]_(Sender!vars)
  BY CancelStep DEF DeliveryInv
<1> QED
  BY <1>1, <1>2, <1>3, DeliverySpecInv, PTL DEF Sender!Spec, CancelEndsTheCall
=============================================================================
