------------------------------- MODULE Tailer -------------------------------
(***************************************************************************)
(* The log tailer of the agent (internal/agent/logtail/tailer.go) on one   *)
(* path: a goroutine that takes file-system events one at a time, reads    *)
(* what is new since its offset with Stat, Seek and a Scanner, and sends   *)
(* the lines in chunks, blocking until each chunk is answered              *)
(* (internal/agent/logtail/sender.go).  The application that writes the    *)
(* file, and the program that rotates it, interleave with every step.      *)
(*                                                                         *)
(* A line is what the application appends with one write.  If that is only *)
(* the beginning of a line of text, the Scanner still returns it when it   *)
(* meets the end of the file; that it joins two pieces when both are there *)
(* is in no property.  Lines are numbered in the order they are written,   *)
(* and an offset counts lines.                                             *)
(*                                                                         *)
(* A generation is a file that had the path at some time: after a rename   *)
(* the path names no file until a new generation is created.  The watch is *)
(* on a file, as watcher.Add(p) puts it: it ends with the rename of the    *)
(* file, and whether the creation of the next one is reported depends on   *)
(* the platform.  os.Open and watcher.Add each look up the path: a         *)
(* rotation in between leaves the handle on the old file and the watch on  *)
(* the new one.                                                            *)
(***************************************************************************)
EXTENDS Integers, Sequences, SequencesExt

CONSTANTS
  MaxLines,  \* BOUND: lines written
  MaxGens,   \* BOUND: files that have the path one after the other
  Chunk,     \* maxBatchSize, entries of one request
  LongLines  \* lines that do not fit the Scanner's buffer of 64 KiB

Line == 1..MaxLines
Gen  == 1..MaxGens

ASSUME TailerAssumption ==
  /\ MaxLines \in Nat \ {0}
  /\ MaxGens \in Nat \ {0}
  /\ Chunk \in Nat \ {0}
  /\ LongLines \subseteq Line

(* No file, no handle or no watch.                                         *)
NoFile == 0

VARIABLES
  written,    \* number of lines written so far
  content,    \* content[g]: the lines in generation g
  newest,     \* the newest generation
  current,    \* the generation the path names, or NoFile
  events,     \* watcher.Events, oldest first; equal neighbours are merged
  watched,    \* the generation the watch is on, or NoFile
  handle,     \* the generation files[path] is open on, or NoFile
  offset,     \* offsets[path]
  pc,         \* NewTailer: "open", "stat", "add"; Run: "select", "reopen",
              \* "rewatch", "lookup", "read", "scan", "send", "returned"
  statSize,   \* currentSize of the running readNewLines
  position,   \* where the Scanner is
  entries,    \* lines read and not yet sent
  cancelled,  \* ctx is done
  shrunk,     \* history: the open file was truncated since the last Stat
  missed,     \* history: a Stat came when the truncated file had grown again
  old,        \* history: lines that were there when the tailer was built
  unnoticed,  \* history: lines written while nothing watched their file
  strayed,    \* history: lines written under the watch, but not Attended
  read,       \* history: lines the Scanner returned
  overflowed, \* history: lines given up after one that was too long
  settled     \* history: lines that the server answered

fileVars    == <<written, content, newest, current>>
truncVars   == <<shrunk, missed>>
watchVars   == <<events, watched>>
handleVars  == <<handle, offset>>
scanVars    == <<statSize, position, entries>>
noteVars    == <<old, unnoticed, strayed>>
historyVars == <<shrunk, missed, old, unnoticed, strayed, read, overflowed, settled>>
vars == <<written, content, newest, current, events, watched, handle, offset,
          pc, statSize, position, entries, cancelled, shrunk, missed, old, unnoticed,
          strayed, read, overflowed, settled>>

(* NewTailer is about to open the path.                                    *)
Init ==
  /\ written \in 0..1
  /\ content = [g \in Gen |-> IF g = 1 THEN [i \in 1..written |-> i] ELSE <<>>]
  /\ newest = 1
  /\ current = 1
  /\ events = <<>>
  /\ watched = NoFile
  /\ handle = NoFile
  /\ offset = 0
  /\ pc = "open"
  /\ statSize = 0
  /\ position = 0
  /\ entries = <<>>
  /\ cancelled = FALSE
  /\ shrunk = FALSE
  /\ missed = FALSE
  /\ old = {}
  /\ unnoticed = 1..written
  /\ strayed = {}
  /\ read = {}
  /\ overflowed = {}
  /\ settled = {}

-----------------------------------------------------------------------------
(* The file system                                                         *)

(* NewTailer is running.                                                   *)
Starting == pc \in {"open", "stat", "add"}

(* An event equal to the last one in the queue is merged with it.          *)
Queue(e) == IF events # <<>> /\ Last(events) = e THEN events ELSE Append(events, e)

(* What the tailer has open is what it watches, and no older rename or     *)
(* creation is still to be handled.                                        *)
Attended == handle = watched /\ ToSet(events) \subseteq {"write"}

(* The application appends a line to its file, which may have been renamed *)
(* under it.                                                               *)
WriteLine ==
  /\ written < MaxLines
  /\ written' = written + 1
  /\ content' = [content EXCEPT ![newest] = Append(@, written')]
  /\ IF watched = newest
       THEN /\ events' = Queue("write")
            /\ strayed' = IF Attended THEN strayed ELSE strayed \cup {written'}
            /\ UNCHANGED unnoticed
       ELSE /\ unnoticed' = unnoticed \cup {written'}
            /\ UNCHANGED <<events, strayed>>
  /\ UNCHANGED <<newest, current, watched, handleVars, pc, scanVars, cancelled,
                 truncVars, old, read, overflowed, settled>>

(* Rotation by truncation, after which the application writes on.          *)
TruncateFile ==
  /\ current # NoFile
  /\ content[current] # <<>>
  /\ content' = [content EXCEPT ![current] = <<>>]
  /\ events' = IF watched = current THEN Queue("write") ELSE events
  /\ shrunk' = (shrunk \/ handle = current)
  /\ UNCHANGED <<written, newest, current, watched, handleVars, pc, scanVars,
                 cancelled, missed, noteVars, read, overflowed, settled>>

(* Rotation by renaming: the watch ends with a last event.                 *)
RenameFile ==
  /\ current # NoFile
  /\ newest < MaxGens
  /\ current' = NoFile
  /\ IF watched = current
       THEN events' = Queue("rename") /\ watched' = NoFile
       ELSE UNCHANGED watchVars
  /\ UNCHANGED <<written, content, newest, handleVars, pc, scanVars, cancelled,
                 historyVars>>

(* Nothing is reported before NewTailer has added the path.                *)
CreateFile ==
  /\ current = NoFile
  /\ newest' = newest + 1
  /\ current' = newest'
  /\ events' = events \/ (events' = Queue("create") /\ ~Starting)
  /\ UNCHANGED <<written, content, watched, handleVars, pc, scanVars, cancelled,
                 historyVars>>

-----------------------------------------------------------------------------
(* NewTailer: opens the path at its end and watches it, or skips it.       *)

(* openAndSeekEOF; os.Open fails if the path names no file, or for another *)
(* reason.                                                                 *)
OpenPath ==
  /\ pc = "open"
  /\ \/ current # NoFile /\ handle' = current /\ pc' = "stat"
     \/ pc' = "select" /\ UNCHANGED handle
  /\ UNCHANGED <<fileVars, watchVars, offset, scanVars, cancelled, historyVars>>

(* Bug: the offset is not set to the end.                                  *)
StatPathAtBeginning ==
  /\ pc = "stat"
  /\ offset' = 0
  /\ pc' = "add"
  /\ old' = ToSet(content[handle])
  /\ shrunk' = FALSE
  /\ UNCHANGED <<fileVars, watchVars, handle, scanVars, cancelled, missed, unnoticed,
                 strayed, read, overflowed, settled>>

(* Stat, of the file that was opened: what it holds is never to be read.   *)
StatPath ==
  /\ pc = "stat"
  /\ offset' = Len(content[handle])
  /\ pc' = "add"
  /\ old' = ToSet(content[handle])
  /\ shrunk' = FALSE
  /\ UNCHANGED <<fileVars, watchVars, handle, scanVars, cancelled, missed, unnoticed,
                 strayed, read, overflowed, settled>>

(* watcher.Add watches what the path names now; if it fails, the handle is *)
(* closed and the offset stays.                                            *)
AddWatch ==
  /\ pc = "add"
  /\ pc' = "select"
  /\ \/ /\ current # NoFile /\ watched' = current
        /\ UNCHANGED <<handle, shrunk>>
     \/ handle' = NoFile /\ shrunk' = FALSE /\ UNCHANGED watched
  /\ UNCHANGED <<fileVars, events, offset, scanVars, cancelled, missed, noteVars,
                 read, overflowed, settled>>

-----------------------------------------------------------------------------
(* Run and handleEvent                                                     *)

(* The open file is closed; the offset stays for the moment.               *)
HandleCreate ==
  /\ pc = "select"
  /\ events # <<>> /\ Head(events) = "create"
  /\ events' = Tail(events)
  /\ handle' = NoFile
  /\ shrunk' = FALSE
  /\ pc' = "reopen"
  /\ UNCHANGED <<fileVars, watched, offset, scanVars, cancelled, missed, noteVars,
                 read, overflowed, settled>>

(* openAndSeekEOF opens what the path names now, and the offset becomes 0; *)
(* if that fails, the handler returns.                                     *)
Reopen ==
  /\ pc = "reopen"
  /\ \/ current # NoFile /\ handle' = current /\ offset' = 0 /\ pc' = "rewatch"
     \/ pc' = "select" /\ UNCHANGED handleVars
  /\ UNCHANGED <<fileVars, watchVars, scanVars, cancelled, historyVars>>

(* watcher.Add watches what the path names by then, or fails and is only   *)
(* logged: the handle stays.                                               *)
Rewatch ==
  /\ pc = "rewatch"
  /\ pc' = "select"
  /\ watched' = watched \/ (current # NoFile /\ watched' = current)
  /\ UNCHANGED <<fileVars, events, handleVars, scanVars, cancelled, historyVars>>

(* Bug: each event is handled by a goroutine of its own.                   *)
RenameClosesAtOnce ==
  /\ events # <<>> /\ Head(events) = "rename"
  /\ events' = Tail(events)
  /\ handle' = NoFile
  /\ offset' = 0
  /\ shrunk' = FALSE
  /\ UNCHANGED <<fileVars, watched, pc, scanVars, cancelled, missed, noteVars, read,
                 overflowed, settled>>

HandleRename ==
  /\ pc = "select"
  /\ events # <<>> /\ Head(events) = "rename"
  /\ events' = Tail(events)
  /\ handle' = NoFile
  /\ offset' = 0
  /\ shrunk' = FALSE
  /\ UNCHANGED <<fileVars, watched, pc, scanVars, cancelled, missed, noteVars, read,
                 overflowed, settled>>

(* readNewLines uses the open file if there is one.                        *)
HandleWrite ==
  /\ pc = "select"
  /\ events # <<>> /\ Head(events) = "write"
  /\ events' = Tail(events)
  /\ pc' = IF handle = NoFile THEN "lookup" ELSE "read"
  /\ UNCHANGED <<fileVars, watched, handleVars, scanVars, cancelled, historyVars>>

(* Otherwise it opens what the path names now; if that fails, the event    *)
(* leads to nothing.                                                       *)
OpenToRead ==
  /\ pc = "lookup"
  /\ \/ current # NoFile /\ handle' = current /\ pc' = "read"
     \/ pc' = "select" /\ UNCHANGED handle
  /\ UNCHANGED <<fileVars, watchVars, offset, scanVars, cancelled, historyVars>>

(* Bug: the offset is not reset when the file shrank.                      *)
StatIgnoresTruncation ==
  /\ pc = "read"
  /\ statSize' = Len(content[handle])
  /\ position' = offset
  /\ pc' = IF statSize' = offset THEN "select" ELSE "scan"
  /\ shrunk' = FALSE
  /\ UNCHANGED <<missed, fileVars, watchVars, handleVars, entries, cancelled,
                 noteVars, read, overflowed, settled>>

(* Stat; the offset is reset when the file shrank; Seek.                   *)
StatFile ==
  /\ pc = "read"
  /\ statSize' = Len(content[handle])
  /\ offset' = IF statSize' < offset THEN 0 ELSE offset
  /\ position' = offset'
  /\ pc' = IF statSize' = offset' THEN "select" ELSE "scan"
  /\ shrunk' = FALSE
  /\ missed' = (missed \/ (shrunk /\ offset > 0 /\ offset' = offset))
  /\ UNCHANGED <<fileVars, watchVars, handle, entries, cancelled, noteVars,
                 read, overflowed, settled>>

AtEOF == position >= Len(content[handle])

ScannerStops == ~AtEOF => content[handle][position + 1] \in LongLines

(* Scan returns the next line.                                             *)
ScanLine ==
  LET line == content[handle][position + 1]
  IN  /\ pc = "scan"
      /\ ~AtEOF
      /\ line \notin LongLines
      /\ position' = position + 1
      /\ entries' = Append(entries, line)
      /\ read' = read \cup {line}
      /\ UNCHANGED <<fileVars, watchVars, handleVars, pc, statSize, cancelled,
                     truncVars, noteVars, overflowed, settled>>

(* Scan returns false, at the end of the file or at a line too long for    *)
(* the buffer; the offset becomes the size that Stat returned.             *)
ScanEnds ==
  /\ pc = "scan"
  /\ ScannerStops
  /\ offset' = statSize
  /\ overflowed' = overflowed \cup
       {content[handle][i] : i \in DOMAIN content[handle] \cap ((position + 1)..statSize)}
  /\ pc' = "send"
  /\ UNCHANGED <<fileVars, watchVars, handle, scanVars, cancelled, truncVars,
                 noteVars, read, settled>>

(* Bug: a chunk answered with a 4xx ends the sending of the rest.          *)
RejectionEndsSending ==
  LET n == IF Len(entries) < Chunk THEN Len(entries) ELSE Chunk
  IN  /\ pc = "send"
      /\ entries # <<>>
      /\ settled' = settled \cup ToSet(SubSeq(entries, 1, n))
      /\ entries' \in {<<>>, SubSeq(entries, n + 1, Len(entries))}
      /\ UNCHANGED <<fileVars, watchVars, handleVars, pc, statSize, position,
                     cancelled, truncVars, noteVars, read, overflowed>>

(* SendLogs retries until the server answers the chunk; a chunk answered   *)
(* with a 4xx is discarded and the next one sent.                          *)
SendChunk ==
  LET n == IF Len(entries) < Chunk THEN Len(entries) ELSE Chunk
  IN  /\ pc = "send"
      /\ entries # <<>>
      /\ settled' = settled \cup ToSet(SubSeq(entries, 1, n))
      /\ entries' = SubSeq(entries, n + 1, Len(entries))
      /\ UNCHANGED <<fileVars, watchVars, handleVars, pc, statSize, position,
                     cancelled, truncVars, noteVars, read, overflowed>>

SendEnds ==
  /\ pc = "send"
  /\ entries = <<>>
  /\ pc' = "select"
  /\ UNCHANGED <<fileVars, watchVars, handleVars, scanVars, cancelled, historyVars>>

(* SendLogs returns ctx.Err(): the rest of the entries is dropped.         *)
SendCancelled ==
  /\ pc = "send"
  /\ cancelled
  /\ entries' = <<>>
  /\ pc' = "select"
  /\ UNCHANGED <<fileVars, watchVars, handleVars, statSize, position, cancelled,
                 historyVars>>

Cancel ==
  /\ ~cancelled
  /\ cancelled' = TRUE
  /\ UNCHANGED <<fileVars, watchVars, handleVars, pc, scanVars, historyVars>>

(* select may still choose an event when the context is done.              *)
RunReturns ==
  /\ pc = "select"
  /\ cancelled
  /\ pc' = "returned"
  /\ UNCHANGED <<fileVars, watchVars, handleVars, scanVars, cancelled, historyVars>>

(* The agent dies and is started again, with what the path names by then.  *)
Restart ==
  /\ events' = <<>>
  /\ watched' = NoFile
  /\ handle' = NoFile
  /\ offset' = 0
  /\ pc' = "open"
  /\ statSize' = 0
  /\ position' = 0
  /\ entries' = <<>>
  /\ cancelled' = FALSE
  /\ shrunk' = FALSE
  /\ missed' = FALSE
  /\ old' = {}
  /\ unnoticed' = 1..written
  /\ strayed' = {}
  /\ read' = {}
  /\ overflowed' = {}
  /\ settled' = {}
  /\ UNCHANGED fileVars

Tailer ==
  \/ OpenPath
  \/ StatPath
  \/ AddWatch
  \/ HandleCreate
  \/ Reopen
  \/ Rewatch
  \/ HandleRename
  \/ HandleWrite
  \/ OpenToRead
  \/ StatFile
  \/ ScanLine
  \/ ScanEnds
  \/ SendChunk
  \/ SendEnds
  \/ SendCancelled
  \/ RunReturns

Next ==
  \/ Tailer
  \/ WriteLine
  \/ TruncateFile
  \/ RenameFile
  \/ CreateFile
  \/ Cancel
  \/ Restart

Spec == Init /\ [][Next]_vars

(* The goroutine is scheduled, and each chunk is answered in the end.      *)
FairSpec == Spec /\ WF_vars(Tailer)

-----------------------------------------------------------------------------
(* Types of the files, the tailer's maps and locals and the histories.     *)
TypeOK ==
  /\ written \in 0..MaxLines
  /\ content \in [Gen -> Seq(Line)]
  /\ newest \in Gen
  /\ current \in {newest, NoFile}
  /\ events \in Seq({"write", "rename", "create"})
  /\ watched \in 0..MaxGens
  /\ handle \in 0..MaxGens
  /\ offset \in 0..MaxLines
  /\ pc \in {"open", "stat", "add", "select", "reopen", "rewatch", "lookup", "read",
             "scan", "send", "returned"}
  /\ pc \in {"stat", "add", "rewatch", "read", "scan"} => handle # NoFile
  /\ statSize \in 0..MaxLines
  /\ position \in 0..MaxLines
  /\ entries \in Seq(Line)
  /\ {cancelled, shrunk, missed} \subseteq BOOLEAN
  /\ {old, unnoticed, strayed, read, overflowed, settled} \subseteq SUBSET Line

(* "Pre-existing content is never read" (openAndSeekEOF): not even after   *)
(* renames, re-opened files and resets of the offset to 0.                 *)
OldIsNeverRead == read \cap old = {}

(* The offset never runs ahead of the reading: each line of the open file  *)
(* before the offset was returned by the Scanner, was there at the start,  *)
(* or stands behind a line too long for the buffer.  The size is read      *)
(* before the lines, so a line written in between is read again and not    *)
(* lost.  The one exception is a truncated file that has grown to its old  *)
(* size before the tailer looked.                                          *)
NoLineIsSkipped ==
  handle # NoFile /\ ~shrunk /\ ~missed /\ pc # "scan" =>
    \A i \in DOMAIN content[handle] :
      i <= offset => content[handle][i] \in read \cup old \cup overflowed

(* No line is forgotten that was written under the watch to the file the   *)
(* tailer has open, with no older rename or creation left to handle: now,  *)
(* wherever its file is, it was read, or the event that leads to it is     *)
(* still to be handled.  Not promised: a line written to a watched file    *)
(* while another file is open, because of a rotation between os.Open and   *)
(* watcher.Add, or none is, or before a queued creation re-opens the path. *)
NoticedIsReadOrQueued ==
  pc # "returned" /\ ~missed =>
    \A g \in Gen : ToSet(content[g]) \subseteq
       old \cup unnoticed \cup strayed \cup read \cup overflowed
       \cup (IF pc \in {"read", "scan"} \/ "write" \in ToSet(events)
               THEN ToSet(content[g]) ELSE {})

(* What the Scanner returned is answered by the server in the end, unless  *)
(* the agent is stopped.                                                   *)
ReadIsSettled ==
  \A l \in Line : l \in read ~> l \in settled \/ cancelled \/ read = {}
=============================================================================
