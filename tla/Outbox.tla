------------------------------- MODULE Outbox -------------------------------
(***************************************************************************)
(* What the agent's two goroutines, the retry loop and the ingest handlers *)
(* amount to: a bounded first-in first-out outbox.  Each batch is stored   *)
(* at least once before it leaves the outbox, unless it is refused; a      *)
(* newcomer is lost when BufSize batches wait; a stop loses the head.      *)
(* Agent is shown to implement it.                                         *)
(***************************************************************************)
EXTENDS Integers, Sequences

CONSTANTS BufSize, MaxBatches

VARIABLES
  offered,  \* number of batches offered
  pending,  \* batches accepted and not settled, oldest first
  database, \* batches stored at least once
  refused,  \* batches that left the outbox without a confirmation
  lost      \* batches never accepted

vars == <<offered, pending, database, refused, lost>>

Init ==
  /\ offered = 0
  /\ pending = <<>>
  /\ database = {}
  /\ refused = {}
  /\ lost = {}

(* The batch being sent does not occupy the buffer.                        *)
Offer ==
  /\ offered < MaxBatches
  /\ offered' = offered + 1
  /\ \/ /\ Len(pending) <= BufSize
        /\ pending' = Append(pending, offered')
        /\ UNCHANGED lost
     \/ /\ Len(pending) >= BufSize
        /\ lost' = lost \cup {offered'}
        /\ UNCHANGED pending
  /\ UNCHANGED <<database, refused>>

(* The oldest batch is stored; once more if it was stored already.         *)
Store ==
  /\ pending # <<>>
  /\ database' = database \cup {Head(pending)}
  /\ UNCHANGED <<offered, pending, refused, lost>>

Confirm ==
  /\ pending # <<>>
  /\ Head(pending) \in database
  /\ pending' = Tail(pending)
  /\ UNCHANGED <<offered, database, refused, lost>>

(* The oldest batch is rejected, or given up at shutdown.                  *)
Refuse ==
  /\ pending # <<>>
  /\ refused' = refused \cup {Head(pending)}
  /\ pending' = Tail(pending)
  /\ UNCHANGED <<offered, database, lost>>

(* A request for a refused batch may still be on its way.                  *)
StoreLate ==
  /\ \E b \in refused : database' = database \cup {b}
  /\ UNCHANGED <<offered, pending, refused, lost>>

Next == Offer \/ Store \/ Confirm \/ Refuse \/ StoreLate

Spec == Init /\ [][Next]_vars
=============================================================================
