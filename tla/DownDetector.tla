---------------------------- MODULE DownDetector ----------------------------
(***************************************************************************)
(* What storage.HostTracker promises the code around it, without its maps, *)
(* its ticker and its scans: a silence of a host that has lasted DownAfter *)
(* may become owed a report, each silence at most once; owed reports are   *)
(* made in any order, even if the host is back by then.  HostTracker is    *)
(* shown to implement it.                                                  *)
(***************************************************************************)
EXTENDS Integers

CONSTANTS Hosts, DownAfter, MaxTime

VARIABLES
  now,    \* the clock
  hosts,  \* time of the last heartbeat of each host, -1 for none
  owed,   \* silences whose report is due
  alarms  \* silences reported

vars == <<now, hosts, owed, alarms>>

Init ==
  /\ now = 0
  /\ hosts = [h \in Hosts |-> -1]
  /\ owed = {}
  /\ alarms = {}

TimePasses ==
  /\ now < MaxTime
  /\ now' = now + 1
  /\ UNCHANGED <<hosts, owed, alarms>>

Beat(h) ==
  /\ hosts' = [hosts EXCEPT ![h] = now]
  /\ UNCHANGED <<now, owed, alarms>>

(* The silences that may become due now.                                   *)
Unreported ==
  {<<h, hosts[h]>> : h \in {k \in Hosts : hosts[k] # -1 /\ now - hosts[k] >= DownAfter}}
     \ (owed \cup alarms)

(* Some silences, several hosts at once, become due.                       *)
FallDue ==
  /\ owed' \in SUBSET (owed \cup Unreported)
  /\ owed \subseteq owed'
  /\ UNCHANGED <<now, hosts, alarms>>

Report ==
  /\ \E s \in owed : owed' = owed \ {s} /\ alarms' = alarms \cup {s}
  /\ UNCHANGED <<now, hosts>>

(* A restart forgets the hosts and what is owed, not what was reported.    *)
Forget ==
  /\ hosts' = [h \in Hosts |-> -1]
  /\ owed' = {}
  /\ UNCHANGED <<now, alarms>>

Next ==
  \/ TimePasses
  \/ \E h \in Hosts : Beat(h)
  \/ FallDue
  \/ Report
  \/ Forget

Spec == Init /\ [][Next]_vars
=============================================================================
