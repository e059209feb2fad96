---------------------------- MODULE DurableStore ----------------------------
(***************************************************************************)
(* What LevelDB promises about a write (WriteOptions::sync): once it is    *)
(* acknowledged it survives the end of the process, and it survives the    *)
(* end of the machine too if it was written with sync.  The outcome of a   *)
(* write that was not acknowledged is open.                                *)
(***************************************************************************)
CONSTANT Calls

VARIABLES
  state,    \* none, pending, ok, error, or lost to a crash
  sync,     \* the call asked for sync
  kept,     \* the writes a process crash leaves
  synced    \* the writes a machine crash leaves

vars == <<state, sync, kept, synced>>

Init ==
  /\ state = [c \in Calls |-> "none"]
  /\ sync = [c \in Calls |-> FALSE]
  /\ kept = {} /\ synced = {}

Write(c, s) ==
  /\ state[c] = "none"
  /\ state' = [state EXCEPT ![c] = "pending"]
  /\ sync' = [sync EXCEPT ![c] = s]
  /\ UNCHANGED <<kept, synced>>

\* Writes reach the file system or stable storage.  One of open outcome may do
\* so late, when a reopening finds which of two states the crash left, and one
\* that was rejected may go again with the log that held it.
Keep ==
  /\ \A c \in (kept \ kept') \cup (synced \ synced') : state[c] = "error"
  /\ synced' \subseteq kept' /\ kept' \subseteq Calls
  /\ \A c \in kept' \ kept : state[c] # "none"
  /\ UNCHANGED <<state, sync>>

\* A group of writes returns with one status.
Acknowledge(group) ==
  /\ \A c \in group : state[c] = "pending"
  /\ \A c \in group : c \in IF sync[c] THEN synced ELSE kept
  /\ state' = [c \in Calls |-> IF c \in group THEN "ok" ELSE state[c]]
  /\ UNCHANGED <<sync, kept, synced>>

Reject(group) ==
  /\ \A c \in group : state[c] = "pending"
  /\ state' = [c \in Calls |-> IF c \in group THEN "error" ELSE state[c]]
  /\ UNCHANGED <<sync, kept, synced>>

Forget ==
  /\ state' = [c \in Calls |-> IF state[c] = "pending" THEN "lost"
                               ELSE state[c]]
  /\ UNCHANGED sync

ProcessCrash == Forget /\ UNCHANGED <<kept, synced>>

\* Any part of what was not synced is gone.
MachineCrash ==
  /\ Forget
  /\ synced \subseteq kept' /\ kept' \subseteq kept
  /\ synced' = kept'

Next ==
  \/ \E c \in Calls, s \in BOOLEAN : Write(c, s)
  \/ Keep
  \/ \E group \in SUBSET Calls : Acknowledge(group) \/ Reject(group)
  \/ ProcessCrash \/ MachineCrash

Spec == Init /\ [][Next]_vars

=============================================================================
