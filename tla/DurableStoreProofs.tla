------------------------- MODULE DurableStoreProofs -------------------------
(***************************************************************************)
(* What every implementation of DurableStore owes its clients.             *)
(***************************************************************************)
EXTENDS DurableStore, TLAPS

TypeOK ==
  /\ state \in [Calls -> {"none", "pending", "ok", "error", "lost"}]
  /\ sync \in [Calls -> BOOLEAN]
  /\ kept \subseteq Calls /\ synced \subseteq Calls

\* A write acknowledged with sync is in what a machine crash leaves.
SyncedLast ==
  \A c \in Calls : state[c] = "ok" /\ sync[c] => c \in synced

\* Without machine crashes every acknowledged write is in what is left.
AckedKept == \A c \in Calls : state[c] = "ok" => c \in kept

Inv == TypeOK /\ synced \subseteq kept /\ SyncedLast

\* Inv holds initially and is kept by every step: crashes included, the set of
\* synced writes only grows.
LEMMA InvHolds == Spec => []Inv
<1>1. Init => Inv
  BY DEF Init, Inv, TypeOK, SyncedLast
<1>2. Inv /\ [Next]_vars => Inv'
  <2> SUFFICES ASSUME Inv, [Next]_vars PROVE Inv'
    OBVIOUS
  <2> USE DEF Inv, TypeOK, SyncedLast
  <2>1. ASSUME NEW c \in Calls, NEW s \in BOOLEAN, Write(c, s) PROVE Inv'
    BY <2>1 DEF Write
  <2>2. CASE Keep
    BY <2>2 DEF Keep
  <2>3. ASSUME NEW g \in SUBSET Calls, Acknowledge(g) PROVE Inv'
    BY <2>3 DEF Acknowledge
  <2>4. ASSUME NEW g \in SUBSET Calls, Reject(g) PROVE Inv'
    BY <2>4 DEF Reject
  <2>5. CASE ProcessCrash
    BY <2>5 DEF ProcessCrash, Forget
  <2>6. CASE MachineCrash
    BY <2>6 DEF MachineCrash, Forget
  <2>7. CASE UNCHANGED vars
    BY <2>7 DEF vars
  <2> QED
    BY <2>1, <2>2, <2>3, <2>4, <2>5, <2>6, <2>7 DEF Next
<1> QED
  BY <1>1, <1>2, PTL DEF Spec

\* WriteOptions::sync: once a write with sync is acknowledged, no later crash
\* of process or machine loses it.
THEOREM SyncedWritesLast == Spec => []SyncedLast
<1>1. Inv => SyncedLast
  BY DEF Inv
<1> QED
  BY <1>1, InvHolds, PTL

\* WriteOptions::sync: as long as only processes crash, no acknowledged write
\* is lost, with or without sync.
THEOREM AckedWritesLast ==
  Init /\ [][Next /\ ~MachineCrash]_vars => [](AckedKept)
<1> DEFINE Both == Inv /\ AckedKept
<1>1. Init => Both
  BY DEF Init, Inv, TypeOK, SyncedLast, AckedKept
<1>2. Both /\ [Next /\ ~MachineCrash]_vars => Both'
  <2> SUFFICES ASSUME Both, [Next /\ ~MachineCrash]_vars PROVE Both'
    OBVIOUS
  <2> USE DEF Inv, TypeOK, SyncedLast, AckedKept
  <2>1. ASSUME NEW c \in Calls, NEW s \in BOOLEAN, Write(c, s) PROVE Both'
    BY <2>1 DEF Write
  <2>2. CASE Keep
    BY <2>2 DEF Keep
  <2>3. ASSUME NEW g \in SUBSET Calls, Acknowledge(g) PROVE Both'
    BY <2>3 DEF Acknowledge
  <2>4. ASSUME NEW g \in SUBSET Calls, Reject(g) PROVE Both'
    BY <2>4 DEF Reject
  <2>5. CASE ProcessCrash
    BY <2>5 DEF ProcessCrash, Forget
  <2>6. CASE UNCHANGED vars
    BY <2>6 DEF vars
  <2> QED
    BY <2>1, <2>2, <2>3, <2>4, <2>5, <2>6 DEF Next
<1>3. Both => AckedKept
  OBVIOUS
<1> QED
  BY <1>1, <1>2, <1>3, PTL
=============================================================================
