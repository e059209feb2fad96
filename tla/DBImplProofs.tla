---------------------------- MODULE DBImplProofs ----------------------------
(***************************************************************************)
(* Proofs about LevelDB's write path and recovery, for any number of       *)
(* calls, files, crashes and failures and any sizes of the memtables and   *)
(* of level 0.                                                             *)
(***************************************************************************)
EXTENDS DBImpl, SequenceTheorems, FiniteSetTheorems, TLAPS

-----------------------------------------------------------------------------
(* The inductive invariant: the queue of writers.                          *)

Writing == {"log", "sync", "insert", "finish"}
FrontPhases == {"front", "bgwait"} \cup Writing
QueuePhases == {"queued"} \cup FrontPhases
Group == [size : Nat, entries : SUBSET Entry, last : Nat, ok : BOOLEAN,
          sync_error : BOOLEAN]

\* The queue holds each call inside Write once and only the first one works;
\* nothing is under way unless the database is open.
QueueInv ==
  /\ call \in [Calls -> CallState]
  /\ writers \in Seq(Calls)
  /\ group \in Group
  /\ \A i, j \in DOMAIN writers : writers[i] = writers[j] => i = j
  /\ \A i \in DOMAIN writers : call[writers[i]].pc \in QueuePhases
  /\ \A c \in Calls : call[c].pc \in QueuePhases =>
       \E i \in DOMAIN writers : writers[i] = c
  /\ \A i \in DOMAIN writers : i = 1 <=> call[writers[i]].pc # "queued"
  /\ \A c \in Calls : call[c].pc \in {"immcheck", "immwait"} => ~call[c].batch
  /\ \A c \in Calls : call[c].pc \in InFlight => call[c].result = "none"
  /\ \A c \in Calls : call[c].pc = "idle" => ~call[c].batch
  /\ db # "open" => \A c \in Calls : call[c].pc \notin InFlight

-----------------------------------------------------------------------------
(* The files.                                                              *)

LogEntries(n) ==
  UNION {log[n].records[i].entries : i \in DOMAIN log[n].records}

\* What recovery from a version can find, the records after a torn one too.
Findable(m) ==
  InTables(m) \cup UNION {LogEntries(n) : n \in {k \in DOMAIN log : k >= m.log_number}}

\* Everything that counts, in memory or on disk.
Live == mem \cup imm \cup UNION {Findable(m) : m \in Manifests}

FileTypes ==
  /\ mem \subseteq Entry /\ imm \subseteq Entry /\ has_imm \in BOOLEAN
  /\ logfile_number \in Nat /\ last_sequence \in Nat
  /\ next_file_number \in 0..MaxFileNumber
  /\ current \in Version /\ manifest \in Version /\ manifest_edit \subseteq Version
  /\ bg \in [pc : {"none", "scheduled", "flush", "compact", "apply", "install"},
             number : Nat, files : SUBSET Nat, level0 : SUBSET Nat]
  /\ bg_error \in BOOLEAN
  /\ db \in {"closed", "recovering", "applying", "open", "closing"}
  /\ log \in [DOMAIN log -> Log] /\ DOMAIN log \subseteq 0..(MaxFileNumber - 1)
  /\ \A n \in DOMAIN log : log[n].synced <= Len(log[n].records)
  /\ tables \in [DOMAIN tables -> SUBSET Entry] /\ DOMAIN tables \subseteq Nat
  /\ \A n \in DOMAIN tables : tables[n] # {}
  /\ recovery \in [logs : SUBSET Nat, files : SUBSET Nat]

\* A version has its tables, older than its next number and its last sequence.
VersionOK(m) ==
  /\ m.files \subseteq DOMAIN tables /\ m.level0 \subseteq m.files
  /\ m.log_number < m.next_file
  /\ \A f \in m.files :
       f < m.next_file /\ \A e \in tables[f] : e.seq <= m.last_sequence

VersionsOK == \A m \in Manifests : VersionOK(m)

\* Before the database is open its memory is empty; from Recover on the
\* installed version is the one of the MANIFEST.
Installed ==
  /\ db # "closed" =>
       /\ current = manifest
       /\ current.next_file <= next_file_number
       /\ current.last_sequence <= last_sequence
  /\ db \in {"closed", "recovering", "applying"} =>
       mem = {} /\ imm = {} /\ ~has_imm /\ bg.pc = "none" /\ ~bg_error
  /\ db # "recovering" => recovery.logs = {}

\* Recovery has turned the logs it has read into tables with new numbers.
Recovering ==
  db = "recovering" =>
    /\ manifest_edit = {}
    /\ \A n \in recovery.logs : n \in DOMAIN log /\ n >= current.log_number
    /\ \A f \in recovery.files :
         /\ f \in DOMAIN tables /\ f < next_file_number
         /\ \A e \in tables[f] : e \in Findable(current) /\ e.seq <= last_sequence
    /\ \A n \in DOMAIN log \ recovery.logs :
         /\ n < next_file_number
         /\ n >= current.log_number =>
              Readable(log[n], Len(log[n].records)) \subseteq
                UNION {tables[f] : f \in recovery.files}

\* The new log is empty and the newest one.
Applying ==
  db = "applying" =>
    \E e \in manifest_edit :
      /\ manifest_edit = {e}
      /\ e.log_number = logfile_number /\ e.next_file = next_file_number
      /\ e.last_sequence = last_sequence
      /\ logfile_number \in DOMAIN log /\ log[logfile_number].records = <<>>
      /\ \A n \in DOMAIN log : n <= logfile_number

\* The edit on its way to the MANIFEST names everything the installed version
\* does, and a flush the memtable as well.
EditOK(e) ==
  /\ e.log_number <= logfile_number /\ e.next_file <= next_file_number
  /\ e.last_sequence <= last_sequence
  /\ bg.pc = "apply" =>
       /\ InTables(current) \cup imm \subseteq InTables(e)
       /\ e.log_number = logfile_number
  /\ bg.pc = "install" =>
       /\ InTables(current) \subseteq InTables(e)
       /\ e.log_number = current.log_number

Running ==
  db \in {"open", "closing"} =>
    /\ logfile_number \in DOMAIN log /\ logfile_number < next_file_number
    /\ \A n \in DOMAIN log : n <= logfile_number
    /\ current.log_number <= logfile_number
    /\ manifest_edit # {} =>
         \E e \in manifest_edit :
           /\ manifest_edit = {e} /\ EditOK(e)
           /\ bg.pc \in {"apply", "install"} \/ (bg.pc = "none" /\ bg_error)
    /\ bg.pc \in {"apply", "install"} => manifest_edit # {}
    /\ bg.pc \in {"flush", "apply"} => has_imm
    /\ ~has_imm => imm = {}
    /\ \A e \in imm : e.seq <= last_sequence
    /\ bg.pc \in {"flush", "compact"} =>
         bg.number < next_file_number /\ bg.number \notin current.files
    /\ bg.pc = "compact" => bg.level0 \subseteq current.level0
    /\ bg.pc = "flush" => bg.level0 = {}

FileInv ==
  FileTypes /\ VersionsOK /\ Installed /\ Recovering /\ Applying /\ Running

-----------------------------------------------------------------------------
(* The entries.                                                            *)

\* The group under way holds the batches of the first writers, numbered after
\* the last sequence number; once logged they are in the log.
GroupInv ==
  \A c \in Calls : call[c].pc \in Writing =>
    /\ call[c].batch
    /\ group.size \in 1..Len(writers)
    /\ CallsOf(group.entries) =
         {writers[i] : i \in {j \in 1..group.size : call[writers[j]].batch}}
    /\ \A i \in 1..group.size : call[writers[i]].sync => call[c].sync
    /\ group.last >= last_sequence
    /\ \A e \in group.entries : last_sequence < e.seq /\ e.seq <= group.last
    /\ \A d, e \in group.entries : d.seq = e.seq => d = e
    /\ group.sync_error => ~group.ok
    /\ call[c].pc # "finish" => group.ok
    /\ call[c].pc # "log" /\ group.ok =>
         group.entries \subseteq LogEntries(logfile_number)
    /\ call[c].pc = "finish" /\ group.ok => group.entries \subseteq mem

InGroup(e) ==
  /\ \E c \in Calls : call[c].pc \in Writing \ {"log"}
  /\ e \in group.entries

Failed(e) ==
  call[e.call].pc = "returned" /\ call[e.call].result = "error"

LiveUnique == \A d, e \in Live : d.seq = e.seq => d = e

LiveBelow ==
  db = "open" => \A e \in Live : e.seq <= last_sequence \/ InGroup(e)

LiveCalls == \A e \in Live : call[e.call].batch

\* What the logs in use hold is in a memtable or a table, unless its group is
\* still under way or failed after its record was written.
MemHolds ==
  db = "open" =>
    /\ \A e \in LogEntries(logfile_number) : e \in mem \/ InGroup(e) \/ Failed(e)
    /\ \A n \in DOMAIN log :
         current.log_number <= n /\ n < logfile_number =>
           \A e \in LogEntries(n) : e \in imm \cup InTables(current) \/ Failed(e)

EntryInv == GroupInv /\ LiveUnique /\ LiveBelow /\ LiveCalls /\ MemHolds

IInv == QueueInv /\ FileInv /\ EntryInv

-----------------------------------------------------------------------------
(* Steps of the queue.                                                     *)

\* What is left of a sequence without its first n elements.
LEMMA RestOfSeq ==
  ASSUME NEW S, NEW w \in Seq(S), NEW n \in 1..Len(w)
  PROVE  LET r == SubSeq(w, n + 1, Len(w)) IN
         /\ r \in Seq(S) /\ Len(r) = Len(w) - n /\ DOMAIN r = 1..(Len(w) - n)
         /\ \A i \in 1..(Len(w) - n) : r[i] = w[n + i]
         /\ r # <<>> <=> n < Len(w)
         /\ r # <<>> => Head(r) = w[n + 1]
<1> DEFINE r == SubSeq(w, n + 1, Len(w))
<1>1. /\ Len(w) \in Nat /\ n \in Nat /\ n <= Len(w)
      /\ \A i \in (n + 1)..Len(w) : w[i] \in S
  BY LenProperties, ElementOfSeq
<1>2. /\ r \in Seq(S)
      /\ Len(r) = IF n + 1 <= Len(w) THEN Len(w) - (n + 1) + 1 ELSE 0
      /\ \A i \in 1..(Len(w) - (n + 1) + 1) : r[i] = w[(n + 1) + i - 1]
  BY <1>1, SubSeqProperties
<1> HIDE DEF r
<1>3. Len(r) = Len(w) - n
  BY <1>1, <1>2
<1>4. ASSUME NEW i \in 1..(Len(w) - n) PROVE r[i] = w[n + i]
  <2>1. i \in 1..(Len(w) - (n + 1) + 1) /\ (n + 1) + i - 1 = n + i
    BY <1>1
  <2> QED
    BY <1>2, <2>1
<1>5. DOMAIN r = 1..Len(r)
  BY <1>2, LenProperties
<1>6. r # <<>> <=> n < Len(w)
  BY <1>1, <1>2, <1>3, EmptySeq
<1>7. r # <<>> => Head(r) = w[n + 1]
  BY <1>1, <1>3, <1>4, <1>6
<1>8. /\ r \in Seq(S) /\ Len(r) = Len(w) - n /\ DOMAIN r = 1..(Len(w) - n)
      /\ \A i \in 1..(Len(w) - n) : r[i] = w[n + i]
      /\ r # <<>> <=> n < Len(w)
      /\ r # <<>> => Head(r) = w[n + 1]
  BY <1>2, <1>3, <1>4, <1>5, <1>6, <1>7
<1> QED
  BY <1>8 DEF r

\* The queue as a function.
LEMMA WritersShape ==
  ASSUME QueueInv
  PROVE  /\ Len(writers) \in Nat /\ DOMAIN writers = 1..Len(writers)
         /\ \A i \in DOMAIN writers : writers[i] \in Calls
         /\ writers # <<>> => 1 \in DOMAIN writers /\ Head(writers) = writers[1]
<1>1. writers \in Seq(Calls)
  BY DEF QueueInv
<1>2. Len(writers) \in Nat /\ DOMAIN writers = 1..Len(writers)
  BY <1>1, LenProperties
<1>3. \A i \in DOMAIN writers : writers[i] \in Calls
  BY <1>1, <1>2, ElementOfSeq
<1>4. writers # <<>> => 1 \in DOMAIN writers /\ Head(writers) = writers[1]
  BY <1>1, <1>2, EmptySeq
<1> QED
  BY <1>2, <1>3, <1>4

\* Only the first writer works, in an open database.
LEMMA FrontWriter ==
  ASSUME QueueInv, NEW c \in Calls, call[c].pc \in FrontPhases
  PROVE  /\ writers # <<>> /\ 1 \in DOMAIN writers
         /\ c = writers[1] /\ c = Head(writers) /\ db = "open"
         /\ \A d \in Calls : call[d].pc \in FrontPhases => d = c
<1>1. ASSUME NEW d \in Calls, call[d].pc \in FrontPhases
      PROVE  1 \in DOMAIN writers /\ d = writers[1]
  <2>1. PICK i \in DOMAIN writers : writers[i] = d
    BY <1>1 DEF QueueInv, QueuePhases
  <2>2. i = 1
    BY <1>1, <2>1 DEF QueueInv, FrontPhases, Writing
  <2> QED
    BY <2>1, <2>2
<1>2. 1 \in DOMAIN writers /\ c = writers[1]
  BY <1>1
<1>3. writers # <<>>
  BY <1>2
<1>4. db = "open"
  BY DEF QueueInv, FrontPhases, Writing, InFlight
<1> QED
  BY <1>1, <1>2, <1>3, <1>4, WritersShape

\* The first writer goes on: nobody else moves.
LEMMA FrontMoves ==
  ASSUME QueueInv, NEW c \in Calls, call[c].pc \in FrontPhases,
         NEW r \in CallState, call' = [call EXCEPT ![c] = r],
         r.pc \in FrontPhases, r.result = "none", 
         UNCHANGED <<writers, db>>, group' \in Group
  PROVE  QueueInv'
<1>1. c = writers[1] /\ db = "open"
  BY FrontWriter
<1>2. /\ call' \in [Calls -> CallState]
      /\ \A d \in Calls : call'[d] = IF d = c THEN r ELSE call[d]
  BY DEF QueueInv
<1>3. \A i \in DOMAIN writers : (writers[i] = c) <=> (i = 1)
  BY <1>1, FrontWriter DEF QueueInv
<1>4. \A i \in DOMAIN writers : writers[i] \in Calls
  BY WritersShape
<1>5. /\ r.pc # "queued" /\ r.pc # "idle" /\ r.pc \notin {"immcheck", "immwait"}
      /\ r.pc \in QueuePhases
  BY DEF FrontPhases, Writing, QueuePhases
<1>6. \A i \in DOMAIN writers : call'[writers[i]].pc \in QueuePhases
  BY <1>2, <1>4, <1>5 DEF QueueInv
<1>7. \A d \in Calls : call'[d].pc \in QueuePhases =>
        \E i \in DOMAIN writers : writers[i] = d
  BY <1>1, <1>2, FrontWriter DEF QueueInv
<1>8. \A i \in DOMAIN writers : i = 1 <=> call'[writers[i]].pc # "queued"
  BY <1>2, <1>3, <1>4, <1>5 DEF QueueInv
<1>9. \A d \in Calls :
        /\ call'[d].pc \in {"immcheck", "immwait"} => ~call'[d].batch
        /\ call'[d].pc \in InFlight => call'[d].result = "none"
        /\ call'[d].pc = "idle" => ~call'[d].batch
  BY <1>2, <1>5 DEF QueueInv
<1> QED
  BY <1>1, <1>2, <1>6, <1>7, <1>8, <1>9 DEF QueueInv

\* A call joins the queue at its end.
LEMMA WriterJoins ==
  ASSUME QueueInv, NEW c \in Calls, NEW r \in Requests, WriteCall(c, r)
  PROVE  /\ QueueInv'
         /\ Len(writers') = Len(writers) + 1
         /\ DOMAIN writers \subseteq DOMAIN writers'
         /\ \A i \in DOMAIN writers : writers'[i] = writers[i] /\ writers[i] # c
         /\ \A d \in Calls : d # c => call'[d] = call[d]
         /\ call'[c].batch = r.batch /\ call'[c].sync = r.sync
         /\ call'[c].pc \in {"front", "queued"} /\ call[c].pc = "idle"
<1> DEFINE q == [pc |-> IF writers = <<>> THEN "front" ELSE "queued",
                 batch |-> r.batch, sync |-> r.sync, force |-> ~r.batch,
                 allow_delay |-> r.batch, result |-> "none"]
<1>1. /\ db = "open" /\ call[c].pc = "idle" /\ writers' = Append(writers, c)
      /\ call' = [call EXCEPT ![c] = q] /\ UNCHANGED <<group, db>>
  BY DEF WriteCall, openVars
<1>2. r.batch \in BOOLEAN /\ r.sync \in BOOLEAN
  BY DBImplAssumption
<1>3. q \in CallState
  BY <1>2 DEF CallState, Phases, InFlight
<1>4. /\ q.batch = r.batch /\ q.sync = r.sync /\ q.result = "none"
      /\ q.pc = IF writers = <<>> THEN "front" ELSE "queued"
  OBVIOUS
<1> HIDE DEF q
<1>5. /\ call' \in [Calls -> CallState] /\ call'[c] = q
      /\ \A d \in Calls : d # c => call'[d] = call[d]
  BY <1>1, <1>3 DEF QueueInv
<1>6. /\ writers' \in Seq(Calls) /\ Len(writers') = Len(writers) + 1
      /\ writers'[Len(writers) + 1] = c
      /\ \A i \in 1..Len(writers) : writers'[i] = writers[i]
      /\ DOMAIN writers' = 1..(Len(writers) + 1)
      /\ writers = <<>> <=> Len(writers) = 0
  BY <1>1, AppendProperties, LenProperties, EmptySeq DEF QueueInv
<1>7. \A i \in DOMAIN writers : writers[i] # c /\ writers[i] \in Calls
  BY <1>1, WritersShape DEF QueueInv, QueuePhases, FrontPhases, Writing
<1>8. Len(writers) \in Nat /\ DOMAIN writers = 1..Len(writers)
  BY WritersShape
<1>9. \A i, j \in DOMAIN writers' : writers'[i] = writers'[j] => i = j
  BY <1>6, <1>7, <1>8 DEF QueueInv
<1>10. \A i \in DOMAIN writers' :
         /\ call'[writers'[i]].pc \in QueuePhases
         /\ i = 1 <=> call'[writers'[i]].pc # "queued"
  <2> SUFFICES ASSUME NEW i \in DOMAIN writers'
               PROVE  /\ call'[writers'[i]].pc \in QueuePhases
                      /\ i = 1 <=> call'[writers'[i]].pc # "queued"
    OBVIOUS
  <2>1. CASE i \in DOMAIN writers
    BY <1>5, <1>6, <1>7, <1>8, <2>1 DEF QueueInv
  <2>2. CASE i = Len(writers) + 1
    BY <1>4, <1>5, <1>6, <1>8, <2>2 DEF QueuePhases, FrontPhases
  <2> QED
    BY <1>6, <1>8, <2>1, <2>2
<1>11. \A d \in Calls : call'[d].pc \in QueuePhases =>
         \E i \in DOMAIN writers' : writers'[i] = d
  BY <1>5, <1>6, <1>8 DEF QueueInv
<1>12. \A d \in Calls :
         /\ call'[d].pc \in {"immcheck", "immwait"} => ~call'[d].batch
         /\ call'[d].pc \in InFlight => call'[d].result = "none"
         /\ call'[d].pc = "idle" => ~call'[d].batch
  BY <1>4, <1>5 DEF QueueInv
<1>13. QueueInv'
  BY <1>1, <1>5, <1>6, <1>9, <1>10, <1>11, <1>12 DEF QueueInv
<1> QED
  BY <1>1, <1>4, <1>5, <1>6, <1>7, <1>8, <1>13

\* bg_cv_.SignalAll wakes the waiting calls and does nothing else.
Woken(c, calls) ==
  /\ calls[c] \in CallState
  /\ calls[c].batch = call[c].batch /\ calls[c].sync = call[c].sync
  /\ calls[c].result = call[c].result
  /\ calls[c].pc = IF call[c].pc = "bgwait" THEN "front"
                   ELSE IF call[c].pc = "immwait" THEN "immcheck"
                   ELSE call[c].pc

\* bg_cv_.SignalAll wakes the calls that wait on it and changes no other.
LEMMA Signalled ==
  ASSUME QueueInv
  PROVE  /\ SignalAll(call) \in [Calls -> CallState]
         /\ \A c \in Calls : Woken(c, SignalAll(call))
<1>1. ASSUME NEW c \in Calls PROVE Woken(c, SignalAll(call))
  <2>1. call[c] \in CallState
    BY DEF QueueInv
  <2>2. SignalAll(call)[c] =
          IF call[c].pc = "bgwait" THEN [call[c] EXCEPT !.pc = "front"]
          ELSE IF call[c].pc = "immwait" THEN [call[c] EXCEPT !.pc = "immcheck"]
          ELSE call[c]
    BY DEF SignalAll
  <2>3. {"front", "immcheck"} \subseteq Phases
    BY DEF Phases, InFlight
  <2> QED
    BY <2>1, <2>2, <2>3 DEF Woken, CallState
<1>2. \A c \in Calls : SignalAll(call)[c] \in CallState
  BY <1>1 DEF Woken
<1> QED
  BY <1>1, <1>2 DEF SignalAll

\* Waking calls keeps the queue.
LEMMA WakingKeepsQueue ==
  ASSUME QueueInv, call' = SignalAll(call), UNCHANGED <<writers, group, db>>
  PROVE  QueueInv'
<1>1. /\ call' \in [Calls -> CallState]
      /\ \A c \in Calls :
           /\ call'[c].batch = call[c].batch /\ call'[c].result = call[c].result
           /\ call'[c].pc = IF call[c].pc = "bgwait" THEN "front"
                            ELSE IF call[c].pc = "immwait" THEN "immcheck"
                            ELSE call[c].pc
  BY Signalled DEF Woken
<1>2. \A c \in Calls : /\ call'[c].pc \in QueuePhases <=> call[c].pc \in QueuePhases
                       /\ call'[c].pc = "queued" <=> call[c].pc = "queued"
                       /\ call'[c].pc \in {"immcheck", "immwait"} <=>
                            call[c].pc \in {"immcheck", "immwait"}
                       /\ call'[c].pc \in InFlight <=> call[c].pc \in InFlight
                       /\ call'[c].pc = "idle" <=> call[c].pc = "idle"
  BY <1>1 DEF QueuePhases, FrontPhases, Writing, InFlight
<1>3. \A i \in DOMAIN writers : writers[i] \in Calls
  BY WritersShape
<1> QED
  BY <1>1, <1>2, <1>3 DEF QueueInv

\* The first n writers leave with one status, the next one is the new front.
LEMMA WritersLeave ==
  ASSUME QueueInv, NEW calls \in [Calls -> CallState],
         \/ calls = call
         \/ \A c \in Calls : Woken(c, calls),
         NEW n \in 1..Len(writers), NEW ok \in BOOLEAN,
         Finish(calls, n, ok), db = "open", db' = db
  PROVE  /\ QueueInv'
         /\ \A c \in Calls : call'[c].pc \notin Writing
         /\ \A c \in Calls : /\ call'[c].batch = call[c].batch
                             /\ call'[c].sync = call[c].sync
         /\ \A i \in 1..n : call[writers[i]].batch =>
              /\ call'[writers[i]].pc = "returned"
              /\ call'[writers[i]].result = IF ok THEN "ok" ELSE "error"
         /\ \A i \in 1..n : ~call[writers[i]].batch =>
              call'[writers[i]].pc \in {"immcheck", "returned"}
         /\ \A c \in Calls : (\A i \in 1..n : writers[i] # c) =>
              /\ call'[c].result = call[c].result
              /\ call'[c].pc \in InFlight <=> call[c].pc \in InFlight
              /\ call[c].pc \notin InFlight => call'[c].pc = call[c].pc
<1> DEFINE leaving == {writers[i] : i \in 1..n}
           rest == SubSeq(writers, n + 1, Len(writers))
           gone(c) == [calls[c] EXCEPT
                         !.pc = IF ok /\ ~calls[c].batch THEN "immcheck"
                                ELSE "returned",
                         !.result = IF ~ok THEN "error"
                                    ELSE IF calls[c].batch THEN "ok" ELSE "none"]
           next(c) == [calls[c] EXCEPT !.pc = "front"]
<1>1. /\ writers' = rest /\ group' = NoGroup
      /\ call' = [c \in Calls |-> IF c \in leaving THEN gone(c)
                                  ELSE IF rest # <<>> /\ c = Head(rest)
                                  THEN next(c) ELSE calls[c]]
  BY DEF Finish
<1>2. /\ Len(writers) \in Nat /\ DOMAIN writers = 1..Len(writers)
      /\ \A i \in DOMAIN writers : writers[i] \in Calls
      /\ n \in Nat /\ n >= 1 /\ n <= Len(writers)
  BY WritersShape
<1>3. ASSUME NEW c \in Calls
      PROVE  /\ calls[c] \in CallState
             /\ calls[c].batch = call[c].batch /\ calls[c].sync = call[c].sync
             /\ calls[c].result = call[c].result
             /\ calls[c].pc \in FrontPhases <=> call[c].pc \in FrontPhases
             /\ calls[c].pc = "queued" <=> call[c].pc = "queued"
             /\ calls[c].pc \in {"immcheck", "immwait"} <=>
                  call[c].pc \in {"immcheck", "immwait"}
             /\ calls[c].pc \in InFlight <=> call[c].pc \in InFlight
             /\ calls[c].pc = "idle" <=> call[c].pc = "idle"
             /\ call[c].pc \notin InFlight => calls[c].pc = call[c].pc
  <2>1. CASE calls = call
    BY <2>1
  <2>2. CASE Woken(c, calls)
    BY <2>2 DEF Woken, FrontPhases, Writing, InFlight
  <2> QED
    BY <2>1, <2>2
<1>4. {"front", "immcheck", "returned"} \subseteq Phases
  BY DEF Phases, InFlight
<1>5. \A c \in Calls :
        /\ gone(c) \in CallState
        /\ gone(c).pc = IF ok /\ ~call[c].batch THEN "immcheck" ELSE "returned"
        /\ gone(c).result = IF ~ok THEN "error"
                            ELSE IF call[c].batch THEN "ok" ELSE "none"
        /\ gone(c).batch = call[c].batch /\ gone(c).sync = call[c].sync
        /\ next(c) \in CallState
        /\ next(c).pc = "front" /\ next(c).result = call[c].result
        /\ next(c).batch = call[c].batch /\ next(c).sync = call[c].sync
  BY <1>3, <1>4, ZenonT(60) DEF CallState
<1>6. /\ rest \in Seq(Calls) /\ Len(rest) = Len(writers) - n
      /\ \A i \in 1..(Len(writers) - n) : rest[i] = writers[n + i]
  BY RestOfSeq DEF QueueInv
<1>7. /\ DOMAIN rest = 1..(Len(writers) - n)
      /\ rest # <<>> <=> n < Len(writers)
      /\ rest # <<>> => Head(rest) = writers[n + 1]
  BY RestOfSeq DEF QueueInv
<1> HIDE DEF rest, gone, next
<1>8. \A i \in DOMAIN writers : writers[i] \in leaving <=> i <= n
  BY <1>2 DEF QueueInv
<1>9. /\ call' \in [Calls -> CallState]
      /\ \A c \in Calls :
           call'[c] = IF c \in leaving THEN gone(c)
                      ELSE IF rest # <<>> /\ c = Head(rest) THEN next(c)
                      ELSE calls[c]
  BY <1>1, <1>3, <1>5
<1>10. \A i \in DOMAIN rest :
         /\ n + i \in DOMAIN writers /\ n + i > 1 /\ writers'[i] = writers[n + i]
         /\ writers[n + i] \notin leaving
         /\ rest # <<>>
         /\ writers[n + i] = Head(rest) <=> i = 1
  <2> SUFFICES ASSUME NEW i \in DOMAIN rest
               PROVE  /\ n + i \in DOMAIN writers /\ n + i > 1
                      /\ writers'[i] = writers[n + i]
                      /\ writers[n + i] \notin leaving
                      /\ rest # <<>>
                      /\ writers[n + i] = Head(rest) <=> i = 1
    OBVIOUS
  <2>1. /\ n + i \in DOMAIN writers /\ n + i > 1 /\ writers'[i] = writers[n + i]
        /\ i \in Nat /\ i >= 1
    BY <1>1, <1>2, <1>6, <1>7
  <2>2. writers[n + i] \notin leaving
    BY <1>2, <1>8, <2>1
  <2>3. rest # <<>> /\ n + 1 \in DOMAIN writers
    BY <1>2, <1>7, <2>1
  <2>4. writers[n + i] = writers[n + 1] <=> n + i = n + 1
    BY <2>1, <2>3 DEF QueueInv
  <2> QED
    BY <1>2, <1>7, <2>1, <2>2, <2>3, <2>4
<1>11. \A i, j \in DOMAIN writers' : writers'[i] = writers'[j] => i = j
  <2> SUFFICES ASSUME NEW i \in DOMAIN rest, NEW j \in DOMAIN rest,
                      writers'[i] = writers'[j]
               PROVE  i = j
    BY <1>1
  <2>1. n + i = n + j
    BY <1>10 DEF QueueInv
  <2> QED
    BY <1>2, <1>7, <2>1
<1>12. \A i \in DOMAIN writers' :
         /\ call'[writers'[i]].pc \in QueuePhases
         /\ i = 1 <=> call'[writers'[i]].pc # "queued"
  <2> SUFFICES ASSUME NEW i \in DOMAIN rest
               PROVE  /\ call'[writers[n + i]].pc \in QueuePhases
                      /\ i = 1 <=> call'[writers[n + i]].pc # "queued"
    BY <1>1, <1>10
  <2>1. call[writers[n + i]].pc = "queued" /\ writers[n + i] \in Calls
    BY <1>2, <1>10 DEF QueueInv
  <2>2. CASE i = 1
    BY <1>5, <1>9, <1>10, <2>1, <2>2 DEF QueuePhases, FrontPhases
  <2>3. CASE i # 1
    BY <1>3, <1>9, <1>10, <2>1, <2>3 DEF QueuePhases
  <2> QED
    BY <2>2, <2>3
<1>13. \A c \in Calls : call'[c].pc \in QueuePhases =>
         \E i \in DOMAIN writers' : writers'[i] = c
  <2> SUFFICES ASSUME NEW c \in Calls, call'[c].pc \in QueuePhases
               PROVE  \E i \in DOMAIN rest : writers'[i] = c
    BY <1>1
  <2>1. c \notin leaving
    BY <1>5, <1>9 DEF QueuePhases, FrontPhases, Writing
  <2>2. CASE rest # <<>> /\ c = Head(rest)
    BY <1>1, <1>2, <1>6, <1>7, <2>2
  <2>3. CASE ~(rest # <<>> /\ c = Head(rest))
    <3>1. call[c].pc \in QueuePhases
      BY <1>3, <1>9, <2>1, <2>3 DEF QueuePhases
    <3>2. PICK i \in DOMAIN writers : writers[i] = c
      BY <3>1 DEF QueueInv
    <3>3. i - n \in DOMAIN rest /\ n + (i - n) = i
      BY <1>2, <1>7, <1>8, <2>1, <3>2, SMTT(60)
    <3> QED
      BY <1>10, <3>2, <3>3
  <2> QED
    BY <2>2, <2>3
<1>14. \A c \in Calls :
         /\ call'[c].pc \in {"immcheck", "immwait"} => ~call'[c].batch
         /\ call'[c].pc = "idle" => ~call'[c].batch
  <2> SUFFICES ASSUME NEW c \in Calls
               PROVE  /\ call'[c].pc \in {"immcheck", "immwait"} => ~call'[c].batch
                      /\ call'[c].pc = "idle" => ~call'[c].batch
    OBVIOUS
  <2>1. CASE c \in leaving
    BY <1>5, <1>9, <2>1
  <2>2. CASE c \notin leaving /\ rest # <<>> /\ c = Head(rest)
    BY <1>5, <1>9, <2>2
  <2>3. CASE c \notin leaving /\ ~(rest # <<>> /\ c = Head(rest))
    BY <1>3, <1>9, <2>3 DEF QueueInv
  <2> QED
    BY <2>1, <2>2, <2>3
<1>15. \A c \in Calls : call'[c].pc \in InFlight => call'[c].result = "none"
  <2> SUFFICES ASSUME NEW c \in Calls, call'[c].pc \in InFlight
               PROVE  call'[c].result = "none"
    OBVIOUS
  <2>1. CASE c \in leaving
    BY <1>5, <1>9, <2>1 DEF InFlight
  <2>2. CASE c \notin leaving /\ rest # <<>> /\ c = Head(rest)
    <3>1. call[c].pc \in InFlight
      <4>1. n + 1 \in DOMAIN writers /\ c = writers[n + 1]
        BY <1>2, <1>7, <2>2
      <4> QED
        BY <4>1 DEF QueueInv, QueuePhases, FrontPhases, Writing, InFlight
    <3> QED
      BY <1>5, <1>9, <2>2, <3>1 DEF QueueInv
  <2>3. CASE c \notin leaving /\ ~(rest # <<>> /\ c = Head(rest))
    BY <1>3, <1>9, <2>3 DEF QueueInv
  <2> QED
    BY <2>1, <2>2, <2>3
<1>16. QueueInv'
  <2>1. group' \in Group
    BY <1>1 DEF NoGroup, Group
  <2> QED
    BY <1>1, <1>6, <1>9, <1>11, <1>12, <1>13, <1>14, <1>15, <2>1 DEF QueueInv
<1>17. ASSUME NEW c \in Calls PROVE call'[c].pc \notin Writing
  <2>1. CASE c \in leaving
    BY <1>5, <1>9, <2>1 DEF Writing
  <2>2. CASE c \notin leaving /\ rest # <<>> /\ c = Head(rest)
    BY <1>5, <1>9, <2>2 DEF Writing
  <2>3. CASE c \notin leaving /\ ~(rest # <<>> /\ c = Head(rest))
    <3>1. call[c].pc \notin FrontPhases
      <4>1. 1 \in 1..n
        BY <1>2
      <4> QED
        BY <2>3, <4>1, FrontWriter
    <3> QED
      BY <1>3, <1>9, <2>3, <3>1 DEF FrontPhases
  <2> QED
    BY <2>1, <2>2, <2>3
<1>18. ASSUME NEW c \in Calls
       PROVE  call'[c].batch = call[c].batch /\ call'[c].sync = call[c].sync
  BY <1>3, <1>5, <1>9
<1>19. ASSUME NEW i \in 1..n
       PROVE  /\ call[writers[i]].batch =>
                   /\ call'[writers[i]].pc = "returned"
                   /\ call'[writers[i]].result = IF ok THEN "ok" ELSE "error"
              /\ ~call[writers[i]].batch =>
                   call'[writers[i]].pc \in {"immcheck", "returned"}
  <2>1. writers[i] \in leaving /\ writers[i] \in Calls
    BY <1>2
  <2> QED
    BY <1>5, <1>9, <2>1
<1>20. ASSUME NEW c \in Calls, \A i \in 1..n : writers[i] # c
       PROVE  /\ call'[c].result = call[c].result
              /\ call'[c].pc \in InFlight <=> call[c].pc \in InFlight
              /\ call[c].pc \notin InFlight => call'[c].pc = call[c].pc
  <2>1. c \notin leaving
    BY <1>20
  <2>2. CASE rest # <<>> /\ c = Head(rest)
    <3>1. n + 1 \in DOMAIN writers /\ c = writers[n + 1]
      BY <1>2, <1>7, <2>2
    <3>2. call[c].pc \in InFlight
      BY <3>1 DEF QueueInv, QueuePhases, FrontPhases, Writing, InFlight
    <3> QED
      BY <1>5, <1>9, <2>1, <2>2, <3>2 DEF InFlight
  <2>3. CASE ~(rest # <<>> /\ c = Head(rest))
    BY <1>3, <1>9, <2>1, <2>3
  <2> QED
    BY <2>2, <2>3
<1> QED
  BY <1>16, <1>17, <1>18, <1>19, <1>20

\* A call of TEST_CompactMemTable, outside the queue, goes on.
LEMMA OutsiderMoves ==
  ASSUME QueueInv, NEW c \in Calls, call[c].pc = "immcheck",
         NEW r \in CallState, call' = [call EXCEPT ![c] = r],
         r.batch = call[c].batch,
         r.pc = "returned" \/ (r.pc = "immwait" /\ r.result = call[c].result),
         UNCHANGED <<writers, group, db>>
  PROVE  QueueInv'
<1>1. /\ call' \in [Calls -> CallState]
      /\ \A d \in Calls : call'[d] = IF d = c THEN r ELSE call[d]
  BY DEF QueueInv
<1>2. /\ call[c].pc \in InFlight /\ call[c].pc \notin QueuePhases
      /\ r.pc \notin QueuePhases /\ r.pc # "idle"
      /\ ~r.batch /\ (r.pc \in InFlight => r.result = "none")
  BY DEF InFlight, QueuePhases, FrontPhases, Writing, QueueInv
<1>3. \A i \in DOMAIN writers : writers[i] # c /\ writers[i] \in Calls
  BY <1>2, WritersShape DEF QueueInv
<1>4. db = "open"
  BY <1>2 DEF QueueInv
<1> QED
  BY <1>1, <1>2, <1>3, <1>4 DEF QueueInv

\* When the process ends every call under way is lost.
LEMMA ForgetQueue ==
  ASSUME QueueInv, Forget
  PROVE  /\ QueueInv'
         /\ \A c \in Calls :
              /\ call'[c].batch = call[c].batch /\ call'[c].sync = call[c].sync
              /\ call'[c].result = call[c].result
              /\ call'[c].pc = IF call[c].pc \in InFlight THEN "lost"
                               ELSE call[c].pc
<1>1. /\ writers' = <<>> /\ group' = NoGroup /\ db' = "closed"
      /\ call' = [c \in Calls |-> IF call[c].pc \in InFlight
                                  THEN [call[c] EXCEPT !.pc = "lost"] ELSE call[c]]
  BY DEF Forget
<1>2. "lost" \in Phases /\ "lost" \notin InFlight /\ QueuePhases \subseteq InFlight
      /\ {"immcheck", "immwait"} \subseteq InFlight
  BY DEF Phases, InFlight, QueuePhases, FrontPhases, Writing
<1>3. ASSUME NEW c \in Calls
      PROVE  /\ call'[c] \in CallState
             /\ call'[c].batch = call[c].batch /\ call'[c].sync = call[c].sync
             /\ call'[c].result = call[c].result
             /\ call'[c].pc = IF call[c].pc \in InFlight THEN "lost" ELSE call[c].pc
  <2>1. call[c] \in CallState
    BY DEF QueueInv
  <2> QED
    BY <1>1, <1>2, <2>1 DEF CallState
<1>4. call' \in [Calls -> CallState]
  BY <1>1, <1>3
<1>5. writers' \in Seq(Calls) /\ DOMAIN writers' = {} /\ group' \in Group
  BY <1>1 DEF NoGroup, Group
<1>6. \A c \in Calls : call'[c].pc \notin InFlight
  BY <1>2, <1>3
<1>7. \A c \in Calls : call'[c].pc = "idle" => ~call'[c].batch
  BY <1>2, <1>3 DEF QueueInv
<1>8. QueueInv'
  BY <1>2, <1>4, <1>5, <1>6, <1>7 DEF QueueInv
<1> QED
  BY <1>3, <1>8

\* The updates of a group have numbers of their own, all after the last one.
LEMMA UpdatesNumbered ==
  ASSUME QueueInv, last_sequence \in Nat, NEW n \in 1..Len(writers)
  PROVE  /\ Updates(n) \subseteq Entry
         /\ Cardinality(Updates(n)) \in Nat
         /\ CallsOf(Updates(n)) =
              {writers[i] : i \in {j \in 1..n : call[writers[j]].batch}}
         /\ \A e \in Updates(n) :
              /\ last_sequence < e.seq
              /\ e.seq <= last_sequence + Cardinality(Updates(n))
         /\ \A d, e \in Updates(n) : d.seq = e.seq => d = e
<1> DEFINE batches == {i \in 1..n : call[writers[i]].batch}
           upto(i) == {j \in batches : j <= i}
           f == [i \in batches |-> [seq |-> last_sequence + Cardinality(upto(i)),
                                    call |-> writers[i]]]
<1>1. /\ Len(writers) \in Nat /\ DOMAIN writers = 1..Len(writers) /\ n \in Nat
      /\ \A i \in 1..n : i \in DOMAIN writers /\ writers[i] \in Calls
  BY WritersShape
<1>2. IsFiniteSet(batches) /\ batches \subseteq 1..n
  <2>1. IsFiniteSet(1..n)
    BY <1>1, FS_Interval
  <2> QED
    BY <2>1, FS_Subset
<1>3. \A i \in batches : /\ IsFiniteSet(upto(i)) /\ Cardinality(upto(i)) \in Nat
                         /\ Cardinality(upto(i)) <= Cardinality(batches)
                         /\ Cardinality(upto(i)) > 0
  <2> SUFFICES ASSUME NEW i \in batches
               PROVE  /\ IsFiniteSet(upto(i)) /\ Cardinality(upto(i)) \in Nat
                      /\ Cardinality(upto(i)) <= Cardinality(batches)
                      /\ Cardinality(upto(i)) > 0
    OBVIOUS
  <2>1. IsFiniteSet(upto(i)) /\ Cardinality(upto(i)) <= Cardinality(batches)
    BY <1>2, FS_Subset
  <2>2. Cardinality(upto(i)) \in Nat
    BY <2>1, FS_CardinalityType
  <2>3. i \in upto(i)
    BY <1>2
  <2>4. Cardinality(upto(i)) # 0
    BY <2>1, <2>3, FS_EmptySet
  <2> QED
    BY <2>1, <2>2, <2>4
<1>4. ASSUME NEW i \in batches, NEW j \in batches, i < j
      PROVE  Cardinality(upto(i)) # Cardinality(upto(j))
  <2>1. upto(i) \in SUBSET upto(j) /\ i \in Nat /\ j \in Nat
    BY <1>2, <1>4
  <2>2. j \in upto(j) /\ j \notin upto(i)
    BY <1>4, <2>1
  <2>3. upto(i) # upto(j)
    BY <2>2
  <2> QED
    BY <1>3, <2>1, <2>3, FS_Subset
<1>5. \A i, j \in batches : Cardinality(upto(i)) = Cardinality(upto(j)) => i = j
  <2>1. \A i, j \in batches : i < j \/ j < i \/ i = j
    BY <1>2
  <2> QED
    BY <1>4, <2>1
<1>6. Updates(n) = {f[i] : i \in batches}
  BY DEF Updates
<1>7. Cardinality(Updates(n)) = Cardinality(batches) /\ Cardinality(batches) \in Nat
  <2>1. \A i, j \in batches : f[i] = f[j] => i = j
    <3>1. \A i \in batches : f[i].call = writers[i]
      OBVIOUS
    <3> QED
      BY <1>1, <1>2, <3>1 DEF QueueInv
  <2>2. f \in [batches -> Updates(n)] /\ \A u \in Updates(n) : \E i \in batches : f[i] = u
    BY <1>6
  <2> HIDE DEF f
  <2>3. f \in Injection(batches, Updates(n)) /\ f \in Surjection(batches, Updates(n))
    BY <2>1, <2>2 DEF Injection, Surjection, IsInjective
  <2>4. Cardinality(Updates(n)) = Cardinality(batches)
    BY <1>2, <2>3, FS_Surjection
  <2> QED
    BY <1>2, <2>4, FS_CardinalityType
<1>8. \A i \in batches : f[i].seq = last_sequence + Cardinality(upto(i))
                         /\ f[i].call = writers[i] /\ writers[i] \in Calls
  BY <1>1, <1>2
<1>9. Updates(n) \subseteq Entry
  <2> SUFFICES ASSUME NEW i \in batches PROVE f[i] \in Entry
    BY <1>6
  <2>1. f[i] = [seq |-> last_sequence + Cardinality(upto(i)), call |-> writers[i]]
    OBVIOUS
  <2> HIDE DEF f, upto, batches
  <2>2. last_sequence + Cardinality(upto(i)) \in Nat /\ writers[i] \in Calls
    BY <1>3, <1>8
  <2> QED
    BY <2>1, <2>2 DEF Entry
<1> HIDE DEF f, batches, upto
<1>10. CallsOf(Updates(n)) = {writers[i] : i \in batches}
  BY <1>6, <1>8 DEF CallsOf
<1>11. \A e \in Updates(n) : /\ last_sequence < e.seq
                             /\ e.seq <= last_sequence + Cardinality(Updates(n))
  <2> SUFFICES ASSUME NEW i \in batches
               PROVE  /\ last_sequence < f[i].seq
                      /\ f[i].seq <= last_sequence + Cardinality(Updates(n))
    BY <1>6
  <2> QED
    BY <1>3, <1>7, <1>8
<1>12. \A d, e \in Updates(n) : d.seq = e.seq => d = e
  <2> SUFFICES ASSUME NEW i \in batches, NEW j \in batches, f[i].seq = f[j].seq
               PROVE  f[i] = f[j]
    BY <1>6
  <2>1. Cardinality(upto(i)) = Cardinality(upto(j))
    BY <1>3, <1>8
  <2> QED
    BY <1>5, <2>1
<1> QED
  BY <1>7, <1>9, <1>10, <1>11, <1>12 DEF batches

\* A step of the first writer inside Write that does not end it.
LEMMA FrontStep ==
  ASSUME QueueInv, FileTypes, NEW c \in Calls,
         \/ RoomDelay(c) \/ RoomBatch(c) \/ RoomWait(c) \/ RoomSwitch(c)
         \/ AddRecord(c) \/ AddRecordFails(c) \/ AddRecordTears(c)
         \/ SyncLog(c) \/ SyncLogFails(c) \/ InsertInto(c)
  PROVE  /\ QueueInv' /\ call[c].pc \in FrontPhases
         /\ UNCHANGED <<writers, db>>
         /\ call'[c].batch = call[c].batch /\ call'[c].sync = call[c].sync
         /\ call'[c].pc \in FrontPhases /\ call'[c].result = call[c].result
         /\ \A d \in Calls : d # c => call'[d] = call[d]
<1>1. call[c] \in CallState /\ group \in Group
  BY DEF QueueInv
<1>2. /\ {"front", "bgwait", "log", "sync", "insert", "finish"} \subseteq Phases
      /\ FrontPhases \subseteq Phases
      /\ FrontPhases = {"front", "bgwait", "log", "sync", "insert", "finish"}
  BY DEF Phases, InFlight, FrontPhases, Writing
<1>3. \E r \in CallState :
        /\ call' = [call EXCEPT ![c] = r]
        /\ r.pc \in FrontPhases /\ r.result = call[c].result
        /\ r.batch = call[c].batch /\ r.sync = call[c].sync
  <2>1. CASE RoomDelay(c)
    <3> DEFINE r == [call[c] EXCEPT !.allow_delay = FALSE]
    <3>1. /\ r \in CallState /\ r.pc = call[c].pc /\ r.result = call[c].result
          /\ r.batch = call[c].batch /\ r.sync = call[c].sync
      BY <1>1 DEF CallState
    <3>2. call' = [call EXCEPT ![c] = r] /\ call[c].pc = "front"
      BY <2>1 DEF RoomDelay, AtFront
    <3> HIDE DEF r
    <3> QED
      BY <1>2, <3>1, <3>2
  <2>2. CASE RoomSwitch(c)
    <3> DEFINE r == [call[c] EXCEPT !.force = FALSE]
    <3>1. /\ r \in CallState /\ r.pc = call[c].pc /\ r.result = call[c].result
          /\ r.batch = call[c].batch /\ r.sync = call[c].sync
      BY <1>1 DEF CallState
    <3>2. call' = [call EXCEPT ![c] = r] /\ call[c].pc = "front"
      BY <2>2 DEF RoomSwitch, MustSwitch, AtFront
    <3> HIDE DEF r
    <3> QED
      BY <1>2, <3>1, <3>2
  <2>3. CASE \/ RoomBatch(c) \/ RoomWait(c)
             \/ AddRecord(c) \/ AddRecordFails(c) \/ AddRecordTears(c)
             \/ SyncLog(c) \/ SyncLogFails(c) \/ InsertInto(c)
    <3>1. PICK p \in FrontPhases : call' = [call EXCEPT ![c].pc = p]
      BY <1>2, <2>3
      DEF RoomBatch, RoomWait, AddRecord, AddRecordFails, AddRecordTears,
          SyncLog, SyncLogFails, InsertInto
    <3> DEFINE r == [call[c] EXCEPT !.pc = p]
    <3>2. /\ r \in CallState /\ r.pc = p /\ r.result = call[c].result
          /\ r.batch = call[c].batch /\ r.sync = call[c].sync
      BY <1>1, <1>2 DEF CallState
    <3>3. call' = [call EXCEPT ![c] = r]
      BY <3>1
    <3> HIDE DEF r
    <3> QED
      BY <1>2, <3>1, <3>2, <3>3
  <2> QED
    BY <2>1, <2>2, <2>3
<1>4. PICK r \in CallState :
        /\ call' = [call EXCEPT ![c] = r]
        /\ r.pc \in FrontPhases /\ r.result = call[c].result
        /\ r.batch = call[c].batch /\ r.sync = call[c].sync
  BY <1>3
<1>5. call[c].pc \in FrontPhases
  BY <1>2
  DEF RoomDelay, RoomBatch, RoomWait, RoomSwitch, MustSwitch, AtFront,
      AddRecord, AddRecordFails, AddRecordTears, SyncLog, SyncLogFails,
      InsertInto
<1>6. call[c].result = "none"
  BY <1>5 DEF QueueInv, FrontPhases, Writing, InFlight
<1>7. UNCHANGED <<writers, db>>
  BY DEF RoomDelay, RoomBatch, RoomWait, RoomSwitch, AddRecord,
         AddRecordFails, AddRecordTears, SyncLog, SyncLogFails, InsertInto,
         openVars
<1>8. group' \in Group
  <2>1. CASE RoomBatch(c)
    <3>1. PICK n \in GroupSizes :
            group' = [size |-> n, entries |-> Updates(n),
                      last |-> last_sequence + Cardinality(Updates(n)),
                      ok |-> TRUE, sync_error |-> FALSE]
      BY <2>1 DEF RoomBatch
    <3>2. n \in 1..Len(writers) /\ last_sequence \in Nat
      BY DEF GroupSizes, FileTypes
    <3>3. Updates(n) \subseteq Entry /\ Cardinality(Updates(n)) \in Nat
      BY <3>2, UpdatesNumbered
    <3>4. n \in Nat /\ last_sequence + Cardinality(Updates(n)) \in Nat
      BY <3>2, <3>3, WritersShape
    <3> QED
      BY <3>1, <3>3, <3>4 DEF Group
  <2>2. CASE AddRecordFails(c) \/ AddRecordTears(c) \/ SyncLogFails(c)
    BY <1>1, <2>2 DEF AddRecordFails, AddRecordTears, SyncLogFails, Group
  <2>3. CASE UNCHANGED group
    BY <1>1, <2>3
  <2> QED
    BY <2>1, <2>2, <2>3
    DEF RoomDelay, RoomWait, RoomSwitch, AddRecord, SyncLog, InsertInto
<1>9. QueueInv'
  BY <1>4, <1>5, <1>6, <1>7, <1>8, FrontMoves
<1>10. /\ call'[c] = r /\ \A d \in Calls : d # c => call'[d] = call[d]
  BY <1>4 DEF QueueInv
<1> QED
  BY <1>4, <1>5, <1>7, <1>9, <1>10

\* Every step keeps the queue.
LEMMA QueueStep ==
  ASSUME IInv, [Next]_vars
  PROVE  QueueInv'
<1>0. QueueInv /\ FileTypes /\ GroupInv
  BY DEF IInv, FileInv, EntryInv
<1>1. ASSUME NEW c \in Calls, NEW r \in Requests, WriteCall(c, r) PROVE QueueInv'
  BY <1>0, <1>1, WriterJoins
<1>2. ASSUME NEW c \in Calls, AtFront(c), NEW ok \in BOOLEAN, Finish(call, 1, ok),
             UNCHANGED db
      PROVE  QueueInv'
  <2>1. call[c].pc = "front" /\ writers # <<>>
    BY <1>2 DEF AtFront
  <2>2. db = "open" /\ 1 \in 1..Len(writers)
    BY <1>0, <2>1, FrontWriter, WritersShape DEF FrontPhases
  <2>3. call \in [Calls -> CallState]
    BY <1>0 DEF QueueInv
  <2> QED
    BY <1>0, <1>2, <2>2, <2>3, WritersLeave
<1>3. ASSUME NEW c \in Calls,
             RoomError(c) \/ RoomNoBatch(c) \/ RoomSwitchFails(c)
      PROVE  QueueInv'
  <2>1. AtFront(c) /\ UNCHANGED db
    BY <1>3
    DEF RoomError, RoomNoBatch, RoomSwitchFails, MustSwitch, openVars
  <2>2. Finish(call, 1, TRUE) \/ Finish(call, 1, FALSE)
    BY <1>3 DEF RoomError, RoomNoBatch, RoomSwitchFails
  <2> QED
    BY <1>2, <2>1, <2>2
<1>4. ASSUME NEW c \in Calls, FinishWrite(c) PROVE QueueInv'
  <2> DEFINE calls == IF group.sync_error /\ ~bg_error THEN SignalAll(call)
                      ELSE call
  <2>1. Finish(calls, group.size, group.ok) /\ call[c].pc = "finish" /\ UNCHANGED db
    BY <1>4 DEF FinishWrite, openVars
  <2>2. group.size \in 1..Len(writers) /\ group.ok \in BOOLEAN
    BY <1>0, <2>1 DEF GroupInv, Writing, QueueInv, Group
  <2>3. db = "open"
    BY <1>0, <2>1, FrontWriter DEF FrontPhases, Writing
  <2>4. /\ calls \in [Calls -> CallState]
        /\ calls = call \/ \A d \in Calls : Woken(d, calls)
    BY <1>0, Signalled DEF QueueInv
  <2> HIDE DEF calls
  <2> QED
    BY <1>0, <2>1, <2>2, <2>3, <2>4, WritersLeave
<1>5. ASSUME NEW c \in Calls,
             \/ RoomDelay(c) \/ RoomBatch(c) \/ RoomWait(c) \/ RoomSwitch(c)
             \/ AddRecord(c) \/ AddRecordFails(c) \/ AddRecordTears(c)
             \/ SyncLog(c) \/ SyncLogFails(c) \/ InsertInto(c)
      PROVE  QueueInv'
  BY <1>0, <1>5, FrontStep
<1>6. ASSUME NEW c \in Calls, CompactMemTableWaits(c) PROVE QueueInv'
  <2> DEFINE r == [call[c] EXCEPT !.pc = "immwait"]
  <2>1. /\ call[c].pc = "immcheck" /\ call' = [call EXCEPT ![c] = r]
        /\ UNCHANGED <<writers, group, db>>
    BY <1>6 DEF CompactMemTableWaits, openVars
  <2>2. call[c] \in CallState /\ "immwait" \in Phases
    BY <1>0 DEF QueueInv, Phases, InFlight
  <2>3. /\ r \in CallState /\ r.pc = "immwait" /\ r.result = call[c].result
        /\ r.batch = call[c].batch
    BY <2>2 DEF CallState
  <2> HIDE DEF r
  <2> QED
    BY <1>0, <2>1, <2>3, OutsiderMoves
<1>7. ASSUME NEW c \in Calls, CompactMemTableReturns(c) PROVE QueueInv'
  <2> DEFINE r == [call[c] EXCEPT !.pc = "returned",
                                  !.result = IF has_imm THEN "error" ELSE "ok"]
  <2>1. /\ call[c].pc = "immcheck" /\ call' = [call EXCEPT ![c] = r]
        /\ UNCHANGED <<writers, group, db>>
    BY <1>7 DEF CompactMemTableReturns, openVars
  <2>2. call[c] \in CallState /\ "returned" \in Phases
    BY <1>0 DEF QueueInv, Phases
  <2>3. r \in CallState /\ r.pc = "returned" /\ r.batch = call[c].batch
    BY <2>2 DEF CallState
  <2> HIDE DEF r
  <2> QED
    BY <1>0, <2>1, <2>3, OutsiderMoves
<1>8. CASE \/ BackgroundNothing \/ TableFails \/ LogAndApply \/ LogAndApplyFails
  <2>1. call' = SignalAll(call) /\ UNCHANGED <<writers, group, db>>
    BY <1>8
    DEF BackgroundNothing, TableFails, LogAndApply, LogAndApplyFails,
        BackgroundDone, openVars
  <2> QED
    BY <1>0, <2>1, WakingKeepsQueue
<1>9. CASE Closed \/ ProcessCrash \/ MachineCrash \/ OpenFails
  BY <1>0, <1>9, ForgetQueue DEF Closed, ProcessCrash, MachineCrash, OpenFails
<1>10. CASE \/ BackgroundStart \/ TableBuilt \/ Recover \/ RecoverLogFile
            \/ OpenLog \/ Opened \/ UNCHANGED vars
  <2>1. UNCHANGED <<call, writers, group>>
    BY <1>10
    DEF BackgroundStart, TableBuilt, Recover, RecoverLogFile, OpenLog, Opened,
        vars
  <2>2. db' # "open" => db # "open"
    BY <1>10
    DEF BackgroundStart, TableBuilt, Recover, RecoverLogFile, OpenLog, Opened,
        vars, openVars
  <2> QED
    BY <1>0, <2>1, <2>2 DEF QueueInv
<1>11. CASE Close
  BY <1>0, <1>11 DEF Close, QueueInv
<1> QED
  BY <1>1, <1>3, <1>4, <1>5, <1>6, <1>7, <1>8, <1>9, <1>10, <1>11
  DEF Next, CallStep, Background, Open

-----------------------------------------------------------------------------
(* Steps of the files.                                                     *)

fileVars == <<mem, imm, has_imm, logfile_number, last_sequence,
              next_file_number, current, bg, bg_error, db, recovery, log,
              tables, manifest, manifest_edit>>

\* What an edit is judged by.
LEMMA EditStays ==
  ASSUME NEW e, EditOK(e),
         UNCHANGED <<imm, logfile_number, last_sequence, next_file_number,
                     current, bg, tables>>
  PROVE  EditOK(e)'
  BY DEF EditOK, InTables

\* A step that touches no file and no number.
LEMMA FilesUntouched ==
  ASSUME FileInv, UNCHANGED fileVars
  PROVE  FileInv'
<1>1. FileTypes'
  BY DEF FileInv, FileTypes, fileVars
<1>2. VersionsOK'
  BY DEF FileInv, VersionsOK, VersionOK, Manifests, fileVars
<1>3. Installed'
  BY DEF FileInv, Installed, fileVars
<1>4. Recovering'
  BY DEF FileInv, Recovering, Findable, InTables, LogEntries, Readable, fileVars
<1>5. Applying'
  BY DEF FileInv, Applying, fileVars
<1>6. Running'
  BY DEF FileInv, Running, EditOK, InTables, fileVars
<1> QED
  BY <1>1, <1>2, <1>3, <1>4, <1>5, <1>6 DEF FileInv

\* The entries of the memtables and the last sequence number grow in an open
\* database.
LEMMA FilesGrow ==
  ASSUME FileInv, db = "open", mem' \subseteq Entry, last_sequence' \in Nat,
         last_sequence' >= last_sequence, bg_error' \in BOOLEAN,
         bg_error => bg_error',
         UNCHANGED <<imm, has_imm, logfile_number, next_file_number, current,
                     bg, db, recovery, log, tables, manifest, manifest_edit>>
  PROVE  FileInv'
<1>1. FileTypes'
  BY DEF FileInv, FileTypes
<1>2. VersionsOK'
  BY DEF FileInv, VersionsOK, VersionOK, Manifests
<1>3. /\ current \in Version /\ last_sequence \in Nat /\ manifest_edit \subseteq Version
      /\ imm \subseteq Entry
  BY DEF FileInv, FileTypes
<1>4. Installed'
  BY <1>3 DEF FileInv, Installed, Version
<1>5. Recovering' /\ Applying'
  BY DEF Recovering, Applying
<1>6. \A e \in manifest_edit : EditOK(e) => EditOK(e)'
  BY <1>3 DEF EditOK, InTables, Version
<1>7. \A e \in imm : e.seq <= last_sequence => e.seq <= last_sequence'
  BY <1>3 DEF Entry
<1>8. Running'
  BY <1>6, <1>7 DEF FileInv, Running
<1> QED
  BY <1>1, <1>2, <1>4, <1>5, <1>8 DEF FileInv

\* Only the log being written changes.
LEMMA FilesLogged ==
  ASSUME FileInv, db = "open", NEW l \in Log, l.synced <= Len(l.records),
         log' = [log EXCEPT ![logfile_number] = l],
         UNCHANGED <<mem, imm, has_imm, logfile_number, last_sequence,
                     next_file_number, current, bg, bg_error, db, recovery,
                     tables, manifest, manifest_edit>>
  PROVE  FileInv'
<1>1. /\ DOMAIN log' = DOMAIN log /\ log \in [DOMAIN log -> Log]
      /\ \A n \in DOMAIN log : log'[n] = IF n = logfile_number THEN l ELSE log[n]
  BY DEF FileInv, FileTypes
<1>2. FileTypes'
  <2>1. log' \in [DOMAIN log' -> Log] /\ DOMAIN log' \subseteq 0..(MaxFileNumber - 1)
    BY <1>1 DEF FileInv, FileTypes
  <2>2. \A n \in DOMAIN log' : log'[n].synced <= Len(log'[n].records)
    BY <1>1 DEF FileInv, FileTypes
  <2> QED
    BY <2>1, <2>2 DEF FileInv, FileTypes
<1>3. VersionsOK'
  BY DEF FileInv, VersionsOK, VersionOK, Manifests
<1>4. Installed'
  BY DEF FileInv, Installed
<1>5. Recovering' /\ Applying'
  BY DEF Recovering, Applying
<1>6. \A e : EditOK(e) => EditOK(e)'
  BY EditStays
<1>7. Running'
  BY <1>1, <1>6 DEF FileInv, Running
<1> QED
  BY <1>2, <1>3, <1>4, <1>5, <1>7 DEF FileInv

\* A new log is empty.
LEMMA LogCreated ==
  ASSUME FileTypes, NEW k \in 0..(MaxFileNumber - 1),
         log' = [n \in DOMAIN log \cup {k} |->
                   IF n = k THEN [records |-> <<>>, synced |-> 0] ELSE log[n]]
  PROVE  /\ DOMAIN log' = DOMAIN log \cup {k} /\ log'[k].records = <<>>
         /\ \A n \in DOMAIN log : n # k => log'[n] = log[n]
         /\ log' \in [DOMAIN log' -> Log] /\ DOMAIN log' \subseteq 0..(MaxFileNumber - 1)
         /\ \A n \in DOMAIN log' : log'[n].synced <= Len(log'[n].records)
<1> DEFINE none == [records |-> <<>>, synced |-> 0]
<1>1. none \in Log /\ none.synced <= Len(none.records) /\ none.records = <<>>
  BY EmptySeq DEF Log
<1> HIDE DEF none
<1>2. /\ DOMAIN log' = DOMAIN log \cup {k} /\ log'[k] = none
      /\ \A n \in DOMAIN log : n # k => log'[n] = log[n]
      /\ log' = [n \in DOMAIN log' |-> log'[n]]
  BY DEF none
<1>3. /\ \A n \in DOMAIN log : log[n] \in Log /\ log[n].synced <= Len(log[n].records)
      /\ DOMAIN log \subseteq 0..(MaxFileNumber - 1)
  BY DEF FileTypes
<1>4. \A n \in DOMAIN log' : log'[n] \in Log /\ log'[n].synced <= Len(log'[n].records)
  BY <1>1, <1>2, <1>3
<1>5. log' \in [DOMAIN log' -> Log] /\ DOMAIN log' \subseteq 0..(MaxFileNumber - 1)
  BY <1>2, <1>3, <1>4
<1> QED
  BY <1>1, <1>2, <1>4, <1>5

\* MakeRoomForWrite switches to a new memtable and a new log.
LEMMA FilesSwitched ==
  ASSUME IInv, NEW c \in Calls, RoomSwitch(c)
  PROVE  FileInv'
<1>1. /\ FileInv /\ LiveBelow
      /\ call[c].pc = "front" /\ ~has_imm /\ ~bg_error
      /\ next_file_number < MaxFileNumber /\ UNCHANGED <<db, recovery>>
      /\ logfile_number' = next_file_number
      /\ next_file_number' = next_file_number + 1
      /\ imm' = mem /\ has_imm' = TRUE /\ mem' = {}
      /\ bg' = IF bg.pc = "none"
               THEN Idle(Schedule(TRUE, current, bg_error, db)) ELSE bg
      /\ log' = [n \in DOMAIN log \cup {next_file_number} |->
                   IF n = next_file_number THEN [records |-> <<>>, synced |-> 0]
                   ELSE log[n]]
      /\ UNCHANGED <<last_sequence, current, bg_error, tables, manifest, manifest_edit>>
  BY DEF IInv, EntryInv, RoomSwitch, MustSwitch, AtFront, openVars
<1>2. db = "open" /\ \A d \in Calls : call[d].pc \notin Writing
  BY <1>1, FrontWriter DEF IInv, FrontPhases, Writing
<1>3. /\ FileTypes /\ VersionsOK /\ Installed /\ Running
      /\ next_file_number \in Nat /\ MaxFileNumber \in Nat
      /\ logfile_number \in Nat /\ logfile_number < next_file_number
      /\ current \in Version /\ manifest_edit \subseteq Version
  <2>1. FileTypes /\ VersionsOK /\ Installed /\ Running
    BY <1>1 DEF FileInv
  <2>2. next_file_number \in Nat /\ MaxFileNumber \in Nat
    BY <2>1, DBImplAssumption DEF FileTypes
  <2>3. /\ logfile_number \in Nat /\ current \in Version
        /\ manifest_edit \subseteq Version
    BY <2>1 DEF FileTypes
  <2> QED
    BY <1>2, <2>1, <2>2, <2>3 DEF Running
<1>4. \A e \in mem : e.seq <= last_sequence
  BY <1>1, <1>2 DEF LiveBelow, Live, InGroup
<1>5. bg'.pc \in {"none", "scheduled", "compact", "install"} /\
      /\ bg' \in [pc : {"none", "scheduled", "flush", "compact", "apply", "install"},
                  number : Nat, files : SUBSET Nat, level0 : SUBSET Nat]
      /\ bg.pc # "none" => bg' = bg
      /\ bg.pc = "none" => bg'.pc \in {"none", "scheduled"}
  <2>1. bg \in [pc : {"none", "scheduled", "flush", "compact", "apply", "install"},
                number : Nat, files : SUBSET Nat, level0 : SUBSET Nat]
    BY <1>3 DEF FileTypes
  <2>2. bg.pc \notin {"flush", "apply"}
    BY <1>1, <1>2, <1>3 DEF Running
  <2>3. CASE bg.pc = "none"
    BY <1>1, <2>3 DEF Idle, Schedule
  <2>4. CASE bg.pc # "none"
    BY <1>1, <2>1, <2>2, <2>4
  <2> QED
    BY <2>3, <2>4
<1>6. /\ DOMAIN log' = DOMAIN log \cup {next_file_number}
      /\ log' \in [DOMAIN log' -> Log] /\ DOMAIN log' \subseteq 0..(MaxFileNumber - 1)
      /\ \A n \in DOMAIN log' : log'[n].synced <= Len(log'[n].records)
  <2>1. next_file_number \in 0..(MaxFileNumber - 1)
    BY <1>1, <1>3
  <2> QED
    BY <1>1, <1>3, <2>1, LogCreated
<1>12. FileTypes'
  <2>1. /\ mem' \subseteq Entry /\ imm' \subseteq Entry /\ has_imm' \in BOOLEAN
        /\ logfile_number' \in Nat /\ last_sequence' \in Nat
        /\ next_file_number' \in 0..MaxFileNumber
    BY <1>1, <1>3 DEF FileTypes
  <2>2. /\ current' \in Version /\ manifest' \in Version /\ manifest_edit' \subseteq Version
        /\ bg_error' \in BOOLEAN
        /\ db' \in {"closed", "recovering", "applying", "open", "closing"}
        /\ tables' \in [DOMAIN tables' -> SUBSET Entry] /\ DOMAIN tables' \subseteq Nat
        /\ \A n \in DOMAIN tables' : tables'[n] # {}
        /\ recovery' \in [logs : SUBSET Nat, files : SUBSET Nat]
    BY <1>1, <1>3 DEF FileTypes
  <2> QED
    BY <1>5, <1>6, <2>1, <2>2 DEF FileTypes
<1>7. VersionsOK'
  BY <1>1, <1>3 DEF VersionsOK, VersionOK, Manifests
<1>8. Installed'
  BY <1>1, <1>2, <1>3 DEF Installed, Version
<1>9. Recovering' /\ Applying'
  BY <1>1, <1>2 DEF Recovering, Applying
<1>10. ASSUME NEW e \in manifest_edit, EditOK(e) PROVE EditOK(e)'
  <2>1. e.log_number \in Nat /\ e.next_file \in Nat
    BY <1>3 DEF Version
  <2>2. e.log_number <= logfile_number' /\ e.next_file <= next_file_number'
        /\ e.last_sequence <= last_sequence'
    BY <1>1, <1>3, <1>10, <2>1 DEF EditOK
  <2>3. bg'.pc # "apply" /\ (bg'.pc = "install" => bg.pc = "install")
    BY <1>5
  <2>4. InTables(current)' = InTables(current) /\ InTables(e)' = InTables(e)
    BY <1>1 DEF InTables
  <2> QED
    BY <1>1, <1>10, <2>2, <2>3, <2>4 DEF EditOK
<1>11. Running'
  <2>1. /\ logfile_number' \in DOMAIN log' /\ logfile_number' < next_file_number'
        /\ \A n \in DOMAIN log' : n <= logfile_number'
        /\ current'.log_number <= logfile_number'
    BY <1>1, <1>2, <1>3, <1>6 DEF Running, FileTypes, Version
  <2>2. manifest_edit' # {} =>
         \E e \in manifest_edit' :
           /\ manifest_edit' = {e} /\ EditOK(e)'
           /\ bg'.pc \in {"apply", "install"} \/ (bg'.pc = "none" /\ bg_error')
    BY <1>1, <1>2, <1>3, <1>5, <1>10 DEF Running
  <2>3. /\ bg'.pc \in {"apply", "install"} => manifest_edit' # {}
        /\ bg'.pc \in {"flush", "apply"} => has_imm'
        /\ ~has_imm' => imm' = {}
        /\ \A e \in imm' : e.seq <= last_sequence'
        /\ bg'.pc = "flush" => bg'.level0 = {}
    BY <1>1, <1>2, <1>3, <1>4, <1>5 DEF Running
  <2>4. /\ bg'.pc \in {"flush", "compact"} =>
             bg'.number < next_file_number' /\ bg'.number \notin current'.files
        /\ bg'.pc = "compact" => bg'.level0 \subseteq current'.level0
    <3>1. bg'.pc = "compact" => bg' = bg
      BY <1>5
    <3>2. bg'.pc = "compact" =>
            /\ bg.number < next_file_number /\ bg.number \notin current.files
            /\ bg.level0 \subseteq current.level0
      BY <1>2, <1>3, <3>1 DEF Running
    <3>3. bg.number < next_file_number => bg.number < next_file_number + 1
      BY <1>3 DEF FileTypes
    <3> QED
      BY <1>1, <1>5, <3>1, <3>2, <3>3
  <2> QED
    BY <2>1, <2>2, <2>3, <2>4 DEF Running
<1> QED
  BY <1>12, <1>7, <1>8, <1>9, <1>11 DEF FileInv

\* The background thread, by what it may be doing.
BgType == [pc : {"none", "scheduled", "flush", "compact", "apply", "install"},
           number : Nat, files : SUBSET Nat, level0 : SUBSET Nat]

\* The background thread when it has nothing to do.
LEMMA IdleType ==
  ASSUME NEW hasImm, NEW version, NEW err, NEW state
  PROVE  /\ Idle(Schedule(hasImm, version, err, state)) \in BgType
         /\ Idle(Schedule(hasImm, version, err, state)).pc \in {"none", "scheduled"}
         /\ err => Idle(Schedule(hasImm, version, err, state)).pc = "none"
  BY DEF Idle, Schedule, BgType

\* The background thread ends and removes no file: it found nothing to do, or
\* it failed and the error keeps the files.
LEMMA FilesBackgroundEnds ==
  ASSUME FileInv, db \in {"open", "closing"}, bg' \in BgType,
         bg'.pc \in {"none", "scheduled"}, bg_error' \in BOOLEAN,
         bg_error => bg_error',
         manifest_edit # {} => bg'.pc = "none" /\ bg_error',
         UNCHANGED <<mem, imm, has_imm, logfile_number, last_sequence,
                     next_file_number, current, db, recovery, log, tables,
                     manifest, manifest_edit>>
  PROVE  FileInv'
<1>1. FileTypes'
  BY DEF FileInv, FileTypes, BgType
<1>2. VersionsOK'
  BY DEF FileInv, VersionsOK, VersionOK, Manifests
<1>3. Installed'
  BY DEF FileInv, Installed
<1>4. Recovering' /\ Applying'
  BY DEF Recovering, Applying
<1>5. \A e \in manifest_edit : EditOK(e) => EditOK(e)'
  BY DEF EditOK
<1>6. Running'
  BY <1>5 DEF FileInv, Running
<1> QED
  BY <1>1, <1>2, <1>3, <1>4, <1>6 DEF FileInv

\* A flush or a compaction starts with a file number nobody has.
LEMMA FilesBackgroundStart ==
  ASSUME FileInv, BackgroundStart
  PROVE  FileInv'
<1>1. /\ bg.pc = "scheduled" /\ db = "open" /\ next_file_number < MaxFileNumber
      /\ \/ has_imm /\ bg' = [Idle("flush") EXCEPT !.number = next_file_number]
         \/ /\ bg' = [Idle("compact") EXCEPT !.number = next_file_number,
                                             !.level0 = current.level0]
      /\ next_file_number' = next_file_number + 1
      /\ UNCHANGED <<mem, imm, has_imm, logfile_number, last_sequence, current,
                     bg_error, db, recovery, log, tables, manifest, manifest_edit>>
  BY DEF BackgroundStart, openVars, diskVars
<1>2. /\ FileTypes /\ VersionsOK /\ Installed /\ Running
  BY DEF FileInv
<1>3. /\ next_file_number \in Nat /\ MaxFileNumber \in Nat /\ current \in Version
      /\ logfile_number \in Nat
  BY <1>2, DBImplAssumption DEF FileTypes
<1>4. manifest_edit = {}
  BY <1>1, <1>2 DEF Running
<1>5. /\ bg' \in BgType /\ bg'.pc \in {"flush", "compact"} /\ bg'.number = next_file_number
      /\ bg'.pc = "flush" => bg'.level0 = {} /\ has_imm
      /\ bg'.pc = "compact" => bg'.level0 = current.level0
  BY <1>1, <1>3 DEF Idle, BgType, Version
<1>6. \A f \in current.files : f < next_file_number
  <2>1. current = manifest /\ current.next_file <= next_file_number
    BY <1>1, <1>2 DEF Installed
  <2>2. \A f \in current.files : f < current.next_file
    BY <1>2, <2>1 DEF VersionsOK, VersionOK, Manifests
  <2> QED
    BY <1>3, <2>1, <2>2 DEF Version
<1>7. FileTypes'
  <2>1. next_file_number' \in 0..MaxFileNumber
    BY <1>1, <1>3
  <2> QED
    BY <1>1, <1>2, <1>5, <2>1 DEF FileTypes, BgType
<1>8. VersionsOK'
  BY <1>1, <1>2 DEF VersionsOK, VersionOK, Manifests
<1>9. Installed'
  BY <1>1, <1>2, <1>3 DEF Installed, Version
<1>10. Recovering' /\ Applying'
  BY <1>1 DEF Recovering, Applying
<1>11. next_file_number \notin current.files
  BY <1>3, <1>6
<1>12. Running'
  BY <1>1, <1>2, <1>3, <1>4, <1>5, <1>11 DEF Running
<1> QED
  BY <1>7, <1>8, <1>9, <1>10, <1>12 DEF FileInv

\* What TableBuilt does: one edit, which names all that the installed version
\* does, and the flushed memtable.
LEMMA EditMade ==
  ASSUME FileInv, TableBuilt
  PROVE  /\ bg.pc \in {"flush", "compact"} /\ db = "open" /\ manifest_edit = {}
         /\ tables' \in [DOMAIN tables' -> SUBSET Entry] /\ DOMAIN tables' \subseteq Nat
         /\ \A n \in DOMAIN tables' : tables'[n] # {}
         /\ current.files \subseteq DOMAIN tables'
         /\ \A f \in current.files : f \in DOMAIN tables /\ tables'[f] = tables[f]
         /\ bg' \in BgType /\ bg'.pc = IF bg.pc = "flush" THEN "apply" ELSE "install"
         /\ \E e \in Version :
              /\ manifest_edit' = {e} /\ VersionOK(e)'
              /\ e.next_file = next_file_number /\ e.last_sequence = last_sequence
              /\ e.log_number = IF bg.pc = "flush" THEN logfile_number
                                ELSE current.log_number
              /\ InTables(current) \subseteq InTables(e)'
              /\ bg.pc = "flush" => imm \subseteq InTables(e)'
              /\ InTables(e)' \subseteq InTables(current) \cup imm
<1> DEFINE flushing == bg.pc = "flush"
           content == IF flushing THEN imm ELSE UNION {tables[n] : n \in bg.level0}
           new == IF content = {} THEN {} ELSE {bg.number}
           files == (current.files \ bg.level0) \cup new
<1>1. /\ bg.pc \in {"flush", "compact"} /\ db = "open"
      /\ tables' = [n \in DOMAIN tables \cup new |->
                      IF n \in new THEN content ELSE tables[n]]
      /\ bg' = [bg EXCEPT !.pc = IF flushing THEN "apply" ELSE "install"]
  BY DEF TableBuilt
<1>2. PICK level0 \in IF flushing THEN {current.level0, current.level0 \cup new}
                      ELSE {current.level0 \ bg.level0} :
        manifest_edit' = {[files |-> files, level0 |-> level0,
                           log_number |-> IF flushing THEN logfile_number
                                          ELSE current.log_number,
                           next_file |-> next_file_number,
                           last_sequence |-> last_sequence]}
  BY DEF TableBuilt
<1>e. PICK e : e = [files |-> files, level0 |-> level0,
                    log_number |-> IF flushing THEN logfile_number
                                   ELSE current.log_number,
                    next_file |-> next_file_number,
                    last_sequence |-> last_sequence]
  OBVIOUS
<1>3. /\ FileTypes /\ Running /\ VersionOK(manifest) /\ Installed
      /\ UNCHANGED <<current, imm>>
  BY DEF FileInv, VersionsOK, Manifests, TableBuilt, memVars
<1>4. /\ imm \subseteq Entry /\ current \in Version /\ bg \in BgType
      /\ tables \in [DOMAIN tables -> SUBSET Entry] /\ DOMAIN tables \subseteq Nat
      /\ \A n \in DOMAIN tables : tables[n] # {}
      /\ logfile_number \in Nat /\ last_sequence \in Nat /\ next_file_number \in Nat
  BY <1>3, DBImplAssumption DEF FileTypes, BgType
<1>5. /\ manifest_edit = {} /\ bg.number < next_file_number
      /\ bg.number \notin current.files
      /\ logfile_number < next_file_number
      /\ \A d \in imm : d.seq <= last_sequence
      /\ ~flushing => bg.level0 \subseteq current.level0
      /\ flushing => bg.level0 = {}
  BY <1>1, <1>3 DEF Running
<1>6. /\ current = manifest
      /\ current.next_file <= next_file_number
      /\ current.last_sequence <= last_sequence
  BY <1>1, <1>3 DEF Installed
<1>7. /\ current.files \subseteq DOMAIN tables /\ current.level0 \subseteq current.files
      /\ current.log_number < current.next_file
      /\ \A f \in current.files : f < current.next_file
      /\ \A f \in current.files : \A d \in tables[f] : d.seq <= current.last_sequence
  BY <1>3, <1>6 DEF VersionOK
<1>8. /\ current.next_file \in Nat /\ current.log_number \in Nat
      /\ current.last_sequence \in Nat
      /\ current.files \subseteq Nat /\ current.level0 \subseteq Nat
      /\ bg.number \in Nat
  BY <1>4 DEF Version, BgType
<1>9. /\ content \subseteq Entry /\ new \subseteq {bg.number}
      /\ new # {} => content # {}
      /\ content # {} => bg.number \in new
      /\ bg.level0 \subseteq current.files
  BY <1>4, <1>5, <1>7
<1>10. ASSUME NEW d \in content PROVE d.seq <= last_sequence
  <2>1. CASE flushing
    BY <1>5, <1>10, <2>1
  <2>2. CASE ~flushing
    <3>1. PICK f \in bg.level0 : d \in tables[f]
      BY <1>10, <2>2
    <3>2. f \in current.files /\ f \in DOMAIN tables
      BY <1>7, <1>9
    <3>3. d.seq <= current.last_sequence /\ d \in Entry
      BY <1>4, <1>7, <3>1, <3>2
    <3> QED
      BY <1>4, <1>6, <1>8, <3>3 DEF Entry
  <2> QED
    BY <2>1, <2>2
<1>11. /\ e.files = files /\ e.level0 = level0
       /\ e.log_number = IF flushing THEN logfile_number ELSE current.log_number
       /\ e.next_file = next_file_number /\ e.last_sequence = last_sequence
       /\ manifest_edit' = {e}
  BY <1>2, <1>e
<1>12. e \in Version
  <2>1. files \subseteq Nat /\ level0 \subseteq Nat
    BY <1>2, <1>8, <1>9
  <2> HIDE DEF files, flushing, new, content
  <2> QED
    BY <1>4, <1>8, <1>e, <2>1 DEF Version
<1>13. level0 \subseteq files
  BY <1>2, <1>5, <1>7, <1>9
<1> HIDE DEF content
<1>14. /\ DOMAIN tables' = DOMAIN tables \cup new
       /\ \A n \in new : tables'[n] = content
       /\ \A n \in DOMAIN tables \ new : tables'[n] = tables[n]
       /\ tables' = [n \in DOMAIN tables' |-> tables'[n]]
  BY <1>1
<1>15. /\ \A n \in DOMAIN tables' : tables'[n] \in SUBSET Entry /\ tables'[n] # {}
       /\ DOMAIN tables' \subseteq Nat
  BY <1>4, <1>8, <1>9, <1>14
<1>16. \A f \in current.files : f \in DOMAIN tables \ new
  BY <1>5, <1>7, <1>9
<1>17. \A f \in current.files : f \in DOMAIN tables' /\ tables'[f] = tables[f]
  BY <1>14, <1>16
<1>18. bg' \in BgType /\ bg'.pc = IF flushing THEN "apply" ELSE "install"
  BY <1>1, <1>4 DEF BgType
<1>19. VersionOK(e)'
  <2>1. files \subseteq DOMAIN tables'
    BY <1>14, <1>16
  <2>2. e.log_number < e.next_file
    BY <1>4, <1>5, <1>6, <1>7, <1>8, <1>11
  <2>3. ASSUME NEW f \in files
        PROVE  f < next_file_number /\ \A d \in tables'[f] : d.seq <= last_sequence
    <3>1. CASE f \in new
      BY <1>5, <1>9, <1>10, <1>14, <3>1
    <3>2. CASE f \in current.files
      <4>1. f < next_file_number
        BY <1>4, <1>6, <1>7, <1>8, <3>2
      <4>2. \A d \in tables'[f] : d \in Entry /\ d.seq <= current.last_sequence
        BY <1>7, <1>15, <1>17, <3>2
      <4> QED
        BY <1>4, <1>6, <1>8, <4>1, <4>2 DEF Entry
    <3> QED
      BY <3>1, <3>2
  <2> QED
    BY <1>11, <1>13, <2>1, <2>2, <2>3 DEF VersionOK
<1>20. InTables(current) \subseteq InTables(e)'
  <2> SUFFICES ASSUME NEW f \in current.files, NEW d \in tables[f]
               PROVE  d \in InTables(e)'
    BY DEF InTables
  <2>1. CASE f \in bg.level0
    <3>1. ~flushing /\ d \in content
      BY <1>5, <2>1 DEF content
    <3>2. bg.number \in new /\ bg.number \in files /\ tables'[bg.number] = content
      BY <1>9, <1>14, <3>1
    <3> QED
      BY <1>11, <1>14, <3>1, <3>2 DEF InTables
  <2>2. CASE f \notin bg.level0
    <3>1. f \in files
      BY <2>2
    <3> QED
      BY <1>11, <1>17, <3>1 DEF InTables
  <2> QED
    BY <2>1, <2>2
<1>21. flushing => imm \subseteq InTables(e)'
  <2> SUFFICES ASSUME flushing, NEW d \in imm PROVE d \in InTables(e)'
    OBVIOUS
  <2>1. content = imm
    BY DEF content
  <2>2. bg.number \in new /\ bg.number \in files /\ tables'[bg.number] = content
    BY <1>9, <1>14, <2>1
  <2> QED
    BY <1>11, <1>14, <2>1, <2>2 DEF InTables
<1>22. InTables(e)' \subseteq InTables(current) \cup imm
  <2> SUFFICES ASSUME NEW f \in files, f \in DOMAIN tables', NEW d \in tables'[f]
               PROVE  d \in InTables(current) \cup imm
    BY <1>11 DEF InTables
  <2>1. CASE f \in new
    <3>1. d \in content
      BY <1>14, <2>1
    <3>2. CASE flushing
      BY <3>1, <3>2 DEF content
    <3>3. CASE ~flushing
      <4>1. PICK g \in bg.level0 : d \in tables[g]
        BY <3>1, <3>3 DEF content
      <4>2. g \in current.files /\ g \in DOMAIN tables
        BY <1>7, <1>9
      <4> QED
        BY <4>1, <4>2 DEF InTables
    <3> QED
      BY <3>2, <3>3
  <2>2. CASE f \in current.files
    BY <1>7, <1>17, <2>2 DEF InTables
  <2> QED
    BY <2>1, <2>2
<1>23. /\ e.next_file = next_file_number /\ e.last_sequence = last_sequence
       /\ e.log_number = IF flushing THEN logfile_number ELSE current.log_number
  BY <1>11
<1>24. /\ tables' \in [DOMAIN tables' -> SUBSET Entry]
  BY <1>14, <1>15
<1> HIDE DEF files, new
<1> QED
  BY <1>1, <1>5, <1>11, <1>12, <1>15, <1>16, <1>17, <1>18, <1>19, <1>20, <1>21, <1>22,
     <1>23, <1>24

\* The table of a flush or a compaction is built.
LEMMA FilesTableBuilt ==
  ASSUME FileInv, TableBuilt
  PROVE  FileInv'
<1>1. /\ bg.pc \in {"flush", "compact"} /\ db = "open" /\ manifest_edit = {}
      /\ tables' \in [DOMAIN tables' -> SUBSET Entry] /\ DOMAIN tables' \subseteq Nat
      /\ \A n \in DOMAIN tables' : tables'[n] # {}
      /\ current.files \subseteq DOMAIN tables'
      /\ \A f \in current.files : f \in DOMAIN tables /\ tables'[f] = tables[f]
      /\ bg' \in BgType /\ bg'.pc = IF bg.pc = "flush" THEN "apply" ELSE "install"
  BY EditMade
<1>2. PICK e \in Version :
        /\ manifest_edit' = {e} /\ VersionOK(e)'
        /\ e.next_file = next_file_number /\ e.last_sequence = last_sequence
        /\ e.log_number = IF bg.pc = "flush" THEN logfile_number ELSE current.log_number
        /\ InTables(current) \subseteq InTables(e)'
        /\ bg.pc = "flush" => imm \subseteq InTables(e)'
  BY EditMade
<1>3. UNCHANGED <<mem, imm, has_imm, logfile_number, last_sequence,
                  next_file_number, current, bg_error, db, recovery, log, manifest>>
  BY DEF TableBuilt, memVars, openVars
<1>4. FileTypes /\ VersionOK(manifest) /\ Installed /\ Running
  BY DEF FileInv, VersionsOK, Manifests
<1>5. FileTypes'
  BY <1>1, <1>2, <1>3, <1>4 DEF FileTypes, BgType
<1>6. current = manifest
  BY <1>1, <1>4 DEF Installed
<1>7. VersionsOK'
  <2>1. VersionOK(manifest)'
    BY <1>1, <1>3, <1>4, <1>6 DEF VersionOK
  <2>2. Manifests' = {manifest', e}
    BY <1>2 DEF Manifests
  <2>3. ASSUME NEW m, m = manifest PROVE VersionOK(m)'
    BY <1>1, <1>3, <1>4, <1>6, <2>3 DEF VersionOK
  <2> QED
    BY <1>2, <1>3, <2>2, <2>3 DEF VersionsOK
<1>8. Installed'
  BY <1>1, <1>3, <1>4 DEF Installed
<1>9. Recovering' /\ Applying'
  BY <1>1, <1>3 DEF Recovering, Applying
<1>10. InTables(current)' = InTables(current)
  BY <1>1, <1>3 DEF InTables
<1>11. EditOK(e)'
  <2>1. /\ e.log_number <= logfile_number /\ e.next_file <= next_file_number
        /\ e.last_sequence <= last_sequence
    BY <1>1, <1>2, <1>4 DEF Running, FileTypes, Version
  <2> QED
    BY <1>1, <1>2, <1>3, <1>10, <2>1 DEF EditOK
<1>12. Running'
  BY <1>1, <1>2, <1>3, <1>4, <1>11 DEF Running
<1> QED
  BY <1>5, <1>7, <1>8, <1>9, <1>12 DEF FileInv

\* DeleteObsoleteFiles keeps the tables of a version and the logs it needs.
LEMMA KeptFiles ==
  ASSUME FileTypes, NEW v, NEW err,
         log' = KeepLogs(log, v, err), tables' = KeepTables(tables, v, {}, err)
  PROVE  /\ DOMAIN log' \subseteq DOMAIN log /\ DOMAIN tables' \subseteq DOMAIN tables
         /\ \A n \in DOMAIN log' : log'[n] = log[n]
         /\ \A n \in DOMAIN tables' : tables'[n] = tables[n]
         /\ \A n \in DOMAIN log : n >= v.log_number => n \in DOMAIN log'
         /\ \A f \in DOMAIN tables : f \in v.files => f \in DOMAIN tables'
         /\ log' \in [DOMAIN log' -> Log] /\ DOMAIN log' \subseteq 0..(MaxFileNumber - 1)
         /\ \A n \in DOMAIN log' : log'[n].synced <= Len(log'[n].records)
         /\ tables' \in [DOMAIN tables' -> SUBSET Entry] /\ DOMAIN tables' \subseteq Nat
         /\ \A n \in DOMAIN tables' : tables'[n] # {}
<1>1. /\ log \in [DOMAIN log -> Log] /\ DOMAIN log \subseteq 0..(MaxFileNumber - 1)
      /\ \A n \in DOMAIN log : log[n].synced <= Len(log[n].records)
      /\ tables \in [DOMAIN tables -> SUBSET Entry] /\ DOMAIN tables \subseteq Nat
      /\ \A n \in DOMAIN tables : tables[n] # {}
  BY DEF FileTypes
<1>2. /\ DOMAIN log' \subseteq DOMAIN log
      /\ \A n \in DOMAIN log' : log'[n] = log[n]
      /\ \A n \in DOMAIN log : n >= v.log_number => n \in DOMAIN log'
      /\ log' = [n \in DOMAIN log' |-> log'[n]]
  BY <1>1 DEF KeepLogs
<1>3. /\ DOMAIN tables' \subseteq DOMAIN tables
      /\ \A n \in DOMAIN tables' : tables'[n] = tables[n]
      /\ \A f \in DOMAIN tables : f \in v.files => f \in DOMAIN tables'
      /\ tables' = [n \in DOMAIN tables' |-> tables'[n]]
  BY <1>1 DEF KeepTables
<1>4. /\ log' \in [DOMAIN log' -> Log] /\ DOMAIN log' \subseteq 0..(MaxFileNumber - 1)
      /\ \A n \in DOMAIN log' : log'[n].synced <= Len(log'[n].records)
  BY <1>1, <1>2
<1>5. /\ tables' \in [DOMAIN tables' -> SUBSET Entry] /\ DOMAIN tables' \subseteq Nat
      /\ \A n \in DOMAIN tables' : tables'[n] # {}
  BY <1>1, <1>3
<1> QED
  BY <1>2, <1>3, <1>4, <1>5

\* The MANIFEST is written: the edit is installed and its files are kept.
LEMMA FilesApplied ==
  ASSUME FileInv, LogAndApply
  PROVE  FileInv'
<1>1. /\ FileTypes /\ VersionsOK /\ Installed /\ Running
      /\ bg.pc \in {"apply", "install"}
  BY DEF FileInv, LogAndApply
<1>2. db \in {"open", "closing"}
  BY <1>1 DEF Installed, FileTypes
<1>3. PICK e \in manifest_edit : manifest_edit = {e} /\ EditOK(e)
  BY <1>1, <1>2 DEF Running
<1>4. (CHOOSE x \in manifest_edit : TRUE) = e
  BY <1>3
<1>5. /\ current' = e /\ manifest' = e /\ manifest_edit' = {}
      /\ IF bg.pc = "apply" THEN imm' = {} /\ has_imm' = FALSE
         ELSE UNCHANGED <<imm, has_imm>>
      /\ log' = KeepLogs(log, e, bg_error)
      /\ tables' = KeepTables(tables, e, {}, bg_error)
      /\ bg' = Idle(Schedule(bg.pc = "install" /\ has_imm, e, bg_error, db))
      /\ bg_error' = bg_error
      /\ UNCHANGED <<mem, logfile_number, last_sequence, next_file_number, db, recovery>>
  BY <1>4 DEF LogAndApply, CleanUp, BackgroundDone, openVars
<1>6. /\ DOMAIN log' \subseteq DOMAIN log /\ DOMAIN tables' \subseteq DOMAIN tables
      /\ \A n \in DOMAIN tables' : tables'[n] = tables[n]
      /\ \A n \in DOMAIN log : n >= e.log_number => n \in DOMAIN log'
      /\ \A f \in DOMAIN tables : f \in e.files => f \in DOMAIN tables'
      /\ log' \in [DOMAIN log' -> Log] /\ DOMAIN log' \subseteq 0..(MaxFileNumber - 1)
      /\ \A n \in DOMAIN log' : log'[n].synced <= Len(log'[n].records)
      /\ tables' \in [DOMAIN tables' -> SUBSET Entry] /\ DOMAIN tables' \subseteq Nat
      /\ \A n \in DOMAIN tables' : tables'[n] # {}
  BY <1>1, <1>5, KeptFiles
<1>7. e \in Version /\ VersionOK(e)
  BY <1>1, <1>3 DEF FileTypes, VersionsOK, Manifests
<1>8. bg' \in BgType /\ bg'.pc \in {"none", "scheduled"}
  BY <1>5, IdleType
<1>9. FileTypes'
  <2>1. imm' \subseteq Entry /\ has_imm' \in BOOLEAN
    BY <1>1, <1>5 DEF FileTypes
  <2>2. /\ mem' \subseteq Entry /\ logfile_number' \in Nat /\ last_sequence' \in Nat
        /\ next_file_number' \in 0..MaxFileNumber
        /\ current' \in Version /\ manifest' \in Version /\ manifest_edit' \subseteq Version
        /\ bg_error' \in BOOLEAN
        /\ db' \in {"closed", "recovering", "applying", "open", "closing"}
        /\ recovery' \in [logs : SUBSET Nat, files : SUBSET Nat]
    BY <1>1, <1>5, <1>7 DEF FileTypes
  <2> QED
    BY <1>6, <1>8, <2>1, <2>2 DEF FileTypes, BgType
<1>10. VersionsOK'
  <2>1. VersionOK(e)'
    BY <1>6, <1>7 DEF VersionOK
  <2>2. Manifests' = {e}
    BY <1>5 DEF Manifests
  <2> QED
    BY <2>1, <2>2 DEF VersionsOK
<1>11. Installed'
  BY <1>1, <1>2, <1>3, <1>5 DEF Installed, EditOK
<1>12. Recovering' /\ Applying'
  BY <1>2, <1>5 DEF Recovering, Applying
<1>13. Running'
  <2>1. /\ e.log_number <= logfile_number /\ e.log_number \in Nat
        /\ logfile_number \in Nat /\ logfile_number \in DOMAIN log
    BY <1>1, <1>2, <1>3, <1>7 DEF EditOK, Running, FileTypes, Version
  <2>2. logfile_number \in DOMAIN log'
    BY <1>6, <2>1
  <2>3. /\ ~has_imm' => imm' = {}
        /\ \A d \in imm' : d.seq <= last_sequence
    BY <1>1, <1>2, <1>5 DEF Running
  <2> QED
    BY <1>1, <1>2, <1>5, <1>6, <1>8, <2>1, <2>2, <2>3 DEF Running
<1> QED
  BY <1>9, <1>10, <1>11, <1>12, <1>13 DEF FileInv

\* The process ends.  The tables stay, the logs stay or are cut, and the
\* MANIFEST stays or an edit is removed from it.
LEMMA FilesForgotten ==
  ASSUME FileInv, Forget, manifest' = manifest, tables' = tables,
         manifest_edit' \subseteq manifest_edit,
         log' \in [DOMAIN log' -> Log], DOMAIN log' \subseteq DOMAIN log,
         \A n \in DOMAIN log' : log'[n].synced <= Len(log'[n].records)
  PROVE  FileInv'
<1>1. /\ mem' = {} /\ imm' = {} /\ has_imm' = FALSE
      /\ logfile_number' = 0 /\ last_sequence' = 0 /\ next_file_number' = 0
      /\ current' = NewVersion
      /\ bg' = Idle("none") /\ bg_error' = FALSE
      /\ db' = "closed" /\ recovery' = NoRecovery
  BY DEF Forget
<1>2. /\ current' \in Version /\ bg' \in BgType /\ bg'.pc = "none"
      /\ recovery' \in [logs : SUBSET Nat, files : SUBSET Nat] /\ recovery'.logs = {}
      /\ next_file_number' \in 0..MaxFileNumber
  BY <1>1, DBImplAssumption DEF NewVersion, Version, Idle, BgType, NoRecovery
<1>3. /\ manifest' \in Version /\ manifest_edit' \subseteq Version
      /\ tables' \in [DOMAIN tables' -> SUBSET Entry] /\ DOMAIN tables' \subseteq Nat
      /\ \A n \in DOMAIN tables' : tables'[n] # {}
      /\ DOMAIN log' \subseteq 0..(MaxFileNumber - 1)
  BY DEF FileInv, FileTypes
<1>4. FileTypes'
  BY <1>1, <1>2, <1>3 DEF FileTypes, BgType
<1>5. VersionsOK'
  BY DEF FileInv, VersionsOK, VersionOK, Manifests
<1>6. Installed' /\ Recovering' /\ Applying' /\ Running'
  BY <1>1, <1>2 DEF Installed, Recovering, Applying, Running
<1> QED
  BY <1>4, <1>5, <1>6 DEF FileInv

\* A machine crash cuts the logs, but not what was synced.
LEMMA LogsCut ==
  ASSUME FileTypes, MachineCrash
  PROVE  /\ log' \in [DOMAIN log' -> Log] /\ DOMAIN log' \subseteq DOMAIN log
         /\ \A n \in DOMAIN log' :
              /\ log'[n].synced = Len(log'[n].records)
              /\ log[n].synced <= log'[n].synced
              /\ Len(log'[n].records) <= Len(log[n].records)
              /\ \A i \in DOMAIN log'[n].records :
                   i \in DOMAIN log[n].records /\ log'[n].records[i] = log[n].records[i]
         /\ \A n \in DOMAIN log \ DOMAIN log' : log[n].synced = 0
<1>1. PICK keep \in [DOMAIN log -> 0..Cardinality(Calls)] :
        /\ \A n \in DOMAIN log :
             log[n].synced <= keep[n] /\ keep[n] <= Len(log[n].records)
        /\ \E gone \in SUBSET {n \in DOMAIN log : keep[n] = 0} :
             log' = [n \in DOMAIN log \ gone |->
                       [records |-> SubSeq(log[n].records, 1, keep[n]),
                        synced |-> keep[n]]]
  BY DEF MachineCrash
<1>2. PICK gone \in SUBSET {n \in DOMAIN log : keep[n] = 0} :
        log' = [n \in DOMAIN log \ gone |->
                  [records |-> SubSeq(log[n].records, 1, keep[n]), synced |-> keep[n]]]
  BY <1>1
<1>3. /\ DOMAIN log' = DOMAIN log \ gone
      /\ \A n \in DOMAIN log' :
           log'[n] = [records |-> SubSeq(log[n].records, 1, keep[n]), synced |-> keep[n]]
  BY <1>2
<1>4. ASSUME NEW n \in DOMAIN log'
      PROVE  /\ log'[n] \in Log
             /\ log'[n].synced = Len(log'[n].records)
             /\ log[n].synced <= log'[n].synced
             /\ Len(log'[n].records) <= Len(log[n].records)
             /\ \A i \in DOMAIN log'[n].records :
                  i \in DOMAIN log[n].records /\ log'[n].records[i] = log[n].records[i]
  <2>1. /\ n \in DOMAIN log /\ log[n] \in Log
        /\ log'[n] = [records |-> SubSeq(log[n].records, 1, keep[n]), synced |-> keep[n]]
    BY <1>3 DEF FileTypes
  <2>2. log[n].records \in Seq(Record) /\ log[n].synced \in Nat
    BY <2>1 DEF Log
  <2>3. Cardinality(Calls) \in Nat
    BY DBImplAssumption, FS_CardinalityType
  <2>4. /\ keep[n] \in Nat /\ log[n].synced <= keep[n] /\ keep[n] <= Len(log[n].records)
    BY <1>1, <2>1, <2>3
  <2>5. PICK r : r = log[n].records
    OBVIOUS
  <2>6. PICK k : k = keep[n]
    OBVIOUS
  <2>7. /\ r \in Seq(Record) /\ Len(r) \in Nat /\ DOMAIN r = 1..Len(r)
        /\ k \in Nat /\ k <= Len(r)
    BY <2>2, <2>4, <2>5, <2>6, LenProperties
  <2>8. /\ SubSeq(r, 1, k) \in Seq(Record) /\ Len(SubSeq(r, 1, k)) = k
        /\ \A i \in 1..k : SubSeq(r, 1, k)[i] = r[i]
    <3>1. \A i \in 1..k : r[i] \in Record
      BY <2>7, ElementOfSeq
    <3>2. /\ SubSeq(r, 1, k) \in Seq(Record)
          /\ Len(SubSeq(r, 1, k)) = IF 1 <= k THEN k - 1 + 1 ELSE 0
          /\ \A i \in 1..(k - 1 + 1) : SubSeq(r, 1, k)[i] = r[1 + i - 1]
      BY <2>7, <3>1, SubSeqProperties
    <3>3. \A i \in 1..k : i \in 1..(k - 1 + 1) /\ 1 + i - 1 = i
      BY <2>7
    <3> QED
      BY <2>7, <3>2, <3>3
  <2>9. /\ log'[n].records = SubSeq(r, 1, k) /\ log'[n].synced = k
        /\ log'[n] = [records |-> SubSeq(r, 1, k), synced |-> k]
    BY <2>1, <2>5, <2>6
  <2>10. DOMAIN SubSeq(r, 1, k) = 1..k
    BY <2>8, LenProperties
  <2>11. \A i \in 1..k : i \in DOMAIN r
    BY <2>7
  <2>12. log'[n] \in Log
    BY <2>7, <2>8, <2>9 DEF Log
  <2> QED
    BY <2>4, <2>5, <2>6, <2>7, <2>8, <2>9, <2>10, <2>11, <2>12
<1>5. ASSUME NEW n \in DOMAIN log \ DOMAIN log' PROVE log[n].synced = 0
  <2>1. n \in gone /\ n \in DOMAIN log
    BY <1>3
  <2>2. keep[n] = 0 /\ log[n].synced <= keep[n] /\ log[n] \in Log
    BY <1>1, <2>1 DEF FileTypes
  <2> QED
    BY <2>2 DEF Log
<1>6. log' = [n \in DOMAIN log' |-> log'[n]]
  BY <1>2
<1>7. log' \in [DOMAIN log' -> Log]
  BY <1>4, <1>6
<1> QED
  BY <1>3, <1>4, <1>5, <1>7

\* The entries of a log.
LEMMA LogTypes ==
  ASSUME FileTypes, NEW n \in DOMAIN log
  PROVE  /\ log[n] \in Log /\ log[n].records \in Seq(Record)
         /\ Len(log[n].records) \in Nat
         /\ DOMAIN log[n].records = 1..Len(log[n].records)
         /\ \A i \in DOMAIN log[n].records :
              /\ log[n].records[i] \in Record
              /\ log[n].records[i].entries \subseteq Entry
         /\ LogEntries(n) \subseteq Entry
         /\ Readable(log[n], Len(log[n].records)) \subseteq LogEntries(n)
         /\ log[n].synced \in Nat /\ log[n].synced <= Len(log[n].records)
         /\ Readable(log[n], log[n].synced) \subseteq
              Readable(log[n], Len(log[n].records))
<1>1. log[n] \in Log /\ log[n].synced <= Len(log[n].records)
  BY DEF FileTypes
<1>2. log[n].records \in Seq(Record) /\ log[n].synced \in Nat
  BY <1>1 DEF Log
<1>3. /\ Len(log[n].records) \in Nat
      /\ DOMAIN log[n].records = 1..Len(log[n].records)
  BY <1>2, LenProperties
<1>4. \A i \in DOMAIN log[n].records : log[n].records[i] \in Record
  BY <1>2, <1>3, ElementOfSeq
<1>5. \A i \in DOMAIN log[n].records : log[n].records[i].entries \subseteq Entry
  BY <1>4 DEF Record
<1>6. LogEntries(n) \subseteq Entry
  BY <1>5 DEF LogEntries
<1>7. Readable(log[n], Len(log[n].records)) \subseteq LogEntries(n)
  BY <1>3 DEF Readable, LogEntries
<1>8. Readable(log[n], log[n].synced) \subseteq Readable(log[n], Len(log[n].records))
  BY <1>1, <1>2, <1>3 DEF Readable
<1> QED
  BY <1>1, <1>2, <1>3, <1>4, <1>5, <1>6, <1>7, <1>8

\* A missing table would be an error; what the MANIFEST holds is installed.
LEMMA FilesRecover ==
  ASSUME FileInv, Recover
  PROVE  FileInv'
<1>1. PICK m \in Manifests :
        /\ m.next_file < MaxFileNumber /\ m.files \subseteq DOMAIN tables
        /\ manifest' = m /\ current' = m
        /\ next_file_number' = m.next_file + 1
        /\ last_sequence' = m.last_sequence
        /\ recovery' = [logs |-> {n \in DOMAIN log : n >= m.log_number}, files |-> {}]
  BY DEF Recover
<1>2. /\ db = "closed" /\ db' = "recovering" /\ manifest_edit' = {}
      /\ UNCHANGED <<mem, imm, has_imm, logfile_number, bg, bg_error, log, tables>>
  BY DEF Recover
<1>3. FileTypes /\ Installed /\ m \in Version /\ VersionOK(m) /\ MaxFileNumber \in Nat
  BY DBImplAssumption DEF FileInv, FileTypes, VersionsOK, Manifests
<1>4. m.next_file \in Nat /\ m.log_number \in Nat /\ m.last_sequence \in Nat
  BY <1>3 DEF Version
<1>5. DOMAIN log \subseteq Nat
  BY <1>3 DEF FileTypes
<1>6. /\ recovery'.logs = {n \in DOMAIN log : n >= m.log_number}
      /\ recovery'.files = {} /\ recovery' \in [logs : SUBSET Nat, files : SUBSET Nat]
  BY <1>1, <1>5
<1>7. FileTypes'
  <2>1. next_file_number' \in 0..MaxFileNumber /\ last_sequence' \in Nat
    BY <1>1, <1>3, <1>4
  <2> QED
    BY <1>1, <1>2, <1>3, <1>6, <2>1 DEF FileTypes
<1>8. VersionsOK'
  <2>1. VersionOK(m)'
    BY <1>2, <1>3 DEF VersionOK
  <2>2. Manifests' = {m}
    BY <1>1, <1>2 DEF Manifests
  <2> QED
    BY <2>1, <2>2 DEF VersionsOK
<1>9. Installed'
  <2>1. m.next_file <= m.next_file + 1 /\ m.last_sequence <= m.last_sequence
    BY <1>4
  <2> QED
    BY <1>1, <1>2, <1>3, <2>1 DEF Installed
<1>10. Recovering'
  <2>1. \A n \in DOMAIN log \ recovery'.logs : n < m.log_number
    BY <1>4, <1>5, <1>6
  <2>2. m.log_number < m.next_file
    BY <1>3 DEF VersionOK
  <2>3. \A n \in DOMAIN log \ recovery'.logs :
          n < next_file_number' /\ ~(n >= m.log_number)
    BY <1>1, <1>4, <1>5, <2>1, <2>2
  <2> QED
    BY <1>1, <1>2, <1>6, <2>3 DEF Recovering
<1>11. Applying' /\ Running'
  BY <1>2 DEF Applying, Running
<1> QED
  BY <1>7, <1>8, <1>9, <1>10, <1>11 DEF FileInv

\* RecoverLogFile turns what it can read of one log into new tables.
LEMMA LogRead ==
  ASSUME FileInv, RecoverLogFile
  PROVE  \E n \in recovery.logs, built \in SUBSET Nat :
           /\ n \in DOMAIN log
           /\ recovery' = [logs |-> recovery.logs \ {n},
                           files |-> recovery.files \cup built]
           /\ DOMAIN tables' = DOMAIN tables \cup built
           /\ tables' = [f \in DOMAIN tables' |-> tables'[f]]
           /\ \A f \in DOMAIN tables \ built : tables'[f] = tables[f]
           /\ \A f \in built : f >= next_file_number /\ f < next_file_number'
           /\ \A f \in built : tables'[f] # {} /\ tables'[f] \subseteq LogEntries(n)
           /\ \A f \in built : \A e \in tables'[f] : e.seq <= last_sequence'
           /\ Readable(log[n], Len(log[n].records)) \subseteq
                UNION {tables'[f] : f \in built}
           /\ next_file_number' \in 0..MaxFileNumber
           /\ next_file_number' >= next_file_number /\ n < next_file_number'
           /\ last_sequence' \in Nat /\ last_sequence' >= last_sequence
<1>1. PICK n \in recovery.logs :
    LET records == log[n].records
        new == next_file_number
    IN /\ \E from \in 1..(Len(records) + 1) :
            LET sure == {i \in DOMAIN records :
                           \A k \in 1..i : ~records[k].torn}
                reads == [i \in DOMAIN records |->
                            IF i \in sure \/ i >= from
                            THEN records[i].entries ELSE {}]
                seqs == {last_sequence} \cup
                        {e.seq : e \in UNION {reads[i] : i \in DOMAIN reads}}
            IN /\ \E part \in Memtables(reads), count \in 0..Len(records) :
                    LET table(t) == Filled(reads, part, t, Len(records))
                        built == new..(new + count - 1)
                    IN /\ {t \in DOMAIN reads : table(t) # {}} = 1..count
                       /\ new + count <= MaxFileNumber
                       /\ tables' = [m \in DOMAIN tables \cup built |->
                                       IF m \in built THEN table(m - new + 1)
                                       ELSE tables[m]]
                       /\ recovery' = [logs |-> recovery.logs \ {n},
                                       files |-> recovery.files \cup built]
                       /\ next_file_number' = Later(new + count, n + 1)
               /\ last_sequence' \in seqs
               /\ \A s \in seqs : last_sequence' >= s
  BY ZenonT(60) DEF RecoverLogFile
<1> DEFINE records == log[n].records
           new == next_file_number
           sure == {i \in DOMAIN records : \A k \in 1..i : ~records[k].torn}
           Reads(from) == [i \in DOMAIN records |->
                             IF i \in sure \/ i >= from THEN records[i].entries
                             ELSE {}]
           Seqs(from) == {last_sequence} \cup
                         {e.seq : e \in UNION {Reads(from)[i] : i \in DOMAIN Reads(from)}}
           Table(from, part, t) == Filled(Reads(from), part, t, Len(records))
           Built(count) == new..(new + count - 1)
           Step(from, part, count) ==
             /\ {t \in DOMAIN Reads(from) : Table(from, part, t) # {}} = 1..count
             /\ new + count <= MaxFileNumber
             /\ tables' = [m \in DOMAIN tables \cup Built(count) |->
                             IF m \in Built(count)
                             THEN Table(from, part, m - new + 1) ELSE tables[m]]
             /\ recovery' = [logs |-> recovery.logs \ {n},
                             files |-> recovery.files \cup Built(count)]
             /\ next_file_number' = Later(new + count, n + 1)
<1>2. \E from \in 1..(Len(records) + 1) :
        /\ \E part \in Memtables(Reads(from)), count \in 0..Len(records) :
             Step(from, part, count)
        /\ last_sequence' \in Seqs(from)
        /\ \A s \in Seqs(from) : last_sequence' >= s
  BY <1>1
<1> HIDE DEF Reads, Step, Seqs
<1>3. PICK from \in 1..(Len(records) + 1) :
        /\ \E part \in Memtables(Reads(from)), count \in 0..Len(records) :
             Step(from, part, count)
        /\ last_sequence' \in Seqs(from)
        /\ \A s \in Seqs(from) : last_sequence' >= s
  BY <1>2
<1>4. PICK part \in Memtables(Reads(from)), count \in 0..Len(records) :
        Step(from, part, count)
  BY <1>3
<1> DEFINE reads == Reads(from)
<1>7. /\ last_sequence' \in {last_sequence} \cup
                            {e.seq : e \in UNION {reads[i] : i \in DOMAIN reads}}
      /\ last_sequence' >= last_sequence
      /\ \A i \in DOMAIN reads : \A e \in reads[i] : last_sequence' >= e.seq
  BY <1>3 DEF Seqs
<1> DEFINE table(t) == Filled(reads, part, t, Len(records))
           built == new..(new + count - 1)
<1>8. /\ {t \in DOMAIN reads : table(t) # {}} = 1..count
      /\ new + count <= MaxFileNumber
      /\ tables' = [m \in DOMAIN tables \cup built |->
                      IF m \in built THEN table(m - new + 1) ELSE tables[m]]
      /\ recovery' = [logs |-> recovery.logs \ {n},
                      files |-> recovery.files \cup built]
      /\ next_file_number' = Later(new + count, n + 1)
  BY <1>4 DEF Step
<1> HIDE DEF table, built
<1>9. FileTypes /\ Installed /\ Recovering
  BY DEF FileInv
<1>10. db = "recovering"
  BY <1>9 DEF Installed
<1>11. n \in DOMAIN log
  BY <1>9, <1>10 DEF Recovering
<1>12. /\ Len(records) \in Nat /\ DOMAIN records = 1..Len(records)
       /\ \A i \in DOMAIN records : records[i].entries \subseteq Entry
  BY <1>9, <1>11, LogTypes
<1>13. /\ new \in Nat /\ MaxFileNumber \in Nat /\ n \in 0..(MaxFileNumber - 1)
       /\ n \in Nat /\ last_sequence \in Nat /\ count \in Nat /\ count <= Len(records)
  BY <1>9, <1>11, <1>12, DBImplAssumption DEF FileTypes
<1>14. /\ DOMAIN reads = DOMAIN records
       /\ \A i \in DOMAIN records : reads[i] \subseteq records[i].entries
       /\ \A i \in sure : reads[i] = records[i].entries
  BY DEF Reads
<1>5. Readable(log[n], Len(log[n].records)) \subseteq
        UNION {records[i].entries : i \in sure \cap 1..Len(records)}
  BY <1>12 DEF Readable
<1>6. \A i \in DOMAIN records : records[i].entries \subseteq LogEntries(n)
  BY DEF LogEntries
<1> HIDE DEF sure, reads, records, new
<1>15. last_sequence' \in Nat
  <2>1. \A i \in DOMAIN reads : \A e \in reads[i] : e.seq \in Nat
    BY <1>12, <1>14 DEF Entry
  <2> QED
    BY <1>7, <1>13, <2>1
<1>16. \A t : table(t) \subseteq LogEntries(n) /\ \A e \in table(t) : e.seq <= last_sequence'
  <2> SUFFICES ASSUME NEW t, NEW e \in table(t)
               PROVE  e \in LogEntries(n) /\ e.seq <= last_sequence'
    OBVIOUS
  <2>1. PICK i \in 1..Len(records) : e \in reads[i]
    BY DEF table, Filled
  <2>2. i \in DOMAIN records /\ e \in records[i].entries /\ last_sequence' >= e.seq
    BY <1>7, <1>12, <1>14, <2>1
  <2>3. e.seq \in Nat
    BY <1>12, <2>2 DEF Entry
  <2> QED
    BY <1>6, <1>15, <2>2, <2>3
<1>17. /\ next_file_number' \in 0..MaxFileNumber
       /\ next_file_number' >= new /\ n < next_file_number'
       /\ next_file_number' >= new + count
  BY <1>8, <1>13 DEF Later
<1>18. /\ \A f \in built : f \in Nat /\ f >= new /\ f < next_file_number'
       /\ \A f \in built : f - new + 1 \in 1..count
       /\ \A t \in 1..count : new + t - 1 \in built /\ (new + t - 1) - new + 1 = t
  BY <1>13, <1>17 DEF built
<1>19. /\ DOMAIN tables' = DOMAIN tables \cup built
       /\ tables' = [f \in DOMAIN tables' |-> tables'[f]]
       /\ \A f \in DOMAIN tables \ built : tables'[f] = tables[f]
       /\ \A f \in built : tables'[f] = table(f - new + 1)
  BY <1>8
<1>20. \A f \in built : tables'[f] # {}
  BY <1>8, <1>18, <1>19
<1>21. Readable(log[n], Len(log[n].records)) \subseteq UNION {tables'[f] : f \in built}
  <2> SUFFICES ASSUME NEW e \in Readable(log[n], Len(log[n].records))
               PROVE  \E f \in built : e \in tables'[f]
    OBVIOUS
  <2>1. PICK i \in sure \cap 1..Len(records) : e \in records[i].entries
    BY <1>5
  <2>2. i \in DOMAIN reads /\ e \in reads[i]
    BY <1>12, <1>14, <2>1
  <2>3. part[i] \in DOMAIN reads
    BY <2>2 DEF Memtables, reads
  <2>4. e \in table(part[i])
    BY <2>1, <2>2 DEF table, Filled
  <2>5. part[i] \in 1..count
    BY <1>8, <2>3, <2>4
  <2> QED
    BY <1>18, <1>19, <2>4, <2>5
<1>22. built \in SUBSET Nat /\ new = next_file_number
  BY <1>18 DEF new
<1>23. /\ \A f \in built : f >= next_file_number /\ f < next_file_number'
       /\ \A f \in built : tables'[f] # {} /\ tables'[f] \subseteq LogEntries(n)
       /\ \A f \in built : \A e \in tables'[f] : e.seq <= last_sequence'
  BY <1>16, <1>18, <1>19, <1>20, <1>22
<1>24. next_file_number' >= next_file_number
  BY <1>17, <1>22
<1> HIDE DEF Built, Table
<1> QED
  BY <1>7, <1>8, <1>11, <1>15, <1>17, <1>19, <1>21, <1>22, <1>23, <1>24

\* RecoverLogFile keeps the files in order: its tables are new.
LEMMA FilesRead ==
  ASSUME FileInv, RecoverLogFile
  PROVE  FileInv'
<1>1. PICK n \in recovery.logs, built \in SUBSET Nat :
        /\ n \in DOMAIN log
        /\ recovery' = [logs |-> recovery.logs \ {n}, files |-> recovery.files \cup built]
        /\ DOMAIN tables' = DOMAIN tables \cup built
        /\ tables' = [f \in DOMAIN tables' |-> tables'[f]]
        /\ \A f \in DOMAIN tables \ built : tables'[f] = tables[f]
        /\ \A f \in built : f >= next_file_number /\ f < next_file_number'
        /\ \A f \in built : tables'[f] # {} /\ tables'[f] \subseteq LogEntries(n)
        /\ \A f \in built : \A e \in tables'[f] : e.seq <= last_sequence'
        /\ Readable(log[n], Len(log[n].records)) \subseteq UNION {tables'[f] : f \in built}
        /\ next_file_number' \in 0..MaxFileNumber
        /\ next_file_number' >= next_file_number /\ n < next_file_number'
        /\ last_sequence' \in Nat /\ last_sequence' >= last_sequence
  BY LogRead
<1>2. UNCHANGED <<mem, imm, has_imm, logfile_number, current, bg, bg_error, db, log,
                  manifest, manifest_edit>>
  BY DEF RecoverLogFile
<1>3. FileTypes /\ VersionsOK /\ Installed /\ Recovering
  BY DEF FileInv
<1>4. db = "recovering"
  BY <1>3 DEF Installed
<1>5. /\ manifest_edit = {} /\ current = manifest /\ VersionOK(current)
      /\ current.next_file <= next_file_number
      /\ current.last_sequence <= last_sequence
  BY <1>3, <1>4 DEF Recovering, Installed, VersionsOK, Manifests
<1>6. /\ next_file_number \in Nat /\ next_file_number' \in Nat /\ last_sequence \in Nat
      /\ current \in Version /\ current.next_file \in Nat /\ current.last_sequence \in Nat
      /\ current.files \subseteq Nat /\ DOMAIN tables \subseteq Nat
      /\ DOMAIN log \subseteq Nat /\ recovery.files \subseteq Nat
      /\ recovery.logs \subseteq Nat /\ current.log_number \in Nat
  <2>1. next_file_number \in Nat /\ next_file_number' \in Nat /\ DOMAIN log \subseteq Nat
    BY <1>1, <1>3, DBImplAssumption DEF FileTypes
  <2>2. /\ last_sequence \in Nat /\ current \in Version /\ DOMAIN tables \subseteq Nat
        /\ recovery.files \subseteq Nat /\ recovery.logs \subseteq Nat
    BY <1>3 DEF FileTypes
  <2> QED
    BY <2>1, <2>2 DEF Version
<1>7. /\ current.files \subseteq DOMAIN tables
      /\ \A f \in current.files : f < current.next_file
      /\ \A f \in current.files : \A e \in tables[f] : e.seq <= current.last_sequence
  BY <1>5 DEF VersionOK
<1>8. /\ \A f \in current.files : f \in DOMAIN tables \ built
      /\ \A f \in recovery.files : f \in DOMAIN tables \ built
  <2>1. \A f \in current.files : f < next_file_number
    BY <1>5, <1>6, <1>7
  <2>2. \A f \in recovery.files : f \in DOMAIN tables /\ f < next_file_number
    BY <1>3, <1>4 DEF Recovering
  <2> QED
    BY <1>1, <1>6, <1>7, <2>1, <2>2
<1>9. /\ recovery'.logs = recovery.logs \ {n}
      /\ recovery'.files = recovery.files \cup built
      /\ recovery' \in [logs : SUBSET Nat, files : SUBSET Nat]
  BY <1>1, <1>6
<1>10. LogEntries(n) \subseteq Entry /\ LogEntries(n) \subseteq Findable(current)
  <2>1. n >= current.log_number
    BY <1>3, <1>4 DEF Recovering
  <2> QED
    BY <1>1, <1>3, <2>1, LogTypes DEF Findable
<1>11. \A f \in DOMAIN tables' : tables'[f] \in SUBSET Entry /\ tables'[f] # {}
  BY <1>1, <1>3, <1>10 DEF FileTypes
<1>12. FileTypes'
  <2>1. tables' \in [DOMAIN tables' -> SUBSET Entry] /\ DOMAIN tables' \subseteq Nat
    BY <1>1, <1>6, <1>11
  <2> QED
    BY <1>1, <1>2, <1>3, <1>9, <1>11, <2>1 DEF FileTypes
<1>13. VersionsOK'
  <2>1. ASSUME NEW m, m = current PROVE VersionOK(m)'
    BY <1>1, <1>5, <1>8, <2>1 DEF VersionOK
  <2>2. Manifests' = {current}
    BY <1>2, <1>5 DEF Manifests
  <2> QED
    BY <2>1, <2>2 DEF VersionsOK
<1>14. Installed'
  BY <1>1, <1>2, <1>3, <1>4, <1>5, <1>6 DEF Installed
<1>15. Findable(current)' = Findable(current)
  <2>1. InTables(current)' = InTables(current)
    BY <1>1, <1>2, <1>8 DEF InTables
  <2>2. \A k : LogEntries(k)' = LogEntries(k)
    BY <1>2 DEF LogEntries
  <2> QED
    BY <1>2, <2>1, <2>2 DEF Findable
<1>16. \A f \in recovery'.files :
         /\ f \in DOMAIN tables' /\ f < next_file_number'
         /\ \A e \in tables'[f] : e \in Findable(current) /\ e.seq <= last_sequence'
  <2> SUFFICES ASSUME NEW f \in recovery'.files
               PROVE  /\ f \in DOMAIN tables' /\ f < next_file_number'
                      /\ \A e \in tables'[f] :
                           e \in Findable(current) /\ e.seq <= last_sequence'
    OBVIOUS
  <2>1. CASE f \in built
    BY <1>1, <1>10, <2>1
  <2>2. CASE f \in recovery.files
    <3>1. /\ f \in DOMAIN tables /\ f < next_file_number
          /\ \A e \in tables[f] : e \in Findable(current) /\ e.seq <= last_sequence
      BY <1>3, <1>4, <2>2 DEF Recovering
    <3>2. tables'[f] = tables[f] /\ f \in Nat /\ tables[f] \subseteq Entry
      BY <1>1, <1>3, <1>6, <1>8, <2>2, <3>1 DEF FileTypes
    <3>3. \A e \in tables[f] : e.seq \in Nat
      BY <3>2 DEF Entry
    <3> QED
      BY <1>1, <1>6, <3>1, <3>2, <3>3
  <2> QED
    BY <1>9, <2>1, <2>2
<1>17. \A k \in DOMAIN log \ recovery'.logs :
         /\ k < next_file_number'
         /\ k >= current.log_number =>
              Readable(log[k], Len(log[k].records)) \subseteq
                UNION {tables'[f] : f \in recovery'.files}
  <2> SUFFICES ASSUME NEW k \in DOMAIN log \ recovery'.logs
               PROVE  /\ k < next_file_number'
                      /\ k >= current.log_number =>
                           Readable(log[k], Len(log[k].records)) \subseteq
                             UNION {tables'[f] : f \in recovery'.files}
    OBVIOUS
  <2>1. CASE k = n
    BY <1>1, <1>9, <2>1
  <2>2. CASE k # n
    <3>1. /\ k < next_file_number
          /\ k >= current.log_number =>
               Readable(log[k], Len(log[k].records)) \subseteq
                 UNION {tables[f] : f \in recovery.files}
      BY <1>3, <1>4, <1>9, <2>2 DEF Recovering
    <3>2. UNION {tables[f] : f \in recovery.files} \subseteq
            UNION {tables'[f] : f \in recovery'.files}
      BY <1>1, <1>8, <1>9
    <3>3. k < next_file_number'
      BY <1>1, <1>6, <3>1
    <3> QED
      BY <3>1, <3>2, <3>3
  <2> QED
    BY <2>1, <2>2
<1>18. Recovering'
  <2>1. \A k \in recovery'.logs : k \in DOMAIN log /\ k >= current.log_number
    BY <1>3, <1>4, <1>9 DEF Recovering
  <2>2. \A k : Readable(log'[k], Len(log'[k].records)) = Readable(log[k], Len(log[k].records))
    BY <1>2
  <2> QED
    BY <1>2, <1>4, <1>5, <1>15, <1>16, <1>17, <2>1 DEF Recovering, Readable
<1>19. Applying' /\ Running'
  BY <1>2, <1>4 DEF Applying, Running
<1> QED
  BY <1>12, <1>13, <1>14, <1>18, <1>19 DEF FileInv

\* DB::Open makes a new log, above all others, and an edit that names the
\* recovered tables.
LEMMA OpenEdit ==
  ASSUME FileInv, OpenLog
  PROVE  /\ db = "recovering" /\ manifest_edit = {} /\ recovery.logs = {}
         /\ next_file_number \in 0..(MaxFileNumber - 1)
         /\ DOMAIN log' = DOMAIN log \cup {next_file_number}
         /\ log'[next_file_number].records = <<>>
         /\ \A k \in DOMAIN log : k < next_file_number /\ log'[k] = log[k]
         /\ \E e \in Version :
              /\ manifest_edit' = {e} /\ VersionOK(e)
              /\ e.files = current.files \cup recovery.files
              /\ e.log_number = next_file_number
              /\ e.next_file = next_file_number + 1
              /\ e.last_sequence = last_sequence
<1>1. /\ db = "recovering" /\ recovery.logs = {} /\ next_file_number < MaxFileNumber
      /\ log' = [m \in DOMAIN log \cup {next_file_number} |->
                   IF m = next_file_number THEN [records |-> <<>>, synced |-> 0]
                   ELSE log[m]]
      /\ manifest_edit' = {[files |-> current.files \cup recovery.files,
                            level0 |-> current.level0 \cup recovery.files,
                            log_number |-> next_file_number,
                            next_file |-> next_file_number + 1,
                            last_sequence |-> last_sequence]}
  BY DEF OpenLog
<1>2. FileTypes /\ VersionsOK /\ Installed /\ Recovering
  BY DEF FileInv
<1>3. /\ next_file_number \in Nat /\ MaxFileNumber \in Nat /\ last_sequence \in Nat
      /\ current \in Version /\ recovery.files \subseteq Nat /\ DOMAIN log \subseteq Nat
      /\ tables \in [DOMAIN tables -> SUBSET Entry]
  BY <1>2, DBImplAssumption DEF FileTypes
<1>4. /\ manifest_edit = {} /\ current = manifest /\ VersionOK(current)
      /\ current.next_file <= next_file_number
      /\ current.last_sequence <= last_sequence
  BY <1>1, <1>2 DEF Recovering, Installed, VersionsOK, Manifests
<1>5. \A k \in DOMAIN log : k < next_file_number
  BY <1>1, <1>2 DEF Recovering
<1>6. next_file_number \in 0..(MaxFileNumber - 1)
  BY <1>1, <1>3
<1>7. /\ DOMAIN log' = DOMAIN log \cup {next_file_number}
      /\ log'[next_file_number].records = <<>>
      /\ \A k \in DOMAIN log : k # next_file_number => log'[k] = log[k]
  BY <1>1, <1>2, <1>6, LogCreated
<1>8. PICK e : e = [files |-> current.files \cup recovery.files,
                    level0 |-> current.level0 \cup recovery.files,
                    log_number |-> next_file_number,
                    next_file |-> next_file_number + 1,
                    last_sequence |-> last_sequence]
  OBVIOUS
<1>9. /\ current.files \subseteq Nat /\ current.level0 \subseteq Nat
      /\ current.next_file \in Nat /\ current.last_sequence \in Nat
  BY <1>3 DEF Version
<1>10. e \in Version
  BY <1>3, <1>8, <1>9 DEF Version
<1>11. /\ e.files = current.files \cup recovery.files
       /\ e.level0 = current.level0 \cup recovery.files
       /\ e.log_number = next_file_number /\ e.next_file = next_file_number + 1
       /\ e.last_sequence = last_sequence
  BY <1>8
<1>12. VersionOK(e)
  <2>1. /\ \A f \in recovery.files : f \in DOMAIN tables /\ f < next_file_number
        /\ \A f \in recovery.files : \A d \in tables[f] : d.seq <= last_sequence
    BY <1>1, <1>2 DEF Recovering
  <2>2. /\ current.files \subseteq DOMAIN tables /\ current.level0 \subseteq current.files
        /\ \A f \in current.files : f < current.next_file
        /\ \A f \in current.files : \A d \in tables[f] : d.seq <= current.last_sequence
    BY <1>4 DEF VersionOK
  <2>3. \A f \in current.files : \A d \in tables[f] : d.seq <= last_sequence
    <3>1. \A f \in current.files : \A d \in tables[f] : d.seq \in Nat
      BY <1>3, <2>2 DEF Entry
    <3> QED
      BY <1>3, <1>4, <1>9, <2>2, <3>1
  <2>4. \A f \in e.files : f < next_file_number + 1
    BY <1>3, <1>4, <1>9, <1>11, <2>1, <2>2
  <2>5. e.files \subseteq DOMAIN tables /\ e.level0 \subseteq e.files
    BY <1>11, <2>1, <2>2
  <2>6. e.log_number < e.next_file
    BY <1>3, <1>11
  <2> QED
    BY <1>11, <2>1, <2>3, <2>4, <2>5, <2>6 DEF VersionOK
<1>13. \A k \in DOMAIN log : k < next_file_number /\ log'[k] = log[k]
  BY <1>3, <1>5, <1>7
<1> QED
  BY <1>1, <1>4, <1>6, <1>7, <1>8, <1>10, <1>11, <1>12, <1>13

\* The new log of DB::Open keeps the files in order.
LEMMA FilesOpenLog ==
  ASSUME FileInv, OpenLog
  PROVE  FileInv'
<1>1. /\ db = "recovering" /\ manifest_edit = {} /\ recovery.logs = {}
      /\ next_file_number \in 0..(MaxFileNumber - 1)
      /\ DOMAIN log' = DOMAIN log \cup {next_file_number}
      /\ log'[next_file_number].records = <<>>
      /\ \A k \in DOMAIN log : k < next_file_number /\ log'[k] = log[k]
  BY OpenEdit
<1>2. PICK e \in Version :
        /\ manifest_edit' = {e} /\ VersionOK(e)
        /\ e.log_number = next_file_number /\ e.next_file = next_file_number + 1
        /\ e.last_sequence = last_sequence
  BY OpenEdit
<1>3. /\ logfile_number' = next_file_number /\ next_file_number' = next_file_number + 1
      /\ db' = "applying"
      /\ UNCHANGED <<mem, imm, has_imm, last_sequence, current, bg, bg_error,
                     recovery, tables, manifest>>
      /\ log' = [m \in DOMAIN log \cup {next_file_number} |->
                   IF m = next_file_number THEN [records |-> <<>>, synced |-> 0]
                   ELSE log[m]]
  BY DEF OpenLog
<1>4. FileTypes /\ VersionsOK /\ Installed
  BY DEF FileInv
<1>5. /\ next_file_number \in Nat /\ MaxFileNumber \in Nat
      /\ DOMAIN log \subseteq Nat
      /\ next_file_number' \in 0..MaxFileNumber
  BY <1>1, <1>3, <1>4, DBImplAssumption DEF FileTypes
<1>6. /\ log' \in [DOMAIN log' -> Log] /\ DOMAIN log' \subseteq 0..(MaxFileNumber - 1)
      /\ \A n \in DOMAIN log' : log'[n].synced <= Len(log'[n].records)
  BY <1>1, <1>3, <1>4, LogCreated
<1>7. FileTypes'
  <2>1. logfile_number' \in Nat /\ manifest_edit' \subseteq Version
    BY <1>2, <1>3, <1>5
  <2> QED
    BY <1>3, <1>4, <1>5, <1>6, <2>1 DEF FileTypes
<1>8. VersionsOK'
  <2>1. VersionOK(e)'
    BY <1>2, <1>3 DEF VersionOK
  <2>2. ASSUME NEW m, m = manifest PROVE VersionOK(m)'
    BY <1>3, <1>4, <2>2 DEF VersionOK, VersionsOK, Manifests
  <2>3. Manifests' = {manifest, e}
    BY <1>2, <1>3 DEF Manifests
  <2> QED
    BY <2>1, <2>2, <2>3 DEF VersionsOK
<1>9. Installed'
  BY <1>1, <1>3, <1>4, <1>5 DEF Installed, FileTypes, Version
<1>10. Applying'
  <2>1. \A n \in DOMAIN log' : n <= next_file_number
    BY <1>1, <1>5
  <2> QED
    BY <1>1, <1>2, <1>3, <2>1 DEF Applying
<1>11. Recovering' /\ Running'
  BY <1>3 DEF Recovering, Running
<1> QED
  BY <1>7, <1>8, <1>9, <1>10, <1>11 DEF FileInv

\* The database is open: its edit is installed and the older logs go.
LEMMA FilesOpened ==
  ASSUME FileInv, Opened
  PROVE  FileInv'
<1>1. FileTypes /\ VersionsOK /\ Installed /\ Applying /\ db = "applying"
  BY DEF FileInv, Opened
<1>2. PICK e \in manifest_edit :
        /\ manifest_edit = {e}
        /\ e.log_number = logfile_number /\ e.next_file = next_file_number
        /\ e.last_sequence = last_sequence
        /\ logfile_number \in DOMAIN log
        /\ \A n \in DOMAIN log : n <= logfile_number
  BY <1>1 DEF Applying
<1>3. (CHOOSE x \in manifest_edit : TRUE) = e
  BY <1>2
<1>4. /\ current' = e /\ manifest' = e /\ manifest_edit' = {}
      /\ log' = KeepLogs(log, e, FALSE) /\ tables' = KeepTables(tables, e, {}, FALSE)
      /\ db' = "open" /\ recovery' = NoRecovery
      /\ bg' = Idle(Schedule(FALSE, e, FALSE, "open"))
      /\ UNCHANGED <<mem, imm, has_imm, logfile_number, last_sequence,
                     next_file_number, bg_error>>
  BY <1>3 DEF Opened
<1>5. /\ DOMAIN log' \subseteq DOMAIN log /\ DOMAIN tables' \subseteq DOMAIN tables
      /\ \A n \in DOMAIN tables' : tables'[n] = tables[n]
      /\ \A n \in DOMAIN log : n >= e.log_number => n \in DOMAIN log'
      /\ \A f \in DOMAIN tables : f \in e.files => f \in DOMAIN tables'
      /\ log' \in [DOMAIN log' -> Log] /\ DOMAIN log' \subseteq 0..(MaxFileNumber - 1)
      /\ \A n \in DOMAIN log' : log'[n].synced <= Len(log'[n].records)
      /\ tables' \in [DOMAIN tables' -> SUBSET Entry] /\ DOMAIN tables' \subseteq Nat
      /\ \A n \in DOMAIN tables' : tables'[n] # {}
  BY <1>1, <1>4, KeptFiles
<1>6. e \in Version /\ VersionOK(e)
  BY <1>1, <1>2 DEF FileTypes, VersionsOK, Manifests
<1>7. bg' \in BgType /\ bg'.pc \in {"none", "scheduled"}
  BY <1>4, IdleType
<1>8. recovery' \in [logs : SUBSET Nat, files : SUBSET Nat] /\ recovery'.logs = {}
  BY <1>4 DEF NoRecovery
<1>9. FileTypes'
  <2>1. /\ mem' \subseteq Entry /\ imm' \subseteq Entry /\ has_imm' \in BOOLEAN
        /\ logfile_number' \in Nat /\ last_sequence' \in Nat
        /\ next_file_number' \in 0..MaxFileNumber
        /\ current' \in Version /\ manifest' \in Version /\ manifest_edit' \subseteq Version
        /\ bg_error' \in BOOLEAN
        /\ db' \in {"closed", "recovering", "applying", "open", "closing"}
    BY <1>1, <1>4, <1>6 DEF FileTypes
  <2> QED
    BY <1>5, <1>7, <1>8, <2>1 DEF FileTypes, BgType
<1>10. VersionsOK'
  <2>1. VersionOK(e)'
    BY <1>5, <1>6 DEF VersionOK
  <2>2. Manifests' = {e}
    BY <1>4 DEF Manifests
  <2> QED
    BY <2>1, <2>2 DEF VersionsOK
<1>11. e.next_file \in Nat /\ e.last_sequence \in Nat /\ e.log_number \in Nat
  BY <1>6 DEF Version
<1>12. Installed'
  BY <1>1, <1>2, <1>4, <1>8, <1>11 DEF Installed
<1>13. Recovering' /\ Applying'
  BY <1>4 DEF Recovering, Applying
<1>14. Running'
  <2>1. logfile_number \in DOMAIN log' /\ e.log_number <= logfile_number
    BY <1>2, <1>5, <1>11
  <2>2. logfile_number < next_file_number
    BY <1>2, <1>6 DEF VersionOK
  <2>3. imm = {} /\ ~has_imm
    BY <1>1 DEF Installed
  <2> QED
    BY <1>2, <1>4, <1>5, <1>7, <2>1, <2>2, <2>3 DEF Running
<1> QED
  BY <1>9, <1>10, <1>12, <1>13, <1>14 DEF FileInv

\* A record is added to the log being written; the group it holds is complete
\* or the record is torn.
LEMMA RecordAdded ==
  ASSUME FileInv, db = "open", NEW r \in Record,
         log' = [log EXCEPT ![logfile_number].records = Append(@, r)]
  PROVE  \E l \in Log :
           /\ l.synced <= Len(l.records) /\ l.synced = log[logfile_number].synced
           /\ l.records = Append(log[logfile_number].records, r)
           /\ log' = [log EXCEPT ![logfile_number] = l]
<1>1. FileTypes /\ logfile_number \in DOMAIN log
  BY DEF FileInv, Running
<1>2. PICK old : old = log[logfile_number]
  OBVIOUS
<1>3. /\ old \in Log /\ old.synced <= Len(old.records) /\ old.synced \in Nat
      /\ old.records \in Seq(Record) /\ Len(old.records) \in Nat
  BY <1>1, <1>2, LogTypes
<1>4. PICK l : l = [records |-> Append(old.records, r), synced |-> old.synced]
  OBVIOUS
<1>5. Append(old.records, r) \in Seq(Record)
      /\ Len(Append(old.records, r)) = Len(old.records) + 1
  BY <1>3, AppendProperties
<1>6. /\ l \in Log /\ l.records = Append(old.records, r) /\ l.synced = old.synced
      /\ l.synced <= Len(l.records)
  BY <1>3, <1>4, <1>5 DEF Log
<1>7. [old EXCEPT !.records = Append(@, r)] = l
  BY <1>3, <1>4 DEF Log
<1>8. log' = [log EXCEPT ![logfile_number] = l]
  BY <1>2, <1>7
<1> QED
  BY <1>2, <1>6, <1>8

\* Every step keeps the files.
LEMMA FileStep ==
  ASSUME IInv, [Next]_vars
  PROVE  FileInv'
<1>0. QueueInv /\ FileInv /\ FileTypes /\ GroupInv
  BY DEF IInv, FileInv, EntryInv
<1>1. ASSUME NEW c \in Calls,
             \/ \E r \in Requests : WriteCall(c, r)
             \/ RoomError(c) \/ RoomDelay(c) \/ RoomBatch(c) \/ RoomNoBatch(c)
             \/ RoomWait(c) \/ RoomSwitchFails(c) \/ SyncLogFails(c)
             \/ CompactMemTableWaits(c) \/ CompactMemTableReturns(c)
      PROVE  FileInv'
  <2>1. UNCHANGED fileVars
    BY <1>1
    DEF WriteCall, RoomError, RoomDelay, RoomBatch, RoomNoBatch, RoomWait,
        RoomSwitchFails, SyncLogFails, CompactMemTableWaits,
        CompactMemTableReturns, fileVars, memVars, openVars, diskVars
  <2> QED
    BY <1>0, <2>1, FilesUntouched
<1>2. ASSUME NEW c \in Calls, call[c].pc \in Writing
      PROVE  db = "open" /\ group.entries \subseteq Entry /\ group.last \in Nat
             /\ group.last >= last_sequence /\ group.sync_error \in BOOLEAN
  <2>1. db = "open"
    BY <1>0, <1>2, FrontWriter DEF FrontPhases
  <2>2. group \in Group
    BY <1>0 DEF QueueInv
  <2> QED
    BY <1>0, <1>2, <2>1, <2>2 DEF Group, GroupInv
<1>3. ASSUME NEW c \in Calls, InsertInto(c) PROVE FileInv'
  <2>1. call[c].pc = "insert" /\ mem' = mem \cup group.entries
        /\ UNCHANGED <<imm, has_imm, logfile_number, last_sequence, next_file_number,
                     current, bg, bg_error, db, recovery, log, tables, manifest,
                     manifest_edit>>
    BY <1>3 DEF InsertInto, openVars, diskVars
  <2>2. db = "open" /\ group.entries \subseteq Entry
    BY <1>2, <2>1 DEF Writing
  <2>3. /\ mem' \subseteq Entry /\ last_sequence' \in Nat
        /\ last_sequence' >= last_sequence /\ bg_error' \in BOOLEAN
    BY <1>0, <2>1, <2>2 DEF FileTypes
  <2> QED
    BY <1>0, <2>1, <2>2, <2>3, FilesGrow
<1>4. ASSUME NEW c \in Calls, FinishWrite(c) PROVE FileInv'
  <2>1. /\ call[c].pc = "finish" /\ bg_error' = (bg_error \/ group.sync_error)
        /\ last_sequence' = group.last
        /\ UNCHANGED <<mem, imm, has_imm, logfile_number, next_file_number,
                       current, bg, db, recovery, log, tables, manifest,
                       manifest_edit>>
    BY <1>4 DEF FinishWrite, openVars, diskVars
  <2>2. db = "open" /\ group.last \in Nat /\ group.last >= last_sequence
    BY <1>2, <2>1 DEF Writing
  <2>3. mem' \subseteq Entry
    BY <1>0, <2>1 DEF FileTypes
  <2>4. bg_error' \in BOOLEAN /\ (bg_error => bg_error')
    BY <2>1
  <2> QED
    BY <1>0, <2>1, <2>2, <2>3, <2>4, FilesGrow
<1>5. ASSUME NEW c \in Calls, AddRecord(c) \/ AddRecordFails(c) \/ AddRecordTears(c)
      PROVE  FileInv'
  <2>1. /\ call[c].pc = "log"
        /\ UNCHANGED <<mem, imm, has_imm, logfile_number, last_sequence,
                       next_file_number, current, bg, bg_error, db, recovery,
                       tables, manifest, manifest_edit>>
    BY <1>5 DEF AddRecord, AddRecordFails, AddRecordTears, memVars, openVars
  <2>2. db = "open" /\ group.entries \subseteq Entry
    BY <1>2, <2>1 DEF Writing
  <2>3. CASE UNCHANGED log
    BY <1>0, <2>1, <2>3, FilesUntouched DEF fileVars
  <2>4. CASE log' # log
    <3>1. PICK r \in Record :
            log' = [log EXCEPT ![logfile_number].records = Append(@, r)]
      BY <1>5, <2>2, <2>4 DEF AddRecord, AddRecordFails, AddRecordTears, Record
    <3> QED
      BY <1>0, <2>1, <2>2, <3>1, RecordAdded, FilesLogged
  <2> QED
    BY <2>3, <2>4
<1>6. ASSUME NEW c \in Calls, SyncLog(c) PROVE FileInv'
  <2>1. /\ call[c].pc = "sync"
        /\ log' = [log EXCEPT ![logfile_number].synced =
                     Len(log[logfile_number].records)]
        /\ UNCHANGED <<mem, imm, has_imm, logfile_number, last_sequence,
                       next_file_number, current, bg, bg_error, db, recovery,
                       tables, manifest, manifest_edit>>
    BY <1>6 DEF SyncLog, memVars, openVars
  <2>2. db = "open"
    BY <1>2, <2>1 DEF Writing
  <2>3. logfile_number \in DOMAIN log
    BY <1>0, <2>2 DEF FileInv, Running
  <2>4. PICK old : old = log[logfile_number]
    OBVIOUS
  <2>5. old \in Log /\ Len(old.records) \in Nat
    BY <1>0, <2>3, <2>4, LogTypes
  <2>6. PICK l : l = [old EXCEPT !.synced = Len(old.records)]
    OBVIOUS
  <2>7. l \in Log /\ l.synced <= Len(l.records)
    BY <2>5, <2>6 DEF Log
  <2>8. log' = [log EXCEPT ![logfile_number] = l]
    BY <2>1, <2>4, <2>6
  <2> QED
    BY <1>0, <2>1, <2>2, <2>7, <2>8, FilesLogged
<1>7. ASSUME NEW c \in Calls, RoomSwitch(c) PROVE FileInv'
  BY <1>7, FilesSwitched
<1>8. CASE BackgroundNothing \/ TableFails \/ LogAndApplyFails
  <2>1. /\ UNCHANGED <<mem, imm, has_imm, logfile_number, last_sequence,
                       next_file_number, current, db, recovery, log, tables,
                       manifest, manifest_edit>>
        /\ \E hasImm, version, err :
             bg' = Idle(Schedule(hasImm, version, err, db)) /\ bg_error' = err
        /\ bg_error' = bg_error \/ bg_error' = TRUE
        /\ bg.pc \in {"scheduled", "flush", "compact"} \/ bg_error' = TRUE
        /\ bg.pc # "none"
    BY <1>8
    DEF BackgroundNothing, TableFails, LogAndApplyFails, BackgroundDone, CleanUp,
        KeepLogs, KeepTables, memVars, openVars, diskVars
  <2>2. /\ bg' \in BgType /\ bg'.pc \in {"none", "scheduled"}
        /\ bg_error' => bg'.pc = "none"
    BY <2>1, IdleType
  <2>3. db \in {"open", "closing"} /\ bg_error \in BOOLEAN
    BY <1>0, <2>1 DEF FileInv, Installed, FileTypes
  <2>4. bg_error' \in BOOLEAN /\ (bg_error => bg_error')
    BY <2>1, <2>3
  <2>5. manifest_edit # {} => bg'.pc = "none" /\ bg_error'
    <3>1. bg.pc \in {"scheduled", "flush", "compact"} => manifest_edit = {}
      BY <1>0, <2>3 DEF FileInv, Running
    <3> QED
      BY <2>1, <2>2, <3>1
  <2> QED
    BY <1>0, <2>1, <2>2, <2>3, <2>4, <2>5, FilesBackgroundEnds
<1>9. CASE Close
  <2>1. /\ db = "open" /\ db' = "closing"
        /\ UNCHANGED <<mem, imm, has_imm, logfile_number, last_sequence,
                       next_file_number, current, bg, bg_error, recovery, log,
                       tables, manifest, manifest_edit>>
    BY <1>9 DEF Close, memVars, diskVars
  <2>2. FileTypes'
    BY <1>0, <2>1 DEF FileTypes
  <2>3. VersionsOK'
    BY <1>0, <2>1 DEF FileInv, VersionsOK, VersionOK, Manifests
  <2>4. Installed' /\ Recovering' /\ Applying'
    BY <1>0, <2>1 DEF FileInv, Installed, Recovering, Applying
  <2>5. \A e : EditOK(e) => EditOK(e)'
    BY <2>1, EditStays
  <2>6. Running'
    BY <1>0, <2>1, <2>5 DEF FileInv, Running
  <2> QED
    BY <2>2, <2>3, <2>4, <2>6 DEF FileInv
<1>10. CASE Closed \/ ProcessCrash \/ OpenFails
  <2>1. /\ Forget /\ UNCHANGED <<log, tables, manifest>>
        /\ manifest_edit' \subseteq manifest_edit
    BY <1>10 DEF Closed, ProcessCrash, OpenFails, diskVars
  <2>2. /\ log' \in [DOMAIN log' -> Log] /\ DOMAIN log' \subseteq DOMAIN log
        /\ \A n \in DOMAIN log' : log'[n].synced <= Len(log'[n].records)
    BY <1>0, <2>1 DEF FileTypes
  <2> QED
    BY <1>0, <2>1, <2>2, FilesForgotten
<1>11. CASE MachineCrash
  <2>1. Forget /\ UNCHANGED <<tables, manifest, manifest_edit>>
    BY <1>11 DEF MachineCrash
  <2>2. /\ log' \in [DOMAIN log' -> Log] /\ DOMAIN log' \subseteq DOMAIN log
        /\ \A n \in DOMAIN log' : log'[n].synced = Len(log'[n].records)
    BY <1>0, <1>11, LogsCut
  <2>3. \A n \in DOMAIN log' : log'[n].synced <= Len(log'[n].records)
    BY <2>2 DEF Log
  <2> QED
    BY <1>0, <2>1, <2>2, <2>3, FilesForgotten
<1>12. CASE UNCHANGED vars
  <2>1. UNCHANGED fileVars
    BY <1>12 DEF vars, fileVars, memVars, openVars, diskVars
  <2> QED
    BY <1>0, <2>1, FilesUntouched
<1> QED
  BY <1>0, <1>1, <1>3, <1>4, <1>5, <1>6, <1>7, <1>8, <1>9, <1>10, <1>11, <1>12,
     FilesBackgroundStart, FilesTableBuilt, FilesApplied, FilesRecover, FilesRead,
     FilesOpenLog, FilesOpened
  DEF Next, CallStep, Background, Open

-----------------------------------------------------------------------------
(* Steps of the entries.                                                   *)

\* All that counts are entries, and an open log counts.
LEMMA LiveTypes ==
  ASSUME FileInv
  PROVE  /\ Live \subseteq Entry
         /\ \A e \in Live : e.seq \in Nat /\ e.call \in Calls
         /\ \A m \in Manifests : \A n \in DOMAIN log :
              n >= m.log_number => LogEntries(n) \subseteq Live
         /\ mem \subseteq Live /\ imm \subseteq Live
         /\ \A m \in Manifests : InTables(m) \subseteq Live
         /\ db = "open" => LogEntries(logfile_number) \subseteq Live
<1>1. FileTypes /\ Running /\ Installed
  BY DEF FileInv
<1>2. mem \subseteq Entry /\ imm \subseteq Entry
  BY <1>1 DEF FileTypes
<1>3. \A m : InTables(m) \subseteq Entry
  BY <1>1 DEF InTables, FileTypes
<1>4. \A n \in DOMAIN log : LogEntries(n) \subseteq Entry
  BY <1>1, LogTypes
<1>5. \A m : Findable(m) \subseteq Entry
  BY <1>3, <1>4 DEF Findable
<1>6. Live \subseteq Entry
  BY <1>2, <1>5 DEF Live
<1>7. \A e \in Live : e.seq \in Nat /\ e.call \in Calls
  BY <1>6 DEF Entry
<1>8. \A m \in Manifests : \A n \in DOMAIN log :
        n >= m.log_number => LogEntries(n) \subseteq Live
  BY DEF Live, Findable
<1>9. mem \subseteq Live /\ imm \subseteq Live
  BY DEF Live
<1>10. \A m \in Manifests : InTables(m) \subseteq Live
  BY DEF Live, Findable
<1>11. db = "open" => LogEntries(logfile_number) \subseteq Live
  <2> SUFFICES ASSUME db = "open" PROVE LogEntries(logfile_number) \subseteq Live
    OBVIOUS
  <2>1. /\ current = manifest /\ current.log_number <= logfile_number
        /\ logfile_number \in DOMAIN log
    BY <1>1 DEF Installed, Running
  <2>2. manifest.log_number \in Nat /\ logfile_number \in Nat
    BY <1>1 DEF FileTypes, Version
  <2>3. logfile_number >= manifest.log_number
    BY <2>1, <2>2
  <2> QED
    BY <1>8, <2>1, <2>3 DEF Manifests
<1> QED
  BY <1>6, <1>7, <1>8, <1>9, <1>10, <1>11

\* Nothing new counts and no call loses its batch.
LEMMA LiveShrinks ==
  ASSUME FileInv, LiveUnique, LiveCalls, Live' \subseteq Live,
         \A c \in Calls : call[c].batch => call'[c].batch
  PROVE  LiveUnique' /\ LiveCalls'
<1>1. LiveUnique'
  BY DEF LiveUnique
<1>2. LiveCalls'
  BY LiveTypes DEF LiveCalls
<1> QED
  BY <1>1, <1>2

\* A step to or in a database that is not open.
LEMMA EntriesAway ==
  ASSUME IInv, QueueInv', db' # "open", Live' \subseteq Live,
         \A c \in Calls : call[c].batch => call'[c].batch
  PROVE  EntryInv'
<1>1. LiveUnique' /\ LiveCalls'
  BY LiveShrinks DEF IInv, EntryInv
<1>2. LiveBelow' /\ MemHolds'
  BY DEF LiveBelow, MemHolds
<1>3. GroupInv'
  BY DEF QueueInv, GroupInv, Writing, InFlight
<1> QED
  BY <1>1, <1>2, <1>3 DEF EntryInv

\* A step that leaves the group and what is in memory alone.
LEMMA EntriesKept ==
  ASSUME IInv, Live' \subseteq Live,
         UNCHANGED <<mem, logfile_number, last_sequence, group, db>>,
         db = "open" => LogEntries(logfile_number)' = LogEntries(logfile_number),
         Len(writers) <= Len(writers'), Len(writers') \in Nat,
         \A i \in DOMAIN writers :
           /\ writers'[i] = writers[i]
           /\ call'[writers[i]].batch = call[writers[i]].batch
           /\ call'[writers[i]].sync = call[writers[i]].sync,
         \A c \in Calls :
           /\ call[c].batch => call'[c].batch
           /\ call[c].pc \in Writing \/ call'[c].pc \in Writing =>
                call'[c].pc = call[c].pc /\ call'[c].sync = call[c].sync
           /\ call[c].pc = "returned" =>
                call'[c].pc = "returned" /\ call'[c].result = call[c].result,
         db = "open" =>
           \A n \in DOMAIN log' :
             current'.log_number <= n /\ n < logfile_number =>
               \A e \in LogEntries(n)' :
                 e \in imm' \cup InTables(current)' \/ (e \in Entry /\ Failed(e))
  PROVE  EntryInv'
<1>1. /\ QueueInv /\ FileInv /\ GroupInv /\ LiveUnique /\ LiveBelow /\ LiveCalls
      /\ MemHolds
  BY DEF IInv, EntryInv
<1>2. LiveUnique' /\ LiveCalls'
  BY <1>1, LiveShrinks
<1>3. \A e : InGroup(e) => InGroup(e)'
  BY DEF InGroup
<1>4. LiveBelow'
  BY <1>1, <1>3 DEF LiveBelow
<1>5. \A e \in Entry : Failed(e) => Failed(e)'
  BY DEF Failed, Entry
<1>6. MemHolds'
  <2> SUFFICES ASSUME db = "open" PROVE MemHolds'
    BY DEF MemHolds
  <2>1. LogEntries(logfile_number) \subseteq Entry
    BY <1>1, LiveTypes
  <2>2. \A e \in LogEntries(logfile_number) : e \in mem \/ InGroup(e) \/ Failed(e)
    BY <1>1 DEF MemHolds
  <2>3. \A e \in LogEntries(logfile_number)' : e \in mem' \/ InGroup(e)' \/ Failed(e)'
    BY <1>3, <1>5, <2>1, <2>2
  <2>4. \A n \in DOMAIN log' : current'.log_number <= n /\ n < logfile_number =>
          \A e \in LogEntries(n)' :
            e \in imm' \cup InTables(current)' \/ Failed(e)'
    BY <1>5
  <2> QED
    BY <2>3, <2>4 DEF MemHolds
<1>7. GroupInv'
  <2> SUFFICES ASSUME NEW c \in Calls, call'[c].pc \in Writing
               PROVE  /\ call'[c].batch
                      /\ group'.size \in 1..Len(writers')
                      /\ CallsOf(group.entries) =
                           {writers'[i] : i \in {j \in 1..group.size : call'[writers'[j]].batch}}
                      /\ \A i \in 1..group.size : call'[writers'[i]].sync => call'[c].sync
                      /\ group.last >= last_sequence
                      /\ \A e \in group.entries : last_sequence < e.seq /\ e.seq <= group.last
                      /\ \A d, e \in group.entries : d.seq = e.seq => d = e
                      /\ group.sync_error => ~group.ok
                      /\ call'[c].pc # "finish" => group.ok
                      /\ call'[c].pc # "log" /\ group.ok =>
                           group.entries \subseteq LogEntries(logfile_number)'
                      /\ call'[c].pc = "finish" /\ group.ok => group.entries \subseteq mem
    BY DEF GroupInv, CallsOf
  <2>1. /\ call[c].pc \in Writing /\ call'[c].pc = call[c].pc /\ call'[c].sync = call[c].sync
    OBVIOUS
  <2>2. db = "open"
    BY <1>1, <2>1, FrontWriter DEF FrontPhases
  <2>3. /\ call[c].batch
        /\ group.size \in 1..Len(writers)
        /\ CallsOf(group.entries) =
             {writers[i] : i \in {j \in 1..group.size : call[writers[j]].batch}}
        /\ \A i \in 1..group.size : call[writers[i]].sync => call[c].sync
        /\ group.last >= last_sequence
        /\ \A e \in group.entries : last_sequence < e.seq /\ e.seq <= group.last
        /\ \A d, e \in group.entries : d.seq = e.seq => d = e
        /\ group.sync_error => ~group.ok
        /\ call[c].pc # "finish" => group.ok
        /\ call[c].pc # "log" /\ group.ok =>
             group.entries \subseteq LogEntries(logfile_number)
        /\ call[c].pc = "finish" /\ group.ok => group.entries \subseteq mem
    BY <1>1, <2>1 DEF GroupInv
  <2>4. \A i \in 1..group.size : i \in DOMAIN writers
    BY <1>1, <2>3, WritersShape
  <2>5. {writers'[i] : i \in {j \in 1..group.size : call'[writers'[j]].batch}} =
        {writers[i] : i \in {j \in 1..group.size : call[writers[j]].batch}}
    BY <2>4
  <2>6. group'.size \in 1..Len(writers')
    BY <1>1, <2>3, WritersShape
  <2>7. \A i \in 1..group.size : call'[writers'[i]].sync => call'[c].sync
    BY <2>1, <2>3, <2>4
  <2> QED
    BY <2>1, <2>2, <2>3, <2>5, <2>6, <2>7
<1> QED
  BY <1>2, <1>4, <1>6, <1>7 DEF EntryInv

\* A step that touches no file.
LEMMA EntriesSame ==
  ASSUME UNCHANGED <<mem, imm, log, tables, manifest, manifest_edit>>
  PROVE  /\ Live' = Live /\ \A n : LogEntries(n)' = LogEntries(n)
         /\ \A m : InTables(m)' = InTables(m)
<1>1. \A n : LogEntries(n)' = LogEntries(n)
  BY DEF LogEntries
<1>2. \A m : InTables(m)' = InTables(m)
  BY DEF InTables
<1>3. \A m : Findable(m)' = Findable(m)
  BY <1>1, <1>2 DEF Findable
<1>4. Manifests' = Manifests
  BY DEF Manifests
<1>5. Live' = Live
  BY <1>3, <1>4 DEF Live
<1> QED
  BY <1>1, <1>2, <1>5

\* MakeRoomForWrite without a switch: no group is under way.
LEMMA EntriesRoom ==
  ASSUME IInv, UNCHANGED fileVars,
         \A c \in Calls :
           /\ call[c].pc \notin Writing
           /\ call[c].batch => call'[c].batch
           /\ call[c].pc = "returned" =>
                call'[c].pc = "returned" /\ call'[c].result = call[c].result
  PROVE  LiveUnique' /\ LiveBelow' /\ LiveCalls' /\ MemHolds'
<1>1. FileInv /\ LiveUnique /\ LiveBelow /\ LiveCalls /\ MemHolds
  BY DEF IInv, EntryInv
<1>2. /\ Live' = Live /\ \A n : LogEntries(n)' = LogEntries(n)
      /\ \A m : InTables(m)' = InTables(m)
  BY EntriesSame DEF fileVars
<1>3. LiveUnique' /\ LiveCalls'
  BY <1>1, <1>2, LiveShrinks
<1>4. \A e : ~InGroup(e)
  BY DEF InGroup
<1>5. LiveBelow'
  BY <1>1, <1>2, <1>4 DEF LiveBelow, fileVars
<1>6. \A e \in Entry : Failed(e) => Failed(e)'
  BY DEF Failed, Entry, fileVars
<1>7. MemHolds'
  <2> SUFFICES ASSUME db = "open" PROVE MemHolds'
    BY DEF MemHolds, fileVars
  <2>1. LogEntries(logfile_number) \subseteq Entry
    BY <1>1, LiveTypes
  <2>2. \A e \in LogEntries(logfile_number) : e \in mem \/ Failed(e)'
    BY <1>1, <1>4, <1>6, <2>1 DEF MemHolds
  <2>3. LogEntries(logfile_number)' = LogEntries(logfile_number)
    BY <1>2 DEF fileVars
  <2>4. \A n \in DOMAIN log :
          current.log_number <= n /\ n < logfile_number =>
            \A e \in LogEntries(n) : e \in imm \cup InTables(current) \/ Failed(e)'
    <3>1. \A n \in DOMAIN log : LogEntries(n) \subseteq Entry
      BY <1>1, LogTypes DEF FileInv
    <3> QED
      BY <1>1, <1>6, <3>1 DEF MemHolds
  <2>5. InTables(current)' = InTables(current)
    BY <1>2 DEF fileVars
  <2> QED
    BY <1>2, <2>2, <2>3, <2>4, <2>5 DEF MemHolds, fileVars
<1> QED
  BY <1>3, <1>5, <1>7

\* Nobody works in a group while the first writer makes room.
LEMMA RoomAlone ==
  ASSUME QueueInv, NEW c \in Calls, AtFront(c)
  PROVE  /\ db = "open" /\ 1 \in 1..Len(writers) /\ c = writers[1]
         /\ \A d \in Calls : call[d].pc \notin Writing
         /\ call[c].pc = "front"
<1>1. call[c].pc = "front" /\ writers # <<>>
  BY DEF AtFront
<1>2. call[c].pc \in FrontPhases /\ call[c].pc \notin Writing
  BY <1>1 DEF FrontPhases, Writing
<1>3. db = "open" /\ 1 \in DOMAIN writers /\ c = writers[1]
      /\ \A d \in Calls : call[d].pc \in FrontPhases => d = c
  BY <1>2, FrontWriter
<1>4. \A d \in Calls : call[d].pc \notin Writing
  BY <1>2, <1>3 DEF FrontPhases
<1> QED
  BY <1>1, <1>3, <1>4, WritersShape

\* The steps of MakeRoomForWrite without a switch keep the entries.
LEMMA EntriesRoomSteps ==
  ASSUME IInv, NEW c \in Calls,
         \/ RoomError(c) \/ RoomNoBatch(c) \/ RoomSwitchFails(c)
         \/ RoomDelay(c) \/ RoomWait(c) \/ RoomBatch(c)
  PROVE  EntryInv'
<1>0. QueueInv /\ FileTypes /\ FileInv
  BY DEF IInv, FileInv
<1>1. AtFront(c) /\ UNCHANGED fileVars
  BY DEF RoomError, RoomNoBatch, RoomSwitchFails, RoomDelay, RoomWait, RoomBatch,
         MustSwitch, fileVars, memVars, openVars, diskVars
<1>2. /\ db = "open" /\ 1 \in 1..Len(writers) /\ c = writers[1]
      /\ \A d \in Calls : call[d].pc \notin Writing
      /\ call[c].pc = "front"
  BY <1>0, <1>1, RoomAlone
<1>3. CASE RoomError(c) \/ RoomNoBatch(c) \/ RoomSwitchFails(c)
  <2>1. \E ok \in BOOLEAN : Finish(call, 1, ok)
    BY <1>3 DEF RoomError, RoomNoBatch, RoomSwitchFails
  <2>2. PICK ok \in BOOLEAN : Finish(call, 1, ok)
    BY <2>1
  <2>3. call \in [Calls -> CallState] /\ db' = db
    BY <1>0, <1>1 DEF QueueInv, fileVars
  <2>4. /\ \A d \in Calls : call'[d].pc \notin Writing
        /\ \A d \in Calls : call'[d].batch = call[d].batch
        /\ \A d \in Calls : (\A i \in 1..1 : writers[i] # d) =>
             /\ call'[d].result = call[d].result
             /\ call[d].pc \notin InFlight => call'[d].pc = call[d].pc
    BY <1>0, <1>2, <2>2, <2>3, WritersLeave
  <2>5. \A d \in Calls : call[d].pc = "returned" =>
          call'[d].pc = "returned" /\ call'[d].result = call[d].result
    <3>1. "returned" \notin InFlight
      BY DEF InFlight
    <3> QED
      BY <1>2, <2>4, <3>1
  <2>6. LiveUnique' /\ LiveBelow' /\ LiveCalls' /\ MemHolds'
    BY <1>1, <1>2, <2>4, <2>5, EntriesRoom
  <2>7. GroupInv'
    BY <2>4 DEF GroupInv
  <2> QED
    BY <2>6, <2>7 DEF EntryInv
<1>4. CASE RoomDelay(c) \/ RoomWait(c) \/ RoomBatch(c)
  <2>1. /\ call'[c].batch = call[c].batch /\ call'[c].sync = call[c].sync
        /\ call'[c].result = call[c].result
        /\ \A d \in Calls : d # c => call'[d] = call[d]
        /\ UNCHANGED writers
    BY <1>0, <1>4, FrontStep
  <2>2. \A d \in Calls : /\ call'[d].batch = call[d].batch
                         /\ call'[d].sync = call[d].sync
                         /\ call[d].pc = "returned" =>
                              call'[d].pc = "returned" /\ call'[d].result = call[d].result
    BY <1>2, <2>1
  <2>3. LiveUnique' /\ LiveBelow' /\ LiveCalls' /\ MemHolds'
    BY <1>1, <1>2, <2>2, EntriesRoom
  <2>4. CASE RoomDelay(c) \/ RoomWait(c)
    <3>1. call'[c].pc \in {"front", "bgwait"}
      BY <1>0, <1>2, <2>4 DEF RoomDelay, RoomWait, QueueInv, CallState
    <3>2. \A d \in Calls : call'[d].pc \notin Writing
      BY <1>2, <2>1, <3>1 DEF Writing
    <3> QED
      BY <2>3, <3>2 DEF GroupInv, EntryInv
  <2>5. CASE RoomBatch(c)
    <3>1. PICK n \in GroupSizes :
            group' = [size |-> n, entries |-> Updates(n),
                      last |-> last_sequence + Cardinality(Updates(n)),
                      ok |-> TRUE, sync_error |-> FALSE]
      BY <2>5 DEF RoomBatch
    <3>2. /\ n \in 1..Len(writers) /\ last_sequence \in Nat
          /\ \A i \in 2..n : call[writers[i]].sync => call[Head(writers)].sync
      BY <1>0 DEF GroupSizes, FileTypes
    <3>3. /\ Cardinality(Updates(n)) \in Nat
          /\ CallsOf(Updates(n)) =
              {writers[i] : i \in {j \in 1..n : call[writers[j]].batch}}
          /\ \A e \in Updates(n) :
               /\ last_sequence < e.seq
               /\ e.seq <= last_sequence + Cardinality(Updates(n))
          /\ \A d, e \in Updates(n) : d.seq = e.seq => d = e
      BY <1>0, <3>2, UpdatesNumbered
    <3>4. /\ group'.size = n /\ group'.entries = Updates(n)
          /\ group'.last = last_sequence + Cardinality(Updates(n))
          /\ group'.ok = TRUE /\ group'.sync_error = FALSE
      BY <3>1
    <3>5. call'[c].pc = "log" /\ call[c].batch
      BY <1>0, <2>5 DEF RoomBatch, QueueInv, CallState
    <3>6. \A d \in Calls : call'[d].pc \in Writing => d = c
      BY <1>2, <2>1
    <3>7. Head(writers) = c /\ \A i \in 1..n : writers[i] \in Calls
      BY <1>0, <1>1, <3>2, WritersShape DEF AtFront
    <3>8. \A i \in 1..n : call'[writers[i]].sync => call'[c].sync
      <4> SUFFICES ASSUME NEW i \in 1..n, call'[writers[i]].sync PROVE call'[c].sync
        OBVIOUS
      <4>1. i = 1 \/ i \in 2..n
        BY <1>0, <3>2, WritersShape
      <4> QED
        BY <1>2, <2>2, <3>2, <3>7, <4>1
    <3>9. {writers[i] : i \in {j \in 1..n : call'[writers[j]].batch}} =
          {writers[i] : i \in {j \in 1..n : call[writers[j]].batch}}
      BY <2>2, <3>7
    <3>10. last_sequence' = last_sequence
      BY <1>1 DEF fileVars
    <3>11. group'.last >= last_sequence
      BY <3>2, <3>3, <3>4
    <3>12. CallsOf(group.entries)' = CallsOf(Updates(n))
      BY <3>4 DEF CallsOf
    <3>13. ASSUME NEW d \in Calls, call'[d].pc \in Writing
           PROVE  /\ call'[d].batch
                  /\ group'.size \in 1..Len(writers')
                  /\ CallsOf(group.entries)' =
                       {writers'[i] : i \in {j \in 1..group'.size : call'[writers'[j]].batch}}
                  /\ \A i \in 1..group'.size : call'[writers'[i]].sync => call'[d].sync
                  /\ group'.last >= last_sequence'
                  /\ \A e \in group'.entries :
                       last_sequence' < e.seq /\ e.seq <= group'.last
                  /\ \A b, e \in group'.entries : b.seq = e.seq => b = e
                  /\ group'.ok /\ ~group'.sync_error /\ call'[d].pc = "log"
      <4>1. d = c
        BY <3>6, <3>13
      <4>2. /\ call'[d].batch /\ group'.size \in 1..Len(writers')
            /\ group'.ok /\ ~group'.sync_error /\ call'[d].pc = "log"
        BY <2>1, <3>2, <3>4, <3>5, <4>1
      <4>3. /\ \A e \in group'.entries :
                 last_sequence' < e.seq /\ e.seq <= group'.last
            /\ \A b, e \in group'.entries : b.seq = e.seq => b = e
            /\ group'.last >= last_sequence'
        BY <3>3, <3>4, <3>10, <3>11
      <4>4. /\ CallsOf(group.entries)' =
                 {writers'[i] : i \in {j \in 1..group'.size : call'[writers'[j]].batch}}
            /\ \A i \in 1..group'.size : call'[writers'[i]].sync => call'[d].sync
        BY <2>1, <3>3, <3>4, <3>8, <3>9, <3>12, <4>1
      <4> QED
        BY <4>2, <4>3, <4>4
    <3>14. GroupInv'
      BY <3>13 DEF GroupInv
    <3> QED
      BY <2>3, <3>14 DEF EntryInv
  <2> QED
    BY <1>4, <2>4, <2>5
<1> QED
  BY <1>3, <1>4

\* The old log's entries are in the memtable that is switched away.
LEMMA EntriesSwitched ==
  ASSUME IInv, NEW c \in Calls, RoomSwitch(c)
  PROVE  EntryInv'
<1>0. /\ QueueInv /\ FileTypes /\ FileInv /\ Running /\ Installed
      /\ LiveUnique /\ LiveBelow /\ LiveCalls /\ MemHolds
  BY DEF IInv, FileInv, EntryInv
<1>1. /\ AtFront(c) /\ ~has_imm /\ ~bg_error
      /\ next_file_number < MaxFileNumber
      /\ logfile_number' = next_file_number
      /\ imm' = mem /\ mem' = {}
      /\ log' = [n \in DOMAIN log \cup {next_file_number} |->
                   IF n = next_file_number THEN [records |-> <<>>, synced |-> 0]
                   ELSE log[n]]
      /\ UNCHANGED <<last_sequence, current, tables, manifest, manifest_edit, db>>
  BY DEF RoomSwitch, MustSwitch, openVars
<1>2. /\ db = "open" /\ \A d \in Calls : call[d].pc \notin Writing
      /\ call[c].pc = "front"
  BY <1>0, <1>1, RoomAlone
<1>3. /\ call'[c].batch = call[c].batch
      /\ \A d \in Calls : d # c => call'[d] = call[d]
  BY <1>0, FrontStep
<1>4. call'[c].pc = "front"
  BY <1>0, <1>2 DEF RoomSwitch, QueueInv, CallState
<1>5. \A d \in Calls : call'[d].batch = call[d].batch /\ call'[d].pc \notin Writing
  BY <1>2, <1>3, <1>4 DEF Writing
<1>6. /\ imm = {} /\ logfile_number \in DOMAIN log
      /\ logfile_number < next_file_number
      /\ \A n \in DOMAIN log : n <= logfile_number
      /\ logfile_number \in Nat /\ next_file_number \in Nat /\ MaxFileNumber \in Nat
      /\ DOMAIN log \subseteq Nat
  <2>1. logfile_number \in Nat /\ next_file_number \in Nat /\ MaxFileNumber \in Nat
        /\ DOMAIN log \subseteq Nat
    BY <1>0, DBImplAssumption DEF FileTypes
  <2> QED
    BY <1>0, <1>1, <1>2, <2>1 DEF Running
<1>k. PICK k : k = next_file_number
  OBVIOUS
<1>7. /\ DOMAIN log' = DOMAIN log \cup {k} /\ log'[k].records = <<>>
      /\ logfile_number' = k
      /\ \A n \in DOMAIN log : log'[n] = log[n]
  <2>1. k \in 0..(MaxFileNumber - 1)
    BY <1>1, <1>6, <1>k
  <2>2. \A n \in DOMAIN log : n # k
    BY <1>6, <1>k
  <2> QED
    BY <1>0, <1>1, <1>k, <2>1, <2>2, LogCreated
<1>8. LogEntries(k)' = {} /\ \A n \in DOMAIN log : LogEntries(n)' = LogEntries(n)
  BY <1>7 DEF LogEntries
<1>9. /\ \A m : InTables(m)' = InTables(m)
      /\ InTables(current)' = InTables(current) /\ Manifests' = Manifests
  BY <1>1 DEF InTables, Manifests
<1>10. \A m : Findable(m)' \subseteq Findable(m)
  BY <1>7, <1>8, <1>9 DEF Findable
<1>11. Live' \subseteq Live
  BY <1>1, <1>9, <1>10 DEF Live
<1>12. LiveUnique' /\ LiveCalls'
  BY <1>0, <1>5, <1>11, LiveShrinks
<1>13. /\ \A e : ~InGroup(e)
       /\ \A n \in DOMAIN log : \A e \in LogEntries(n) : Failed(e) => Failed(e)'
  <2>1. \A n \in DOMAIN log : \A e \in LogEntries(n) : e.call \in Calls
    BY <1>0, LogTypes DEF Entry
  <2>2. \A d \in Calls : call[d].pc = "returned" =>
          call'[d].pc = "returned" /\ call'[d].result = call[d].result
    BY <1>2, <1>3
  <2> QED
    BY <1>2, <2>1, <2>2 DEF InGroup, Failed
<1>14. LiveBelow'
  BY <1>0, <1>1, <1>2, <1>11, <1>13 DEF LiveBelow
<1>15. MemHolds'
  <2>1. \A e \in LogEntries(logfile_number) : e \in mem \/ Failed(e)
    BY <1>0, <1>2, <1>13 DEF MemHolds
  <2>2. \A n \in DOMAIN log : current.log_number <= n /\ n < logfile_number =>
          \A e \in LogEntries(n) : e \in InTables(current) \/ Failed(e)
    BY <1>0, <1>2, <1>6 DEF MemHolds
  <2>3. ASSUME NEW n \in DOMAIN log', current.log_number <= n, n < k
        PROVE  \A e \in LogEntries(n)' :
                 e \in imm' \cup InTables(current)' \/ Failed(e)'
    <3>1. n \in DOMAIN log /\ n <= logfile_number /\ n \in Nat
      BY <1>6, <1>7, <1>k, <2>3
    <3>2. CASE n = logfile_number
      BY <1>1, <1>8, <1>13, <2>1, <3>1, <3>2
    <3>3. CASE n < logfile_number
      BY <1>8, <1>9, <1>13, <2>2, <2>3, <3>1, <3>3
    <3> QED
      BY <1>6, <3>1, <3>2, <3>3
  <2>4. LogEntries(logfile_number)' = {}
    BY <1>7, <1>8 DEF LogEntries
  <2> QED
    BY <1>1, <1>7, <2>3, <2>4 DEF MemHolds
<1>16. GroupInv'
  BY <1>5 DEF GroupInv
<1> QED
  BY <1>12, <1>14, <1>15, <1>16 DEF EntryInv

\* The group of a working writer.
LEMMA GroupFacts ==
  ASSUME IInv, NEW c \in Calls, call[c].pc \in Writing
  PROVE  /\ db = "open" /\ call[c].batch /\ call[c].pc \in FrontPhases
         /\ \A d \in Calls : call[d].pc \in Writing => d = c
         /\ group.size \in 1..Len(writers) /\ group.entries \subseteq Entry
         /\ \A i \in 1..group.size : i \in DOMAIN writers /\ writers[i] \in Calls
         /\ group.last \in Nat /\ last_sequence \in Nat
         /\ group.ok \in BOOLEAN /\ group.sync_error \in BOOLEAN
         /\ \A e \in group.entries :
              \E i \in 1..group.size : e.call = writers[i] /\ call[e.call].batch
         /\ LogEntries(logfile_number) \subseteq Live
         /\ call[c].pc = "log" =>
              /\ \A e : ~InGroup(e)
              /\ \A e \in Live : e.seq <= last_sequence
              /\ group.entries \cap Live = {}
<1>1. QueueInv /\ FileInv /\ FileTypes /\ GroupInv /\ LiveBelow
  BY DEF IInv, FileInv, EntryInv
<1>2. /\ call[c].pc \in FrontPhases /\ db = "open"
      /\ \A d \in Calls : call[d].pc \in Writing => d = c
  BY <1>1, FrontWriter DEF FrontPhases
<1>3. /\ call[c].batch /\ group.size \in 1..Len(writers)
      /\ CallsOf(group.entries) =
           {writers[i] : i \in {j \in 1..group.size : call[writers[j]].batch}}
      /\ \A e \in group.entries : last_sequence < e.seq
  BY <1>1 DEF GroupInv
<1>4. /\ group.entries \subseteq Entry /\ group.last \in Nat
      /\ group.ok \in BOOLEAN /\ group.sync_error \in BOOLEAN
  BY <1>1 DEF QueueInv, Group
<1>5. \A i \in 1..group.size : i \in DOMAIN writers /\ writers[i] \in Calls
  BY <1>1, <1>3, WritersShape
<1>6. \A e \in group.entries :
        \E i \in 1..group.size : e.call = writers[i] /\ call[e.call].batch
  BY <1>3 DEF CallsOf
<1>7. last_sequence \in Nat
  BY <1>1 DEF FileTypes
<1>8. LogEntries(logfile_number) \subseteq Live
  BY <1>1, <1>2, LiveTypes
<1>9. ASSUME call[c].pc = "log"
      PROVE  /\ \A e : ~InGroup(e)
             /\ \A e \in Live : e.seq <= last_sequence
             /\ group.entries \cap Live = {}
  <2>1. \A e : ~InGroup(e)
    BY <1>2, <1>9 DEF InGroup
  <2>2. \A e \in Live : e.seq <= last_sequence
    BY <1>1, <1>2, <2>1 DEF LiveBelow
  <2>3. \A e \in Live : e.seq \in Nat
    BY <1>1, LiveTypes
  <2>4. group.entries \cap Live = {}
    BY <1>3, <1>7, <2>2, <2>3
  <2> QED
    BY <2>1, <2>2, <2>4
<1> QED
  BY <1>2, <1>3, <1>4, <1>5, <1>6, <1>7, <1>8, <1>9

\* The working writer goes on with its group.
LEMMA GroupGoesOn ==
  ASSUME IInv, NEW c \in Calls, call[c].pc \in Writing, call'[c].pc \in Writing,
         call'[c].batch = call[c].batch, call'[c].sync = call[c].sync,
         \A d \in Calls : d # c => call'[d] = call[d],
         UNCHANGED <<writers, last_sequence>>,
         group'.size = group.size, group'.entries = group.entries,
         group'.last = group.last, group'.sync_error => ~group'.ok,
         call'[c].pc # "finish" => group'.ok,
         (call'[c].pc # "log" /\ group'.ok) =>
           group.entries \subseteq LogEntries(logfile_number)',
         (call'[c].pc = "finish" /\ group'.ok) => group.entries \subseteq mem'
  PROVE  GroupInv'
<1>1. /\ call[c].batch /\ group.size \in 1..Len(writers)
      /\ CallsOf(group.entries) =
           {writers[i] : i \in {j \in 1..group.size : call[writers[j]].batch}}
      /\ \A i \in 1..group.size : call[writers[i]].sync => call[c].sync
      /\ group.last >= last_sequence
      /\ \A e \in group.entries : last_sequence < e.seq /\ e.seq <= group.last
      /\ \A d, e \in group.entries : d.seq = e.seq => d = e
  BY DEF IInv, EntryInv, GroupInv
<1>2. /\ \A d \in Calls : call[d].pc \in Writing => d = c
      /\ \A i \in 1..group.size : writers[i] \in Calls
  BY GroupFacts
<1>3. \A d \in Calls : /\ call'[d].batch = call[d].batch /\ call'[d].sync = call[d].sync
                       /\ call'[d].pc \in Writing => d = c
  BY <1>2
<1>4. {writers[i] : i \in {j \in 1..group.size : call'[writers[j]].batch}} =
      {writers[i] : i \in {j \in 1..group.size : call[writers[j]].batch}}
  BY <1>2, <1>3
<1>5. CallsOf(group.entries)' = CallsOf(group.entries)
  BY DEF CallsOf
<1>6. /\ CallsOf(group.entries)' =
           {writers'[i] : i \in {j \in 1..group'.size : call'[writers'[j]].batch}}
      /\ \A i \in 1..group'.size : call'[writers'[i]].sync => call'[c].sync
  BY <1>1, <1>2, <1>3, <1>4, <1>5
<1> QED
  BY <1>1, <1>3, <1>6 DEF GroupInv

\* What a new record adds to the entries.
LEMMA EntriesAppended ==
  ASSUME FileInv, db = "open", NEW r \in Record,
         log' = [log EXCEPT ![logfile_number].records = Append(@, r)],
         UNCHANGED <<mem, imm, tables, manifest, manifest_edit, logfile_number, current>>
  PROVE  /\ DOMAIN log' = DOMAIN log
         /\ LogEntries(logfile_number)' = LogEntries(logfile_number) \cup r.entries
         /\ \A n \in DOMAIN log : n # logfile_number => LogEntries(n)' = LogEntries(n)
         /\ \A n \in DOMAIN log : /\ LogEntries(n) \subseteq LogEntries(n)'
                                  /\ LogEntries(n)' \subseteq LogEntries(n) \cup r.entries
         /\ Live' \subseteq Live \cup r.entries
         /\ InTables(current)' = InTables(current)
<1>1. FileTypes /\ logfile_number \in DOMAIN log
  BY DEF FileInv, Running
<1>2. PICK l \in Log : /\ l.records = Append(log[logfile_number].records, r)
                       /\ log' = [log EXCEPT ![logfile_number] = l]
  BY RecordAdded
<1>3. /\ DOMAIN log' = DOMAIN log /\ log'[logfile_number] = l
      /\ \A n \in DOMAIN log : n # logfile_number => log'[n] = log[n]
  BY <1>1, <1>2
<1>4. PICK old : old = log[logfile_number].records
  OBVIOUS
<1>5. old \in Seq(Record) /\ Len(old) \in Nat /\ DOMAIN old = 1..Len(old)
  BY <1>1, <1>4, LogTypes
<1>6. /\ l.records = Append(old, r) /\ DOMAIN l.records = 1..(Len(old) + 1)
      /\ l.records[Len(old) + 1] = r
      /\ \A i \in DOMAIN old : l.records[i] = old[i]
  BY <1>2, <1>4, <1>5, AppendProperties, LenProperties
<1>7. UNION {l.records[i].entries : i \in DOMAIN l.records} =
      (UNION {old[i].entries : i \in DOMAIN old}) \cup r.entries
  BY <1>5, <1>6
<1>8. LogEntries(logfile_number)' = LogEntries(logfile_number) \cup r.entries
  <2>1. LogEntries(logfile_number)' =
          UNION {l.records[i].entries : i \in DOMAIN l.records}
    BY <1>3, ZenonT(60) DEF LogEntries
  <2>2. LogEntries(logfile_number) = UNION {old[i].entries : i \in DOMAIN old}
    BY <1>4 DEF LogEntries
  <2> QED
    BY <1>7, <2>1, <2>2
<1>9. \A n \in DOMAIN log : n # logfile_number => LogEntries(n)' = LogEntries(n)
  BY <1>3 DEF LogEntries
<1>10. \A n \in DOMAIN log : /\ LogEntries(n) \subseteq LogEntries(n)'
                             /\ LogEntries(n)' \subseteq LogEntries(n) \cup r.entries
  <2> SUFFICES ASSUME NEW n \in DOMAIN log
               PROVE  /\ LogEntries(n) \subseteq LogEntries(n)'
                      /\ LogEntries(n)' \subseteq LogEntries(n) \cup r.entries
    OBVIOUS
  <2>1. CASE n = logfile_number
    <3>0. log'[n] = l
      BY <1>3, <2>1
    <3>1. LogEntries(n)' = UNION {l.records[i].entries : i \in DOMAIN l.records}
      BY <3>0 DEF LogEntries
    <3>2. LogEntries(n) = UNION {old[i].entries : i \in DOMAIN old}
      BY <1>4, <2>1 DEF LogEntries
    <3> QED
      BY <1>7, <3>1, <3>2
  <2>2. CASE n # logfile_number
    BY <1>9, <2>2
  <2> QED
    BY <2>1, <2>2
<1>11. \A m : InTables(m)' = InTables(m)
  BY DEF InTables
<1>12. \A m : Findable(m)' \subseteq Findable(m) \cup r.entries
  BY <1>3, <1>10, <1>11 DEF Findable
<1>13. Manifests' = Manifests
  BY DEF Manifests
<1>14. Live' \subseteq Live \cup r.entries
  BY <1>12, <1>13 DEF Live
<1>15. InTables(current)' = InTables(current)
  BY DEF InTables
<1> QED
  BY <1>3, <1>8, <1>9, <1>10, <1>14, <1>15

\* A step of the working writer that adds nothing to the logs.
LEMMA EntriesWork ==
  ASSUME IInv, NEW c \in Calls, call[c].pc \in Writing,
         call'[c].pc \in Writing \ {"log"}, GroupInv',
         call'[c].batch = call[c].batch,
         \A d \in Calls : d # c => call'[d] = call[d],
         group'.entries = group.entries, Live' \subseteq Live, mem \subseteq mem',
         UNCHANGED <<last_sequence, db, current, imm, logfile_number>>,
         DOMAIN log' = DOMAIN log, \A n \in DOMAIN log : LogEntries(n)' = LogEntries(n),
         LogEntries(logfile_number)' = LogEntries(logfile_number),
         InTables(current)' = InTables(current)
  PROVE  EntryInv'
<1>0. /\ FileInv /\ LiveUnique /\ LiveBelow /\ LiveCalls /\ MemHolds
  BY DEF IInv, EntryInv
<1>1. /\ db = "open" /\ LogEntries(logfile_number) \subseteq Live
  BY GroupFacts
<1>2. LiveUnique' /\ LiveCalls'
  <2>1. \A d \in Calls : call[d].batch => call'[d].batch
    OBVIOUS
  <2> QED
    BY <1>0, <2>1, LiveShrinks
<1>3. \A e : InGroup(e) => InGroup(e)'
  BY DEF InGroup
<1>4. LiveBelow'
  BY <1>0, <1>1, <1>3 DEF LiveBelow
<1>5. /\ \A n \in DOMAIN log : \A e \in LogEntries(n) : Failed(e) => Failed(e)'
      /\ logfile_number \in DOMAIN log
  <2>1. \A n \in DOMAIN log : \A e \in LogEntries(n) : e.call \in Calls
    BY <1>0, LogTypes DEF FileInv, Entry
  <2>2. \A d \in Calls : call[d].pc = "returned" => call'[d] = call[d]
    BY DEF Writing
  <2> QED
    BY <1>0, <1>1, <2>1, <2>2 DEF Failed, FileInv, Running
<1>6. \A e \in LogEntries(logfile_number)' : e \in mem' \/ InGroup(e)' \/ Failed(e)'
  BY <1>0, <1>1, <1>3, <1>5 DEF MemHolds
<1>7. MemHolds'
  BY <1>0, <1>1, <1>5, <1>6 DEF MemHolds
<1> QED
  BY <1>2, <1>4, <1>7 DEF EntryInv

\* The group is logged: its numbers are new.
LEMMA EntriesLogged ==
  ASSUME IInv, NEW c \in Calls, call[c].pc = "log",
         call'[c].pc \in Writing \ {"log"}, GroupInv',
         call'[c].batch = call[c].batch,
         \A d \in Calls : d # c => call'[d] = call[d],
         group'.entries = group.entries,
         log' = [log EXCEPT ![logfile_number].records =
                   Append(@, [entries |-> group.entries, torn |-> FALSE])],
         UNCHANGED <<mem, imm, logfile_number, last_sequence, current, db, tables,
                     manifest, manifest_edit>>
  PROVE  EntryInv'
<1>0. /\ QueueInv /\ FileTypes /\ FileInv /\ GroupInv
      /\ LiveUnique /\ LiveBelow /\ LiveCalls /\ MemHolds
  BY DEF IInv, FileInv, EntryInv
<1>1. call[c].pc \in Writing /\ call[c].pc # "returned"
  BY DEF Writing
<1>2. /\ db = "open" /\ group.entries \subseteq Entry
      /\ \A e \in group.entries :
           \E i \in 1..group.size : e.call = writers[i] /\ call[e.call].batch
      /\ LogEntries(logfile_number) \subseteq Live
      /\ \A e : ~InGroup(e)
      /\ \A e \in Live : e.seq <= last_sequence
      /\ last_sequence \in Nat
  BY <1>1, GroupFacts
<1>3. PICK r : r = [entries |-> group.entries, torn |-> FALSE]
  OBVIOUS
<1>4. r \in Record /\ r.entries = group.entries
  BY <1>2, <1>3 DEF Record
<1>5. /\ DOMAIN log' = DOMAIN log
      /\ LogEntries(logfile_number)' = LogEntries(logfile_number) \cup group.entries
      /\ \A n \in DOMAIN log : n # logfile_number => LogEntries(n)' = LogEntries(n)
      /\ Live' \subseteq Live \cup group.entries
      /\ InTables(current)' = InTables(current)
  BY <1>0, <1>2, <1>3, <1>4, EntriesAppended
<1>6. /\ \A e \in group.entries : last_sequence < e.seq
      /\ \A d, e \in group.entries : d.seq = e.seq => d = e
  BY <1>0, <1>1 DEF GroupInv
<1>7. \A d \in Calls : call'[d].batch = call[d].batch
  OBVIOUS
<1>8. LiveUnique'
  <2> SUFFICES ASSUME NEW d \in Live \cup group.entries, NEW e \in Live \cup group.entries,
                      d.seq = e.seq
               PROVE  d = e
    BY <1>5 DEF LiveUnique
  <2>1. \A x \in Live \cup group.entries : x.seq \in Nat
    BY <1>0, <1>2, LiveTypes DEF Entry
  <2>2. CASE d \in Live /\ e \in Live
    BY <1>0, <2>2 DEF LiveUnique
  <2>3. CASE d \in group.entries /\ e \in group.entries
    BY <1>6, <2>3
  <2>4. ~(d \in Live /\ e \in group.entries) /\ ~(e \in Live /\ d \in group.entries)
    BY <1>2, <1>6, <2>1
  <2> QED
    BY <2>2, <2>3, <2>4
<1>9. \A e \in group.entries : InGroup(e)'
  BY DEF InGroup
<1>10. LiveBelow'
  BY <1>2, <1>5, <1>9 DEF LiveBelow
<1>11. LiveCalls'
  <2>1. \A e \in Live : e.call \in Calls /\ call[e.call].batch
    BY <1>0, LiveTypes DEF LiveCalls
  <2>2. \A e \in group.entries : e.call \in Calls /\ call[e.call].batch
    BY <1>2 DEF Entry
  <2> QED
    BY <1>5, <1>7, <2>1, <2>2 DEF LiveCalls
<1>12. MemHolds'
  <2>1. \A n \in DOMAIN log : \A e \in LogEntries(n) : Failed(e) => Failed(e)'
    <3>1. \A n \in DOMAIN log : \A e \in LogEntries(n) : e.call \in Calls
      BY <1>0, LogTypes DEF Entry
    <3> QED
      BY <1>1, <3>1 DEF Failed
  <2>2. /\ \A e \in LogEntries(logfile_number) : e \in mem \/ Failed(e)
        /\ logfile_number \in DOMAIN log
    BY <1>0, <1>2 DEF MemHolds, FileInv, Running
  <2>3. \A e \in LogEntries(logfile_number)' : e \in mem' \/ InGroup(e)' \/ Failed(e)'
    BY <1>5, <1>9, <2>1, <2>2
  <2>4. \A n \in DOMAIN log : current.log_number <= n /\ n < logfile_number =>
          \A e \in LogEntries(n)' : e \in imm \cup InTables(current) \/ Failed(e)'
    <3>1. \A n \in DOMAIN log : n < logfile_number => n # logfile_number
      BY <1>0 DEF FileTypes
    <3> QED
      BY <1>0, <1>2, <1>5, <2>1, <3>1 DEF MemHolds
  <2> QED
    BY <1>5, <2>3, <2>4 DEF MemHolds
<1> QED
  BY <1>8, <1>10, <1>11, <1>12 DEF EntryInv

\* The record is written, part of it is, or none: a group that failed may
\* have all its entries in the log.
LEMMA EntriesAddRecord ==
  ASSUME IInv, NEW c \in Calls, AddRecord(c) \/ AddRecordFails(c) \/ AddRecordTears(c)
  PROVE  EntryInv'
<1>0. QueueInv /\ FileTypes /\ FileInv
  BY DEF IInv, FileInv
<1>1. /\ call[c].pc = "log"
      /\ UNCHANGED <<writers, mem, imm, logfile_number, last_sequence, current,
                     db, tables, manifest, manifest_edit>>
  BY DEF AddRecord, AddRecordFails, AddRecordTears, memVars, openVars
<1>2. call[c].pc \in Writing
  BY <1>1 DEF Writing
<1>3. /\ call'[c].batch = call[c].batch /\ call'[c].sync = call[c].sync
      /\ \A d \in Calls : d # c => call'[d] = call[d]
  BY <1>0, FrontStep
<1>4. /\ call'[c].pc \in Writing \ {"log"}
      /\ AddRecord(c) => call'[c].pc # "finish"
      /\ ~AddRecord(c) => call'[c].pc = "finish"
  BY <1>0, <1>2 DEF AddRecord, AddRecordFails, AddRecordTears, QueueInv, CallState,
                    Writing
<1>5. /\ group'.size = group.size /\ group'.entries = group.entries
      /\ group'.last = group.last /\ group'.sync_error = FALSE
      /\ AddRecord(c) => group'.ok
      /\ ~AddRecord(c) => ~group'.ok
  <2>1. group.ok = TRUE /\ group.sync_error = FALSE /\ group \in Group
    BY <1>1, <1>2 DEF IInv, EntryInv, GroupInv, QueueInv, Group
  <2>2. CASE AddRecord(c)
    BY <2>1, <2>2 DEF AddRecord
  <2>3. CASE ~AddRecord(c)
    <3>1. group' = [group EXCEPT !.ok = FALSE]
      BY <2>3 DEF AddRecordFails, AddRecordTears
    <3> QED
      BY <2>1, <2>3, <3>1 DEF Group
  <2> QED
    BY <2>2, <2>3
<1>6. db = "open" /\ group.entries \subseteq Entry
  BY <1>2, GroupFacts
<1>7. CASE log' = [log EXCEPT ![logfile_number].records =
                     Append(@, [entries |-> group.entries, torn |-> FALSE])]
  <2>1. PICK r : r = [entries |-> group.entries, torn |-> FALSE]
    OBVIOUS
  <2>2. r \in Record /\ r.entries = group.entries
    BY <1>6, <2>1 DEF Record
  <2>3. group.entries \subseteq LogEntries(logfile_number)'
    BY <1>0, <1>1, <1>6, <1>7, <2>1, <2>2, EntriesAppended
  <2>4. GroupInv'
    BY <1>1, <1>2, <1>3, <1>4, <1>5, <2>3, GroupGoesOn
  <2> QED
    BY <1>1, <1>3, <1>4, <1>5, <1>7, <2>4, EntriesLogged
<1>8. CASE ~AddRecord(c)
  <2>1. GroupInv'
    BY <1>1, <1>2, <1>3, <1>4, <1>5, <1>8, GroupGoesOn
  <2>2. /\ DOMAIN log' = DOMAIN log /\ Live' \subseteq Live
        /\ \A n \in DOMAIN log : LogEntries(n)' = LogEntries(n)
        /\ LogEntries(logfile_number)' = LogEntries(logfile_number)
        /\ InTables(current)' = InTables(current)
     \/ log' = [log EXCEPT ![logfile_number].records =
                  Append(@, [entries |-> group.entries, torn |-> FALSE])]
    <3>1. CASE UNCHANGED log
      BY <1>1, <3>1, EntriesSame
    <3>2. CASE AddRecordTears(c)
      <4>1. PICK r : r = [entries |-> {}, torn |-> TRUE]
        OBVIOUS
      <4>2. /\ r \in Record /\ r.entries = {}
            /\ log' = [log EXCEPT ![logfile_number].records = Append(@, r)]
        BY <3>2, <4>1 DEF Record, AddRecordTears
      <4>3. /\ DOMAIN log' = DOMAIN log
            /\ LogEntries(logfile_number)' = LogEntries(logfile_number) \cup r.entries
            /\ \A n \in DOMAIN log : /\ LogEntries(n) \subseteq LogEntries(n)'
                                     /\ LogEntries(n)' \subseteq LogEntries(n) \cup r.entries
            /\ Live' \subseteq Live \cup r.entries
            /\ InTables(current)' = InTables(current)
        BY <1>0, <1>1, <1>6, <4>2, EntriesAppended
      <4>4. LogEntries(logfile_number)' = LogEntries(logfile_number)
        BY <4>2, <4>3
      <4>5. \A n \in DOMAIN log : LogEntries(n)' = LogEntries(n)
        BY <4>2, <4>3
      <4> QED
        BY <4>2, <4>3, <4>4, <4>5
    <3> QED
      BY <1>8, <3>1, <3>2 DEF AddRecordFails
  <2> QED
    BY <1>1, <1>2, <1>3, <1>4, <1>5, <1>7, <2>1, <2>2, EntriesWork
<1> QED
  BY <1>7, <1>8 DEF AddRecord

\* The log is synced, its sync fails, or the group goes to the memtable.
LEMMA EntriesWorkSteps ==
  ASSUME IInv, NEW c \in Calls, SyncLog(c) \/ SyncLogFails(c) \/ InsertInto(c)
  PROVE  EntryInv'
<1>0. QueueInv /\ FileTypes /\ FileInv /\ GroupInv
  BY DEF IInv, FileInv, EntryInv
<1>1. /\ call[c].pc \in {"sync", "insert"} /\ call[c].pc \in Writing
      /\ call[c].pc # "finish" /\ call[c].pc # "log"
  BY DEF SyncLog, SyncLogFails, InsertInto, Writing
<1>2. /\ call'[c].batch = call[c].batch /\ call'[c].sync = call[c].sync
      /\ \A d \in Calls : d # c => call'[d] = call[d]
      /\ UNCHANGED <<writers, db>>
  BY <1>0, FrontStep
<1>3. /\ group.ok /\ ~group.sync_error
      /\ group.entries \subseteq LogEntries(logfile_number)
  BY <1>0, <1>1 DEF GroupInv
<1>4. db = "open" /\ LogEntries(logfile_number) \subseteq Live
  BY <1>1, GroupFacts
<1>5. UNCHANGED <<last_sequence, current, imm, bg_error, logfile_number, tables,
                  manifest, manifest_edit>>
  BY DEF SyncLog, SyncLogFails, InsertInto, memVars, diskVars
<1>6. /\ DOMAIN log' = DOMAIN log /\ \A n \in DOMAIN log : log'[n].records = log[n].records
      /\ logfile_number \in DOMAIN log
  <2>1. CASE SyncLogFails(c) \/ InsertInto(c)
    BY <1>0, <1>4, <2>1 DEF SyncLogFails, InsertInto, diskVars, FileInv, Running
  <2>2. CASE SyncLog(c)
    <3>1. log' = [log EXCEPT ![logfile_number].synced =
                    Len(log[logfile_number].records)]
      BY <2>2 DEF SyncLog
    <3>2. logfile_number \in DOMAIN log /\ \A n \in DOMAIN log : log[n] \in Log
      BY <1>0, <1>4 DEF FileInv, Running, FileTypes
    <3> QED
      BY <3>1, <3>2 DEF Log
  <2> QED
    BY <2>1, <2>2
<1>7. \A n \in DOMAIN log : LogEntries(n)' = LogEntries(n)
  BY <1>6 DEF LogEntries
<1>8. LogEntries(logfile_number)' = LogEntries(logfile_number)
  BY <1>5, <1>6 DEF LogEntries
<1>9. (\A m : InTables(m)' = InTables(m)) /\ InTables(current)' = InTables(current)
  BY <1>5 DEF InTables
<1>10. \A m : Findable(m)' = Findable(m)
  BY <1>6, <1>7, <1>9 DEF Findable
<1>11. Manifests' = Manifests
  BY <1>5 DEF Manifests
<1>12. mem \subseteq mem' /\ mem' \subseteq mem \cup group.entries
  BY DEF SyncLog, SyncLogFails, InsertInto, memVars
<1>13. Live' \subseteq Live
  <2>1. mem' \subseteq Live
    BY <1>0, <1>3, <1>4, <1>12, LiveTypes
  <2> QED
    BY <1>5, <1>10, <1>11, <2>1 DEF Live
<1>14. /\ call'[c].pc \in Writing \ {"log"}
       /\ SyncLogFails(c) \/ InsertInto(c) <=> call'[c].pc = "finish"
  BY <1>0 DEF SyncLog, SyncLogFails, InsertInto, Writing, QueueInv, CallState
<1>15. /\ group'.size = group.size /\ group'.entries = group.entries
       /\ group'.last = group.last
       /\ SyncLogFails(c) => ~group'.ok /\ group'.sync_error
       /\ ~SyncLogFails(c) => group'.ok /\ ~group'.sync_error
  <2>1. CASE SyncLogFails(c)
    BY <1>0, <2>1 DEF SyncLogFails, QueueInv, Group
  <2>2. CASE ~SyncLogFails(c)
    <3>1. group' = group
      BY <2>2 DEF SyncLog, InsertInto
    <3>2. group.ok = TRUE /\ group.sync_error = FALSE
      BY <1>0, <1>3 DEF QueueInv, Group
    <3> QED
      BY <2>2, <3>1, <3>2
  <2> QED
    BY <2>1, <2>2
<1>16. (call'[c].pc = "finish" /\ group'.ok) => group.entries \subseteq mem'
  BY <1>14, <1>15 DEF InsertInto
<1>17. GroupInv'
  <2>1. /\ call'[c].pc \in Writing
        /\ group'.sync_error => ~group'.ok
        /\ call'[c].pc # "finish" => group'.ok
        /\ group.entries \subseteq LogEntries(logfile_number)'
    BY <1>3, <1>8, <1>14, <1>15
  <2> QED
    BY <1>1, <1>2, <1>5, <1>15, <1>16, <2>1, GroupGoesOn
<1> QED
  BY <1>1, <1>2, <1>5, <1>6, <1>7, <1>8, <1>9, <1>12, <1>13, <1>14, <1>15, <1>17,
     EntriesWork

\* The end of Write: the group counts from now on, unless it failed.
LEMMA EntriesFinish ==
  ASSUME IInv, NEW c \in Calls, FinishWrite(c)
  PROVE  EntryInv'
<1>0. /\ QueueInv /\ FileTypes /\ FileInv /\ GroupInv
      /\ LiveUnique /\ LiveBelow /\ LiveCalls /\ MemHolds
  BY DEF IInv, FileInv, EntryInv
<1> DEFINE calls == IF group.sync_error /\ ~bg_error THEN SignalAll(call) ELSE call
<1>1. /\ call[c].pc = "finish" /\ bg_error' = (bg_error \/ group.sync_error)
      /\ last_sequence' = group.last
      /\ Finish(calls, group.size, group.ok)
      /\ UNCHANGED <<mem, imm, logfile_number, current, db, log, tables, manifest,
                     manifest_edit>>
  BY DEF FinishWrite, openVars, diskVars
<1>2. call[c].pc \in Writing
  BY <1>1 DEF Writing
<1>3. /\ db = "open" /\ group.size \in 1..Len(writers)
      /\ \A d \in Calls : call[d].pc \in Writing => d = c
      /\ \A i \in 1..group.size : i \in DOMAIN writers /\ writers[i] \in Calls
      /\ group.last \in Nat /\ last_sequence \in Nat /\ group.ok \in BOOLEAN
      /\ \A e \in group.entries :
           \E i \in 1..group.size : e.call = writers[i] /\ call[e.call].batch
      /\ LogEntries(logfile_number) \subseteq Live
  BY <1>2, GroupFacts
<1>4. /\ group.last >= last_sequence
      /\ \A e \in group.entries : e.seq <= group.last
      /\ group.ok => group.entries \subseteq mem
  BY <1>0, <1>1, <1>2 DEF GroupInv
<1>5. /\ calls \in [Calls -> CallState]
      /\ calls = call \/ \A d \in Calls : Woken(d, calls)
  BY <1>0, Signalled DEF QueueInv
<1> HIDE DEF calls
<1>6. /\ \A d \in Calls : call'[d].pc \notin Writing
      /\ \A d \in Calls : call'[d].batch = call[d].batch
      /\ \A i \in 1..group.size : call[writers[i]].batch =>
           /\ call'[writers[i]].pc = "returned"
           /\ call'[writers[i]].result = IF group.ok THEN "ok" ELSE "error"
      /\ \A d \in Calls : (\A i \in 1..group.size : writers[i] # d) =>
           /\ call'[d].result = call[d].result
           /\ call[d].pc \notin InFlight => call'[d].pc = call[d].pc
  BY <1>0, <1>1, <1>3, <1>5, WritersLeave
<1>7. /\ Live' = Live /\ \A n : LogEntries(n)' = LogEntries(n)
      /\ \A m : InTables(m)' = InTables(m)
  BY <1>1, EntriesSame
<1>8. LiveUnique' /\ LiveCalls'
  BY <1>0, <1>6, <1>7, LiveShrinks
<1>9. LiveBelow'
  <2> SUFFICES ASSUME NEW e \in Live PROVE e.seq <= last_sequence'
    BY <1>7 DEF LiveBelow
  <2>1. e.seq <= last_sequence \/ InGroup(e)
    BY <1>0, <1>3 DEF LiveBelow
  <2>2. e.seq \in Nat
    BY <1>0, LiveTypes
  <2> QED
    BY <1>1, <1>3, <1>4, <2>1, <2>2 DEF InGroup
<1>10. ASSUME NEW n \in DOMAIN log, NEW e \in LogEntries(n), Failed(e)
       PROVE  Failed(e)'
  <2>1. e.call \in Calls
    BY <1>0, LogTypes DEF Entry
  <2>2. call[e.call].pc = "returned" /\ call[e.call].result = "error"
    BY <1>10 DEF Failed
  <2>3. "returned" \notin InFlight /\ "returned" \notin QueuePhases
    BY DEF InFlight, QueuePhases, FrontPhases, Writing
  <2>4. \A i \in 1..group.size : writers[i] # e.call
    BY <1>0, <1>3, <2>2, <2>3 DEF QueueInv
  <2> QED
    BY <1>6, <2>1, <2>2, <2>3, <2>4 DEF Failed
<1>11. ASSUME NEW e \in LogEntries(logfile_number)
       PROVE  e \in mem \/ Failed(e)'
  <2>1. e \in mem \/ InGroup(e) \/ Failed(e)
    BY <1>0, <1>3 DEF MemHolds
  <2>2. CASE Failed(e)
    <3>1. logfile_number \in DOMAIN log
      BY <1>0, <1>3 DEF FileInv, Running
    <3> QED
      BY <1>10, <2>2, <3>1
  <2>3. CASE InGroup(e) /\ e \notin mem
    <3>1. e \in group.entries /\ ~group.ok
      BY <1>4, <2>3 DEF InGroup
    <3>2. PICK i \in 1..group.size : e.call = writers[i] /\ call[e.call].batch
      BY <1>3, <3>1
    <3> QED
      BY <1>6, <3>1, <3>2 DEF Failed
  <2> QED
    BY <2>1, <2>2, <2>3
<1>12. MemHolds'
  <2>1. LogEntries(logfile_number)' = LogEntries(logfile_number)
    BY <1>1, <1>7
  <2>2. InTables(current)' = InTables(current)
    BY <1>1, <1>7
  <2> QED
    BY <1>0, <1>1, <1>3, <1>7, <1>10, <1>11, <2>1, <2>2 DEF MemHolds
<1>13. GroupInv'
  BY <1>6 DEF GroupInv
<1> QED
  BY <1>8, <1>9, <1>12, <1>13 DEF EntryInv

\* The calls when bg_cv_ is signalled, or when nobody moves.
LEMMA CallsWoken ==
  ASSUME QueueInv, call' = SignalAll(call) \/ UNCHANGED call, UNCHANGED writers
  PROVE  /\ Len(writers) <= Len(writers') /\ Len(writers') \in Nat
         /\ \A i \in DOMAIN writers :
              /\ writers'[i] = writers[i]
              /\ call'[writers[i]].batch = call[writers[i]].batch
              /\ call'[writers[i]].sync = call[writers[i]].sync
         /\ \A c \in Calls :
              /\ call[c].batch => call'[c].batch
              /\ call[c].pc \in Writing \/ call'[c].pc \in Writing =>
                   call'[c].pc = call[c].pc /\ call'[c].sync = call[c].sync
              /\ call[c].pc = "returned" =>
                   call'[c].pc = "returned" /\ call'[c].result = call[c].result
<1>1. /\ Len(writers) \in Nat /\ \A i \in DOMAIN writers : writers[i] \in Calls
  BY WritersShape
<1>2. \A c \in Calls :
        /\ call'[c].batch = call[c].batch /\ call'[c].sync = call[c].sync
        /\ call'[c].result = call[c].result
        /\ call[c].pc \in Writing \/ call'[c].pc \in Writing => call'[c].pc = call[c].pc
        /\ call[c].pc = "returned" => call'[c].pc = "returned"
  <2>1. CASE UNCHANGED call
    BY <2>1
  <2>2. CASE call' = SignalAll(call)
    <3>1. \A c \in Calls : Woken(c, call')
      BY <2>2, Signalled
    <3> QED
      BY <3>1 DEF Woken, Writing
  <2> QED
    BY <2>1, <2>2
<1> QED
  BY <1>1, <1>2

\* Fewer files, fewer entries.
LEMMA FindableShrinks ==
  ASSUME NEW m, DOMAIN log' \subseteq DOMAIN log,
         \A n \in DOMAIN log' : LogEntries(n)' \subseteq LogEntries(n),
         InTables(m)' \subseteq InTables(m)
  PROVE  Findable(m)' \subseteq Findable(m)
  BY DEF Findable

\* The background thread, before the MANIFEST is written and when it fails.
LEMMA EntriesBackground ==
  ASSUME IInv, BackgroundNothing \/ BackgroundStart \/ TableFails \/ LogAndApplyFails
  PROVE  EntryInv'
<1>1. /\ QueueInv /\ FileInv /\ MemHolds
  BY DEF IInv, EntryInv
<1>2. /\ call' = SignalAll(call) \/ UNCHANGED call
      /\ UNCHANGED <<writers, group, mem, imm, logfile_number, last_sequence, current,
                     db, log, tables, manifest, manifest_edit>>
      /\ bg_error' = bg_error \/ bg_error' = TRUE
  BY DEF BackgroundNothing, BackgroundStart, TableFails, LogAndApplyFails,
         BackgroundDone, CleanUp, KeepLogs, KeepTables, memVars, openVars, diskVars
<1>3. /\ Live' = Live /\ \A n : LogEntries(n)' = LogEntries(n)
      /\ \A m : InTables(m)' = InTables(m)
  BY <1>2, EntriesSame
<1>4. /\ Len(writers) <= Len(writers') /\ Len(writers') \in Nat
      /\ \A i \in DOMAIN writers :
           /\ writers'[i] = writers[i]
           /\ call'[writers[i]].batch = call[writers[i]].batch
           /\ call'[writers[i]].sync = call[writers[i]].sync
      /\ \A c \in Calls :
           /\ call[c].batch => call'[c].batch
           /\ call[c].pc \in Writing \/ call'[c].pc \in Writing =>
                call'[c].pc = call[c].pc /\ call'[c].sync = call[c].sync
           /\ call[c].pc = "returned" =>
                call'[c].pc = "returned" /\ call'[c].result = call[c].result
  BY <1>1, <1>2, CallsWoken
<1>5. /\ LogEntries(logfile_number)' = LogEntries(logfile_number)
      /\ InTables(current)' = InTables(current)
  BY <1>2, <1>3
<1>6. db = "open" =>
        \A n \in DOMAIN log' :
          current'.log_number <= n /\ n < logfile_number =>
            \A e \in LogEntries(n)' :
              e \in imm' \cup InTables(current)' \/ (e \in Entry /\ Failed(e))
  <2>1. \A n \in DOMAIN log : LogEntries(n) \subseteq Entry
    BY <1>1, LogTypes DEF FileInv
  <2> QED
    BY <1>1, <1>2, <1>3, <1>5, <2>1 DEF MemHolds
<1>7. Live' \subseteq Live
  BY <1>3
<1> QED
  BY <1>2, <1>4, <1>5, <1>6, <1>7, EntriesKept

\* The table of a flush or a compaction holds what was there before.
LEMMA EntriesTableBuilt ==
  ASSUME IInv, TableBuilt
  PROVE  EntryInv'
<1>1. /\ QueueInv /\ FileInv /\ FileTypes /\ Installed /\ Running /\ MemHolds
  BY DEF IInv, FileInv, EntryInv
<1>2. UNCHANGED <<call, writers, group, mem, imm, logfile_number, last_sequence,
                  current, bg_error, db, log, manifest>>
  BY DEF TableBuilt, memVars, openVars
<1>3. /\ bg.pc \in {"flush", "compact"} /\ db = "open" /\ manifest_edit = {}
      /\ current.files \subseteq DOMAIN tables'
      /\ \A f \in current.files : f \in DOMAIN tables /\ tables'[f] = tables[f]
  BY <1>1, EditMade
<1>4. PICK e \in Version :
        /\ manifest_edit' = {e}
        /\ e.log_number = IF bg.pc = "flush" THEN logfile_number ELSE current.log_number
        /\ InTables(e)' \subseteq InTables(current) \cup imm
  BY <1>1, EditMade
<1>5. \A n : LogEntries(n)' = LogEntries(n)
  BY <1>2 DEF LogEntries
<1>6. InTables(current)' = InTables(current) /\ current = manifest
  BY <1>1, <1>2, <1>3 DEF InTables, Installed
<1>7. Findable(manifest)' = Findable(manifest)
  BY <1>2, <1>5, <1>6 DEF Findable
<1>8. Findable(e)' \subseteq Findable(manifest) \cup imm
  <2>1. /\ current.log_number <= logfile_number /\ current.log_number \in Nat
        /\ logfile_number \in Nat /\ DOMAIN log \subseteq Nat
    BY <1>1, <1>3 DEF Running, FileTypes, Version
  <2>2. \A n \in DOMAIN log : n >= e.log_number => n >= manifest.log_number
    BY <1>4, <1>6, <2>1
  <2> QED
    BY <1>2, <1>4, <1>5, <1>6, <2>2 DEF Findable
<1>9. Live' \subseteq Live
  <2>1. Manifests = {manifest} /\ Manifests' = {manifest, e}
    BY <1>2, <1>3, <1>4 DEF Manifests
  <2>2. UNION {Findable(m)' : m \in Manifests'} \subseteq Findable(manifest) \cup imm
    <3>1. ASSUME NEW m, m = manifest PROVE Findable(m)' \subseteq Findable(manifest)
      <4>1. InTables(m)' = InTables(m)
        BY <1>3, <1>6, <3>1 DEF InTables
      <4>2. Findable(m)' = Findable(m)
        BY <1>2, <1>5, <4>1 DEF Findable
      <4> QED
        BY <3>1, <4>2
    <3> QED
      BY <1>8, <2>1, <3>1
  <2> QED
    BY <1>2, <2>1, <2>2 DEF Live
<1>10. LogEntries(logfile_number)' = LogEntries(logfile_number)
  BY <1>2, <1>5
<1>11. \A n \in DOMAIN log' :
          current'.log_number <= n /\ n < logfile_number =>
            \A x \in LogEntries(n)' :
              x \in imm' \cup InTables(current)' \/ (x \in Entry /\ Failed(x))
  <2>1. \A n \in DOMAIN log : LogEntries(n) \subseteq Entry
    BY <1>1, LogTypes
  <2> QED
    BY <1>1, <1>2, <1>3, <1>5, <1>6, <2>1 DEF MemHolds
<1>12. /\ Len(writers) <= Len(writers') /\ Len(writers') \in Nat
       /\ \A i \in DOMAIN writers :
            /\ writers'[i] = writers[i]
            /\ call'[writers[i]].batch = call[writers[i]].batch
            /\ call'[writers[i]].sync = call[writers[i]].sync
       /\ \A c \in Calls :
            /\ call[c].batch => call'[c].batch
            /\ call[c].pc \in Writing \/ call'[c].pc \in Writing =>
                 call'[c].pc = call[c].pc /\ call'[c].sync = call[c].sync
            /\ call[c].pc = "returned" =>
                 call'[c].pc = "returned" /\ call'[c].result = call[c].result
  BY <1>1, <1>2, CallsWoken
<1> QED
  BY <1>2, <1>9, <1>10, <1>11, <1>12, EntriesKept

\* The edit is installed: what the removed files held is in its tables.
LEMMA EntriesApplied ==
  ASSUME IInv, LogAndApply
  PROVE  EntryInv'
<1>1. /\ QueueInv /\ FileInv /\ FileTypes /\ Installed /\ Running /\ VersionsOK
      /\ MemHolds /\ bg.pc \in {"apply", "install"}
  BY DEF IInv, FileInv, EntryInv, LogAndApply
<1>2. db \in {"open", "closing"}
  BY <1>1 DEF Installed, FileTypes
<1>3. PICK e \in manifest_edit : manifest_edit = {e} /\ EditOK(e)
  BY <1>1, <1>2 DEF Running
<1>4. (CHOOSE x \in manifest_edit : TRUE) = e
  BY <1>3
<1>5. /\ current' = e /\ manifest' = e /\ manifest_edit' = {}
      /\ IF bg.pc = "apply" THEN imm' = {} ELSE imm' = imm
      /\ log' = KeepLogs(log, e, bg_error)
      /\ tables' = KeepTables(tables, e, {}, bg_error)
      /\ bg_error' = bg_error /\ call' = SignalAll(call)
      /\ UNCHANGED <<writers, group, mem, logfile_number, last_sequence, db>>
  BY <1>4 DEF LogAndApply, CleanUp, BackgroundDone, openVars
<1>6. /\ DOMAIN log' \subseteq DOMAIN log /\ DOMAIN tables' \subseteq DOMAIN tables
      /\ \A n \in DOMAIN log' : log'[n] = log[n]
      /\ \A n \in DOMAIN tables' : tables'[n] = tables[n]
      /\ \A n \in DOMAIN log : n >= e.log_number => n \in DOMAIN log'
      /\ \A f \in DOMAIN tables : f \in e.files => f \in DOMAIN tables'
  BY <1>1, <1>5, KeptFiles
<1>7. \A n \in DOMAIN log' : LogEntries(n)' = LogEntries(n)
  BY <1>6 DEF LogEntries
<1>8. InTables(e)' = InTables(e)
  <2>1. e.files \cap DOMAIN tables' = e.files \cap DOMAIN tables
    BY <1>6
  <2> QED
    BY <1>6, <2>1 DEF InTables
<1>9. Findable(e)' \subseteq Findable(e)
  BY <1>6, <1>7, <1>8, FindableShrinks
<1>10. Live' \subseteq Live
  <2>1. Manifests' = {e} /\ e \in Manifests
    BY <1>5 DEF Manifests
  <2>2. imm' \subseteq imm /\ mem' = mem
    BY <1>5
  <2> QED
    BY <1>9, <2>1, <2>2 DEF Live
<1>11. /\ e.log_number <= logfile_number /\ e.log_number \in Nat
       /\ logfile_number \in Nat /\ logfile_number \in DOMAIN log
       /\ DOMAIN log \subseteq Nat
  BY <1>1, <1>2, <1>3 DEF EditOK, Running, FileTypes, Version
<1>12. LogEntries(logfile_number)' = LogEntries(logfile_number)
  <2>1. logfile_number \in DOMAIN log'
    BY <1>6, <1>11
  <2> QED
    BY <1>5, <1>6, <2>1 DEF LogEntries
<1>13. ASSUME db = "open", NEW n \in DOMAIN log', e.log_number <= n, n < logfile_number
       PROVE  \A x \in LogEntries(n)' :
                x \in imm' \cup InTables(e)' \/ (x \in Entry /\ Failed(x))
  <2>1. n \in DOMAIN log /\ n \in Nat
    BY <1>6, <1>11
  <2>2. bg.pc # "apply"
    BY <1>3, <1>11, <1>13, <2>1 DEF EditOK
  <2>3. /\ bg.pc = "install" /\ InTables(current) \subseteq InTables(e)
        /\ e.log_number = current.log_number /\ imm' = imm
    BY <1>1, <1>3, <1>5, <2>2 DEF EditOK
  <2>4. \A x \in LogEntries(n) : x \in imm \cup InTables(current) \/ Failed(x)
    BY <1>1, <1>13, <2>1, <2>3 DEF MemHolds
  <2>5. LogEntries(n) \subseteq Entry
    BY <1>1, <2>1, LogTypes
  <2> QED
    BY <1>7, <1>8, <1>13, <2>3, <2>4, <2>5
<1>14. db = "open" =>
         \A n \in DOMAIN log' :
           current'.log_number <= n /\ n < logfile_number =>
             \A x \in LogEntries(n)' :
               x \in imm' \cup InTables(current)' \/ (x \in Entry /\ Failed(x))
  <2>1. InTables(current)' = InTables(e)'
    BY <1>5 DEF InTables
  <2> QED
    BY <1>5, <1>13, <2>1
<1>15. /\ Len(writers) <= Len(writers') /\ Len(writers') \in Nat
       /\ \A i \in DOMAIN writers :
            /\ writers'[i] = writers[i]
            /\ call'[writers[i]].batch = call[writers[i]].batch
            /\ call'[writers[i]].sync = call[writers[i]].sync
       /\ \A c \in Calls :
            /\ call[c].batch => call'[c].batch
            /\ call[c].pc \in Writing \/ call'[c].pc \in Writing =>
                 call'[c].pc = call[c].pc /\ call'[c].sync = call[c].sync
            /\ call[c].pc = "returned" =>
                 call'[c].pc = "returned" /\ call'[c].result = call[c].result
  BY <1>1, <1>5, CallsWoken
<1> QED
  BY <1>5, <1>10, <1>12, <1>14, <1>15, EntriesKept

\* A call of Write joins, or TEST_CompactMemTable goes on, or nothing happens.
LEMMA EntriesCalls ==
  ASSUME IInv,
         \/ \E c \in Calls : \/ \E r \in Requests : WriteCall(c, r)
                             \/ CompactMemTableWaits(c) \/ CompactMemTableReturns(c)
         \/ UNCHANGED vars
  PROVE  EntryInv'
<1>1. /\ QueueInv /\ FileInv /\ MemHolds
  BY DEF IInv, EntryInv
<1>2. UNCHANGED <<group, mem, imm, logfile_number, last_sequence, current, bg_error,
                  db, log, tables, manifest, manifest_edit>>
  BY DEF WriteCall, CompactMemTableWaits, CompactMemTableReturns, vars, memVars,
         openVars, diskVars
<1>3. /\ Live' = Live /\ \A n : LogEntries(n)' = LogEntries(n)
      /\ \A m : InTables(m)' = InTables(m)
  BY <1>2, EntriesSame
<1>4. /\ Len(writers) <= Len(writers') /\ Len(writers') \in Nat
      /\ \A i \in DOMAIN writers :
           /\ writers'[i] = writers[i]
           /\ call'[writers[i]].batch = call[writers[i]].batch
           /\ call'[writers[i]].sync = call[writers[i]].sync
      /\ \A c \in Calls :
           /\ call[c].batch => call'[c].batch
           /\ call[c].pc \in Writing \/ call'[c].pc \in Writing =>
                call'[c].pc = call[c].pc /\ call'[c].sync = call[c].sync
           /\ call[c].pc = "returned" =>
                call'[c].pc = "returned" /\ call'[c].result = call[c].result
  <2>0. /\ Len(writers) \in Nat /\ \A i \in DOMAIN writers : writers[i] \in Calls
    BY <1>1, WritersShape
  <2>1. CASE UNCHANGED vars
    <3>1. UNCHANGED <<call, writers>>
      BY <2>1 DEF vars
    <3> QED
      BY <1>1, <3>1, CallsWoken
  <2>2. ASSUME NEW c \in Calls, NEW r \in Requests, WriteCall(c, r)
        PROVE <1>4!:
    <3>1. /\ Len(writers') = Len(writers) + 1
          /\ \A i \in DOMAIN writers : writers'[i] = writers[i] /\ writers[i] # c
          /\ \A d \in Calls : d # c => call'[d] = call[d]
          /\ call'[c].pc \in {"front", "queued"} /\ call[c].pc = "idle"
      BY <1>1, <2>2, WriterJoins
    <3>2. ~call[c].batch /\ call'[c].pc \notin Writing /\ call[c].pc \notin Writing
      BY <1>1, <3>1 DEF QueueInv, Writing
    <3> QED
      BY <2>0, <3>1, <3>2
  <2>3. ASSUME NEW c \in Calls, CompactMemTableWaits(c) \/ CompactMemTableReturns(c)
        PROVE <1>4!:
    <3>1. call[c].pc = "immcheck" /\ UNCHANGED writers
      BY <2>3 DEF CompactMemTableWaits, CompactMemTableReturns
    <3>2. /\ call'[c].pc \in {"immwait", "returned"} /\ call'[c].batch = call[c].batch
          /\ \A d \in Calls : d # c => call'[d] = call[d]
      <4>1. call[c] \in CallState
        BY <1>1 DEF QueueInv
      <4>2. CASE CompactMemTableWaits(c)
        <5>1. call' = [call EXCEPT ![c] = [call[c] EXCEPT !.pc = "immwait"]]
          BY <4>2 DEF CompactMemTableWaits
        <5> QED
          BY <1>1, <4>1, <5>1 DEF QueueInv, CallState
      <4>3. CASE CompactMemTableReturns(c)
        <5>1. PICK s : call' = [call EXCEPT ![c] = [call[c] EXCEPT !.pc = "returned",
                                                                  !.result = s]]
          BY <4>3 DEF CompactMemTableReturns
        <5> QED
          BY <1>1, <4>1, <5>1 DEF QueueInv, CallState
      <4> QED
        BY <2>3, <4>2, <4>3
    <3>3. \A i \in DOMAIN writers : writers[i] # c
      BY <1>1, <3>1 DEF QueueInv, QueuePhases, FrontPhases, Writing
    <3>4. call[c].pc \notin Writing /\ call'[c].pc \notin Writing /\ call[c].pc # "returned"
      BY <3>1, <3>2 DEF Writing
    <3> QED
      BY <2>0, <3>1, <3>2, <3>3, <3>4
  <2> QED
    BY <2>1, <2>2, <2>3
<1>5. /\ LogEntries(logfile_number)' = LogEntries(logfile_number)
      /\ InTables(current)' = InTables(current)
  BY <1>2, <1>3
<1>6. db = "open" =>
        \A n \in DOMAIN log' :
          current'.log_number <= n /\ n < logfile_number =>
            \A e \in LogEntries(n)' :
              e \in imm' \cup InTables(current)' \/ (e \in Entry /\ Failed(e))
  <2>1. \A n \in DOMAIN log : LogEntries(n) \subseteq Entry
    BY <1>1, LogTypes DEF FileInv
  <2> QED
    BY <1>1, <1>2, <1>3, <1>5, <2>1 DEF MemHolds
<1>7. Live' \subseteq Live
  BY <1>3
<1> QED
  BY <1>2, <1>4, <1>5, <1>6, <1>7, EntriesKept

\* The process ends, in order or not.
LEMMA EntriesForgotten ==
  ASSUME IInv, QueueInv', Closed \/ ProcessCrash \/ MachineCrash \/ OpenFails
  PROVE  EntryInv'
<1>1. QueueInv /\ FileTypes /\ FileInv
  BY DEF IInv, FileInv
<1>2. /\ Forget /\ UNCHANGED <<tables, manifest>> /\ manifest_edit' \subseteq manifest_edit
  BY DEF Closed, ProcessCrash, MachineCrash, OpenFails, diskVars
<1>3. /\ DOMAIN log' \subseteq DOMAIN log
      /\ \A n \in DOMAIN log' : LogEntries(n)' \subseteq LogEntries(n)
  <2>1. CASE UNCHANGED log
    BY <2>1 DEF LogEntries
  <2>2. CASE MachineCrash
    <3>1. /\ DOMAIN log' \subseteq DOMAIN log
          /\ \A n \in DOMAIN log' : \A i \in DOMAIN log'[n].records :
               i \in DOMAIN log[n].records /\ log'[n].records[i] = log[n].records[i]
      BY <1>1, <2>2, LogsCut
    <3> QED
      BY <3>1 DEF LogEntries
  <2> QED
    BY <2>1, <2>2 DEF Closed, ProcessCrash, OpenFails, diskVars
<1>4. \A m : InTables(m)' = InTables(m)
  BY <1>2 DEF InTables
<1>5. \A m : Findable(m)' \subseteq Findable(m)
  BY <1>3, <1>4, FindableShrinks
<1>6. mem' = {} /\ imm' = {} /\ db' = "closed" /\ Manifests' \subseteq Manifests
  BY <1>2 DEF Forget, Manifests
<1>7. Live' \subseteq Live
  BY <1>5, <1>6 DEF Live
<1>8. \A c \in Calls : call'[c].batch = call[c].batch
  BY <1>1, <1>2, ForgetQueue
<1> QED
  BY <1>6, <1>7, <1>8, EntriesAway

\* Recovery up to the new MANIFEST: the tables it builds hold what the logs do.
LEMMA EntriesRecovery ==
  ASSUME IInv, QueueInv', Close \/ Recover \/ RecoverLogFile \/ OpenLog
  PROVE  EntryInv'
<1>1. /\ QueueInv /\ FileInv /\ FileTypes /\ Installed /\ Recovering /\ VersionsOK
  BY DEF IInv, FileInv
<1>2. UNCHANGED <<call, mem, imm>> /\ db' # "open"
  <2>1. CASE Close \/ Recover \/ OpenLog
    BY <2>1 DEF Close, Recover, OpenLog, memVars
  <2>2. CASE RecoverLogFile
    <3>1. UNCHANGED <<call, mem, imm, db>> /\ recovery.logs # {}
      BY <2>2 DEF RecoverLogFile
    <3> QED
      BY <1>1, <3>1 DEF Installed
  <2> QED
    BY <2>1, <2>2
<1>3. Live' \subseteq Live
  <2>1. CASE Close
    BY <2>1, EntriesSame DEF Close, memVars, diskVars
  <2>2. CASE Recover
    <3>1. PICK m \in Manifests : manifest' = m
      BY <2>2 DEF Recover
    <3>2. Manifests' = {m} /\ UNCHANGED <<log, tables>>
      BY <2>2, <3>1 DEF Recover, Manifests
    <3>3. Findable(m)' = Findable(m)
      BY <3>2 DEF Findable, InTables, LogEntries
    <3> QED
      BY <1>2, <3>2, <3>3 DEF Live
  <2>3. CASE RecoverLogFile
    <3>1. PICK built \in SUBSET Nat :
            /\ DOMAIN tables' = DOMAIN tables \cup built
            /\ \A f \in DOMAIN tables \ built : tables'[f] = tables[f]
            /\ \A f \in built : f >= next_file_number
      BY <1>1, <2>3, LogRead
    <3>2. UNCHANGED <<log, manifest, manifest_edit, db>> /\ recovery.logs # {}
      BY <2>3 DEF RecoverLogFile
    <3>3. db = "recovering"
      BY <1>1, <3>2 DEF Installed
    <3>4. /\ manifest_edit = {} /\ current = manifest /\ VersionOK(manifest)
          /\ manifest.next_file <= next_file_number
      BY <1>1, <3>3 DEF Recovering, Installed, VersionsOK, Manifests
    <3>5. \A f \in manifest.files : f \in DOMAIN tables \ built
      <4>1. manifest.next_file \in Nat /\ next_file_number \in Nat /\ manifest.files \subseteq Nat
        BY <1>1, DBImplAssumption DEF FileTypes, Version
      <4>2. \A f \in manifest.files : f \in DOMAIN tables /\ f < manifest.next_file
        BY <3>4 DEF VersionOK
      <4> QED
        BY <3>1, <3>4, <4>1, <4>2
    <3>6. ASSUME NEW m, m = manifest PROVE Findable(m)' = Findable(m)
      <4>1. InTables(m)' = InTables(m)
        BY <3>1, <3>5, <3>6 DEF InTables
      <4>2. \A n : LogEntries(n)' = LogEntries(n)
        BY <3>2 DEF LogEntries
      <4> QED
        BY <3>2, <4>1, <4>2 DEF Findable
    <3>7. Manifests = {manifest} /\ Manifests' = {manifest}
      BY <3>2, <3>4 DEF Manifests
    <3> QED
      BY <1>2, <3>6, <3>7 DEF Live
  <2>4. CASE OpenLog
    <3>1. /\ db = "recovering" /\ manifest_edit = {}
          /\ DOMAIN log' = DOMAIN log \cup {next_file_number}
          /\ log'[next_file_number].records = <<>>
          /\ \A k \in DOMAIN log : k < next_file_number /\ log'[k] = log[k]
          /\ next_file_number \in 0..(MaxFileNumber - 1)
      BY <1>1, <2>4, OpenEdit
    <3>2. PICK e \in Version : /\ manifest_edit' = {e}
                               /\ e.files = current.files \cup recovery.files
                               /\ e.log_number = next_file_number
      BY <1>1, <2>4, OpenEdit
    <3>3. UNCHANGED <<tables, manifest, current>> /\ current = manifest
      BY <1>1, <2>4, <3>1 DEF OpenLog, Installed
    <3>4. \A m : InTables(m)' = InTables(m)
      BY <3>3 DEF InTables
    <3>5. \A n \in DOMAIN log' :
            LogEntries(n)' = IF n = next_file_number THEN {} ELSE LogEntries(n)
      <4> SUFFICES ASSUME NEW n \in DOMAIN log'
                   PROVE  LogEntries(n)' = IF n = next_file_number THEN {}
                                           ELSE LogEntries(n)
        OBVIOUS
      <4>1. CASE n = next_file_number
        <5>1. log'[n].records = <<>>
          BY <3>1, <4>1
        <5> QED
          BY <4>1, <5>1 DEF LogEntries
      <4>2. CASE n # next_file_number
        <5>1. log'[n] = log[n]
          BY <3>1, <4>2
        <5> QED
          BY <4>2, <5>1 DEF LogEntries
      <4> QED
        BY <4>1, <4>2
    <3>6. Findable(e)' \subseteq Findable(manifest)
      <4>1. \A n \in DOMAIN log' : n >= e.log_number => n = next_file_number
        <5>1. DOMAIN log \subseteq Nat /\ next_file_number \in Nat
          BY <1>1, <3>1, DBImplAssumption DEF FileTypes
        <5> QED
          BY <3>1, <3>2, <5>1
      <4>2. \A n \in DOMAIN log' : n >= e.log_number => LogEntries(n)' = {}
        BY <3>5, <4>1
      <4>3. \A f \in recovery.files : f \in DOMAIN tables /\ tables[f] \subseteq Findable(current)
        BY <1>1, <3>1 DEF Recovering
      <4>4. InTables(e) \subseteq Findable(current)
        BY <3>2, <4>3 DEF InTables, Findable
      <4>5. Findable(e)' \subseteq InTables(e)
        BY <3>4, <4>2 DEF Findable
      <4> QED
        BY <3>3, <4>4, <4>5
    <3>7. \A m : Findable(m)' \subseteq Findable(m)
      BY <3>1, <3>4, <3>5 DEF Findable
    <3>8. Manifests = {manifest} /\ Manifests' = {manifest, e}
      BY <3>1, <3>2, <3>3 DEF Manifests
    <3> QED
      BY <1>2, <3>6, <3>7, <3>8 DEF Live
  <2> QED
    BY <2>1, <2>2, <2>3, <2>4
<1> QED
  BY <1>2, <1>3, EntriesAway

\* In a database just opened everything is in its tables.
LEMMA EntriesOpened ==
  ASSUME IInv, Opened
  PROVE  EntryInv'
<1>1. /\ QueueInv /\ FileInv /\ FileTypes /\ VersionsOK /\ Installed /\ Applying
      /\ db = "applying" /\ LiveUnique /\ LiveCalls
  BY DEF IInv, FileInv, EntryInv, Opened
<1>2. PICK e \in manifest_edit :
        /\ manifest_edit = {e}
        /\ e.log_number = logfile_number /\ e.last_sequence = last_sequence
        /\ logfile_number \in DOMAIN log /\ log[logfile_number].records = <<>>
        /\ \A n \in DOMAIN log : n <= logfile_number
  BY <1>1 DEF Applying
<1>3. (CHOOSE x \in manifest_edit : TRUE) = e
  BY <1>2
<1>4. /\ current' = e /\ manifest' = e /\ manifest_edit' = {}
      /\ log' = KeepLogs(log, e, FALSE) /\ tables' = KeepTables(tables, e, {}, FALSE)
      /\ UNCHANGED <<call, mem, imm, logfile_number, last_sequence>>
  BY <1>3 DEF Opened
<1>5. /\ DOMAIN log' \subseteq DOMAIN log /\ DOMAIN tables' \subseteq DOMAIN tables
      /\ \A n \in DOMAIN log' : log'[n] = log[n]
      /\ \A n \in DOMAIN tables' : tables'[n] = tables[n]
  BY <1>1, <1>4, KeptFiles
<1>6. \A n \in DOMAIN log' : LogEntries(n)' = LogEntries(n)
  BY <1>5 DEF LogEntries
<1>7. InTables(e)' \subseteq InTables(e)
  BY <1>5 DEF InTables
<1>8. Manifests' = {e} /\ e \in Manifests /\ mem = {} /\ imm = {}
  BY <1>1, <1>4 DEF Manifests, Installed
<1>9. Findable(e)' \subseteq Findable(e)
  BY <1>5, <1>6, <1>7, FindableShrinks
<1>10. Live' \subseteq Live
  BY <1>4, <1>8, <1>9 DEF Live
<1>11. LiveUnique' /\ LiveCalls'
  BY <1>1, <1>4, <1>10, LiveShrinks
<1>12. \A c \in Calls : call'[c].pc \notin Writing
  BY <1>1, <1>4 DEF QueueInv, Writing, InFlight
<1>13. GroupInv'
  BY <1>12 DEF GroupInv
<1>14. /\ logfile_number \in Nat /\ DOMAIN log \subseteq Nat
  BY <1>1 DEF FileTypes
<1>15. \A n \in DOMAIN log : n >= e.log_number => n = logfile_number
  BY <1>2, <1>14
<1>16. \A n \in DOMAIN log : n = logfile_number => LogEntries(n) = {}
  <2> SUFFICES ASSUME NEW n \in DOMAIN log, n = logfile_number PROVE LogEntries(n) = {}
    OBVIOUS
  <2>1. log[n].records = <<>>
    BY <1>2
  <2> QED
    BY <2>1 DEF LogEntries
<1>17. Findable(e) \subseteq InTables(e)
  BY <1>15, <1>16 DEF Findable
<1>18. \A d \in InTables(e) : d.seq <= last_sequence
  <2>1. VersionOK(e)
    BY <1>1, <1>8 DEF VersionsOK
  <2> QED
    BY <1>2, <2>1 DEF VersionOK, InTables
<1>19. LiveBelow'
  <2>1. Live' \subseteq InTables(e)
    BY <1>4, <1>8, <1>9, <1>17 DEF Live
  <2> QED
    BY <1>4, <1>18, <2>1 DEF LiveBelow
<1>20. LogEntries(logfile_number)' \subseteq LogEntries(logfile_number)
  <2>1. logfile_number \in DOMAIN log'
    <3>1. e.log_number \in Nat
      BY <1>2, <1>14
    <3>2. logfile_number >= e.log_number
      BY <1>2, <1>14
    <3> QED
      BY <1>1, <1>2, <1>4, <3>2, KeptFiles
  <2> QED
    BY <1>4, <1>5, <2>1, ZenonT(60) DEF LogEntries
<1>21. LogEntries(logfile_number)' = {}
  BY <1>2, <1>16, <1>20
<1>22. \A n \in DOMAIN log' : ~(current'.log_number <= n /\ n < logfile_number')
  <2>1. \A n \in DOMAIN log' : n \in Nat
    BY <1>5, <1>14
  <2>2. current'.log_number = logfile_number /\ logfile_number' = logfile_number
    BY <1>2, <1>4
  <2>3. \A n \in DOMAIN log' : ~(logfile_number <= n /\ n < logfile_number)
    BY <1>14, <2>1
  <2> QED
    BY <2>2, <2>3
<1>23. MemHolds'
  BY <1>21, <1>22 DEF MemHolds
<1> QED
  BY <1>11, <1>13, <1>19, <1>23 DEF EntryInv

\* Every step keeps the entries.
LEMMA EntryStep ==
  ASSUME IInv, [Next]_vars
  PROVE  EntryInv'
<1>1. QueueInv'
  BY QueueStep
<1> QED
  BY <1>1, EntriesCalls, EntriesRoomSteps, EntriesSwitched, EntriesAddRecord,
     EntriesWorkSteps, EntriesFinish, EntriesBackground, EntriesTableBuilt,
     EntriesApplied, EntriesForgotten, EntriesRecovery, EntriesOpened
  DEF Next, CallStep, Background, Open

-----------------------------------------------------------------------------
(* Theorems.                                                               *)

\* A database that was never opened has nothing, in memory or on disk.
LEMMA InitInv ==
  ASSUME Init
  PROVE  IInv
<1>1. /\ writers = <<>> /\ group = NoGroup /\ mem = {} /\ imm = {} /\ has_imm = FALSE
      /\ logfile_number = 0 /\ last_sequence = 0 /\ next_file_number = 0
      /\ current = NewVersion /\ bg = Idle("none") /\ bg_error = FALSE
      /\ db = "closed" /\ recovery = NoRecovery
      /\ log = NoFiles /\ tables = NoFiles
      /\ manifest = NewVersion /\ manifest_edit = {}
  BY DEF Init
<1>2. /\ call \in [Calls -> CallState]
      /\ \A c \in Calls : call[c].pc = "idle" /\ ~call[c].batch
  BY DEF Init, CallState, Phases
<1>3. writers \in Seq(Calls) /\ DOMAIN writers = {}
  BY <1>1
<1>4. group \in Group
  BY <1>1 DEF NoGroup, Group
<1>5. QueueInv
  BY <1>2, <1>3, <1>4 DEF QueueInv, QueuePhases, FrontPhases, Writing, InFlight
<1>6. DOMAIN log = {} /\ DOMAIN tables = {}
  BY <1>1 DEF NoFiles
<1>7. log \in [DOMAIN log -> Log] /\ tables \in [DOMAIN tables -> SUBSET Entry]
  BY <1>1, <1>6 DEF NoFiles
<1>8. NewVersion \in Version
  BY DEF NewVersion, Version
<1>9. bg \in [pc : {"none", "scheduled", "flush", "compact", "apply", "install"},
              number : Nat, files : SUBSET Nat, level0 : SUBSET Nat]
  BY <1>1 DEF Idle
<1>10. recovery \in [logs : SUBSET Nat, files : SUBSET Nat] /\ recovery.logs = {}
  BY <1>1 DEF NoRecovery
<1>11. FileTypes
  <2>1. /\ mem \subseteq Entry /\ imm \subseteq Entry /\ has_imm \in BOOLEAN
        /\ logfile_number \in Nat /\ last_sequence \in Nat
        /\ current \in Version /\ manifest \in Version /\ manifest_edit \subseteq Version
        /\ bg_error \in BOOLEAN
        /\ db \in {"closed", "recovering", "applying", "open", "closing"}
    BY <1>1, <1>8
  <2>2. next_file_number \in 0..MaxFileNumber
    BY <1>1, DBImplAssumption
  <2>3. /\ DOMAIN log \subseteq 0..(MaxFileNumber - 1) /\ DOMAIN tables \subseteq Nat
        /\ \A n \in DOMAIN log : log[n].synced <= Len(log[n].records)
        /\ \A n \in DOMAIN tables : tables[n] # {}
    BY <1>6
  <2> QED
    BY <1>7, <1>9, <1>10, <2>1, <2>2, <2>3 DEF FileTypes
<1>12. VersionsOK
  BY <1>1 DEF VersionsOK, VersionOK, Manifests, NewVersion
<1>13. Installed /\ Recovering /\ Applying /\ Running
  BY <1>1, <1>10 DEF Installed, Recovering, Applying, Running, Idle
<1>14. FileInv
  BY <1>11, <1>12, <1>13 DEF FileInv
<1>15. Live = {}
  BY <1>1, <1>6 DEF Live, Findable, InTables, Manifests, NewVersion
<1>16. GroupInv
  BY <1>2 DEF GroupInv, Writing
<1>17. EntryInv
  BY <1>1, <1>15, <1>16 DEF EntryInv, LiveUnique, LiveBelow, LiveCalls, MemHolds
<1> QED
  BY <1>5, <1>14, <1>17 DEF IInv

\* The queue, the files and the entries of the write path fit together in
\* every state that Write, the background thread, a crash or DB::Open leaves
\* (DBImpl::Write, MakeRoomForWrite, BackgroundCall, LogAndApply, Recover).
THEOREM WritePathInvariant == Spec => []IInv
<1>1. Init => IInv
  BY InitInv
<1>2. IInv /\ [Next]_vars => IInv'
  BY QueueStep, FileStep, EntryStep DEF IInv
<1> QED
  BY <1>1, <1>2, PTL DEF Spec

\* The variables have their types, and writers_ is the set of the calls
\* inside Write, each once (DBImpl::Write, BuildBatchGroup).
THEOREM WritePathTypes == Spec => []TypeOK
<1>1. IInv => TypeOK
  <2> SUFFICES ASSUME IInv PROVE TypeOK
    OBVIOUS
  <2>1. QueueInv /\ FileTypes /\ Running
    BY DEF IInv, FileInv
  <2>2. InFlight \ {"immcheck", "immwait"} = QueuePhases
    BY DEF InFlight, QueuePhases, FrontPhases, Writing
  <2>3. \A i \in DOMAIN writers : writers[i] \in Calls
    BY <2>1, WritersShape
  <2>4. {writers[i] : i \in DOMAIN writers} =
          {c \in Calls : call[c].pc \in InFlight \ {"immcheck", "immwait"}}
    BY <2>1, <2>2, <2>3 DEF QueueInv
  <2>5. \A n \in DOMAIN log : log[n] \in Log
    BY <2>1, LogTypes
  <2>6. /\ \A n \in DOMAIN tables : tables[n] \subseteq Entry /\ tables[n] # {}
        /\ \A m \in Manifests \cup {current} : m \in Version
        /\ bg.pc \in {"none", "scheduled", "flush", "compact", "apply", "install"}
    BY <2>1 DEF FileTypes, Manifests
  <2>7. /\ mem \subseteq Entry /\ imm \subseteq Entry /\ has_imm \in BOOLEAN
        /\ last_sequence \in Nat /\ next_file_number \in 0..MaxFileNumber
        /\ db \in {"closed", "recovering", "applying", "open", "closing"}
    BY <2>1 DEF FileTypes
  <2>8. db = "open" => logfile_number \in DOMAIN log
    BY <2>1 DEF Running
  <2>9. /\ call \in [Calls -> CallState]
        /\ \A i, j \in DOMAIN writers : writers[i] = writers[j] => i = j
    BY <2>1 DEF QueueInv
  <2> QED
    BY <2>4, <2>5, <2>6, <2>7, <2>8, <2>9 DEF TypeOK
<1> QED
  BY <1>1, WritePathInvariant, PTL

\* No table that a MANIFEST may name is ever removed or missing, however many
\* writes of a MANIFEST fail half way (DeleteObsoleteFiles, LogAndApply): an
\* open after any crash finds the tables of the version it reads.
THEOREM ManifestsHaveTheirFiles == Spec => []ManifestFilesExist
<1>1. IInv => ManifestFilesExist
  BY DEF IInv, FileInv, VersionsOK, VersionOK, ManifestFilesExist
<1> QED
  BY <1>1, WritePathInvariant, PTL

\* No two writes ever get one sequence number, over failing log writes, group
\* commits, crashes and reopenings (Write, BuildBatchGroup, RecoverLogFile).
THEOREM NoSequenceTwice == Spec => []SequencesUnique
<1>1. IInv => SequencesUnique
  <2> SUFFICES ASSUME IInv PROVE SequencesUnique
    OBVIOUS
  <2>1. FileTypes /\ LiveUnique
    BY DEF IInv, FileInv, EntryInv
  <2>2. \A m \in Manifests : Recovered(m) \subseteq Findable(m)
    BY <2>1, LogTypes DEF Recovered, Findable
  <2>3. (mem \cup imm \cup (UNION {Recovered(m) : m \in Manifests})) \subseteq Live
    BY <2>2 DEF Live
  <2> QED
    BY <2>1, <2>3 DEF LiveUnique, SequencesUnique
<1> QED
  BY <1>1, WritePathInvariant, PTL

\* An acknowledged write that the disk holds is never hidden from a reader of
\* an open database: recovery, the switch of the memtable, the flush, a
\* compaction and failing log writes leave it at or below the last sequence
\* number (MakeRoomForWrite, CompactMemTable, RecoverLogFile).
THEOREM AcknowledgedStaysVisible == Spec => []AckedVisible
<1>1. IInv => AckedVisible
  <2> SUFFICES ASSUME IInv, db = "open",
                      NEW c \in Acked, NEW e \in Recovered(current), e.call = c
               PROVE  e \in mem \cup imm \cup InTables(current) /\ e.seq <= last_sequence
    BY DEF AckedVisible, CallsOf
  <2>1. /\ QueueInv /\ FileInv /\ FileTypes /\ Running /\ Installed
        /\ GroupInv /\ LiveBelow /\ MemHolds
    BY DEF IInv, FileInv, EntryInv
  <2>2. c \in Calls /\ call[c].result = "ok"
    BY DEF Acked
  <2>3. call[c].pc \notin InFlight
    BY <2>1, <2>2 DEF QueueInv
  <2>4. ~InGroup(e)
    <3> SUFFICES ASSUME InGroup(e) PROVE FALSE
      OBVIOUS
    <3>1. PICK d \in Calls : call[d].pc \in Writing /\ e \in group.entries
      BY DEF InGroup
    <3>2. PICK i \in 1..group.size : e.call = writers[i] /\ i \in DOMAIN writers
      BY <3>1, GroupFacts
    <3>3. call[c].pc \in QueuePhases
      BY <2>1, <3>2 DEF QueueInv
    <3> QED
      BY <2>3, <3>3 DEF QueuePhases, FrontPhases, Writing, InFlight
  <2>5. ~Failed(e)
    BY <2>2 DEF Failed
  <2>6. current = manifest /\ manifest \in Manifests
    BY <2>1 DEF Installed, Manifests
  <2>7. e \in Live /\ e \in mem \cup imm \cup InTables(current)
    <3>1. CASE e \in InTables(current)
      BY <2>1, <2>6, <3>1, LiveTypes
    <3>2. CASE \E n \in DOMAIN log : /\ n >= current.log_number
                                     /\ e \in Readable(log[n], Len(log[n].records))
      <4>1. PICK n \in DOMAIN log : /\ n >= current.log_number
                                    /\ e \in Readable(log[n], Len(log[n].records))
        BY <3>2
      <4>2. e \in LogEntries(n)
        BY <2>1, <4>1, LogTypes
      <4>3. e \in Live
        BY <2>1, <2>6, <4>1, <4>2, LiveTypes
      <4>4. n <= logfile_number /\ n \in Nat /\ logfile_number \in Nat
            /\ current.log_number \in Nat
        BY <2>1 DEF Running, FileTypes, Version
      <4>5. n = logfile_number \/ (current.log_number <= n /\ n < logfile_number)
        BY <4>1, <4>4
      <4>6. e \in mem \cup imm \cup InTables(current)
        BY <2>1, <2>4, <2>5, <4>2, <4>5 DEF MemHolds
      <4> QED
        BY <4>3, <4>6
    <3> QED
      BY <3>1, <3>2 DEF Recovered
  <2>8. e.seq <= last_sequence
    BY <2>1, <2>4, <2>7 DEF LiveBelow
  <2> QED
    BY <2>7, <2>8
<1> QED
  BY <1>1, WritePathInvariant, PTL
=============================================================================
