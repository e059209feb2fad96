------------------------------- MODULE DBImpl -------------------------------
(***************************************************************************)
(* LevelDB's write path: the queue of writers and their group commit, the  *)
(* log and its replacement, the background thread that turns memtables     *)
(* into tables, the MANIFEST, crashes and recovery.                        *)
(*                                                                         *)
(* Each action is what one thread does between taking and releasing        *)
(* mutex_, or one call it makes while it does not hold it.  A call of      *)
(* Write is known by its identity and its batch is one entry; a call with  *)
(* a NULL batch comes from TEST_CompactMemTable, which then waits for the  *)
(* flush.  The levels below 0 and the choice of a compaction's inputs are  *)
(* DBVersions'.                                                            *)
(***************************************************************************)
EXTENDS Integers, Sequences, FiniteSets

CONSTANTS
  Calls,                      \* the calls of Write
  Requests,                   \* [batch, sync]: what a call may ask for
  write_buffer_size,          \* entries a memtable may hold and have room
  kL0_CompactionTrigger,      \* 4 in the code
  kL0_SlowdownWritesTrigger,  \* 8 in the code
  kL0_StopWritesTrigger,      \* 12 in the code
  MaxFileNumber,              \* bound: file numbers
  MaxCrashes,                 \* bound: closings and process crashes
  MaxMachineCrashes,          \* bound: machine crashes
  MaxTorn,                    \* bound: AddRecords that leave part of a record
  MaxFailures                 \* bound: other failing I/O

ASSUME DBImplAssumption ==
  /\ IsFiniteSet(Calls)
  /\ Requests \subseteq [batch : BOOLEAN, sync : BOOLEAN]
  /\ write_buffer_size \in Nat
  /\ kL0_CompactionTrigger \in Nat \ {0}
  /\ kL0_SlowdownWritesTrigger \in Nat \ {0}
  /\ kL0_StopWritesTrigger \in Nat \ {0}
  /\ kL0_CompactionTrigger <= kL0_StopWritesTrigger
  /\ MaxFileNumber \in Nat
  /\ MaxCrashes \in Nat /\ MaxMachineCrashes \in Nat
  /\ MaxTorn \in Nat /\ MaxFailures \in Nat

Entry == [seq : Nat, call : Calls]
Record == [entries : SUBSET Entry, torn : BOOLEAN]
Log == [records : Seq(Record), synced : Nat]
Version == [files : SUBSET Nat, level0 : SUBSET Nat, log_number : Nat,
            next_file : Nat, last_sequence : Nat]

VARIABLES
  call,            \* per call: where its thread is, its request, its result
  writers,         \* writers_, oldest first
  group,           \* the front writer's batch group
  mem, imm,        \* the entries of the memtables
  has_imm,         \* imm_ != NULL
  logfile_number,  \* the log being written
  last_sequence, next_file_number,
  current,         \* the installed version and log number
  bg,              \* the background thread
  bg_error,        \* bg_error_ is not ok
  db,              \* closed, or how far opening or closing has come
  log, tables,     \* disk: the log and table files, by number
  manifest,        \* disk: the version the MANIFEST describes for certain
  manifest_edit,   \* disk: the one it may describe instead
  recovery,        \* DB::Open: the logs left to read, the tables added
  torn_logs,       \* AddRecords that left part of a record so far
  crashes, machine_crashes, failures

memVars == <<mem, imm, has_imm, logfile_number, last_sequence,
             next_file_number, current>>
diskVars == <<log, tables, manifest, manifest_edit>>
crashVars == <<crashes, machine_crashes>>
faultVars == <<torn_logs, crashVars, failures>>
openVars == <<db, recovery>>
vars == <<call, writers, group, memVars, bg, bg_error, openVars, diskVars,
          faultVars>>

-----------------------------------------------------------------------------
(* Helpers.                                                                *)

NoGroup == [size |-> 0, entries |-> {}, last |-> 0, ok |-> TRUE,
            sync_error |-> FALSE]

InFlight == {"queued", "front", "bgwait", "log", "sync", "insert", "finish",
             "immcheck", "immwait"}

\* Faulty variant: writers in MakeRoomForWrite are not signalled.
SignalAllMissesWriters(calls) ==
  [c \in Calls |-> IF calls[c].pc = "immwait"
                   THEN [calls[c] EXCEPT !.pc = "immcheck"] ELSE calls[c]]

\* bg_cv_.SignalAll(), applied to the calls.
SignalAll(calls) ==
  [c \in Calls |->
     CASE calls[c].pc = "bgwait" -> [calls[c] EXCEPT !.pc = "front"]
       [] calls[c].pc = "immwait" -> [calls[c] EXCEPT !.pc = "immcheck"]
       [] OTHER -> calls[c]]

\* MaybeScheduleCompaction, once nothing is scheduled.
Schedule(hasImm, version, err, state) ==
  IF /\ state # "closing" /\ ~err
     /\ hasImm \/ Cardinality(version.level0) >= kL0_CompactionTrigger
  THEN "scheduled" ELSE "none"
Idle(pc) == [pc |-> pc, number |-> 0, files |-> {}, level0 |-> {}]

\* Faulty variant: files are removed after an error too.
KeepTablesDespiteError(files, version, pending, err) ==
  [n \in DOMAIN files \cap (version.files \cup pending) |-> files[n]]

\* DeleteObsoleteFiles: nothing after an error, since the MANIFEST may then
\* describe more than the installed version.
KeepLogs(logs, version, err) ==
  IF err THEN logs
  ELSE [n \in {m \in DOMAIN logs : m >= version.log_number} |-> logs[n]]
KeepTables(files, version, pending, err) ==
  IF err THEN files
  ELSE [n \in DOMAIN files \cap (version.files \cup pending) |-> files[n]]

\* What reading the first n records of a log is sure to return: everything
\* up to a torn record.
Readable(l, n) ==
  UNION {l.records[i].entries :
           i \in {j \in 1..n : \A k \in 1..j : ~l.records[k].torn}}

\* What recovery from a version finds, with all of the logs or what was
\* synced of them.
InTables(version) == UNION {tables[n] : n \in version.files \cap DOMAIN tables}
Recovered(version) ==
  InTables(version) \cup
  UNION {Readable(log[n], Len(log[n].records)) :
           n \in {m \in DOMAIN log : m >= version.log_number}}
RecoveredSynced(version) ==
  InTables(version) \cup
  UNION {Readable(log[n], log[n].synced) :
           n \in {m \in DOMAIN log : m >= version.log_number}}
Manifests == {manifest} \cup manifest_edit
CallsOf(entries) == {e.call : e \in entries}

NewVersion ==
  [files |-> {}, level0 |-> {}, log_number |-> 0, next_file |-> 2,
   last_sequence |-> 0]
NoFiles == [n \in {} |-> 0]
NoRecovery == [logs |-> {}, files |-> {}]

Init ==
  /\ call = [c \in Calls |-> [pc |-> "idle", batch |-> FALSE, sync |-> FALSE,
                              force |-> FALSE, allow_delay |-> FALSE,
                              result |-> "none"]]
  /\ writers = <<>> /\ group = NoGroup
  /\ mem = {} /\ imm = {} /\ has_imm = FALSE
  /\ logfile_number = 0 /\ last_sequence = 0 /\ next_file_number = 0
  /\ current = NewVersion
  /\ bg = Idle("none") /\ bg_error = FALSE
  /\ db = "closed" /\ recovery = NoRecovery
  /\ log = NoFiles /\ tables = NoFiles
  /\ manifest = NewVersion /\ manifest_edit = {}
  /\ torn_logs = 0 /\ crashes = 0 /\ machine_crashes = 0 /\ failures = 0

-----------------------------------------------------------------------------
(* Write.                                                                  *)

\* A call joins the queue; it goes on if it is alone, else it waits on its
\* own condition variable.
WriteCall(c, r) ==
  /\ db = "open" /\ call[c].pc = "idle"
  /\ writers' = Append(writers, c)
  /\ call' = [call EXCEPT ![c] =
                [pc |-> IF writers = <<>> THEN "front" ELSE "queued",
                 batch |-> r.batch, sync |-> r.sync, force |-> ~r.batch,
                 allow_delay |-> r.batch, result |-> "none"]]
  /\ UNCHANGED <<group, memVars, bg, bg_error, openVars, diskVars, faultVars>>

\* Faulty variant: only the leader leaves the queue.
FinishLeaderOnly(calls, n, ok) ==
  LET leaving == {writers[i] : i \in 1..n}
  IN /\ writers' = Tail(writers) /\ group' = NoGroup
     /\ call' = [c \in Calls |->
          IF c \in leaving
          THEN [calls[c] EXCEPT !.pc = "returned",
                                !.result = IF ok THEN "ok" ELSE "error"]
          ELSE calls[c]]

\* The end of Write: the first n writers leave with the same status and the
\* new front is signalled.
Finish(calls, n, ok) ==
  LET leaving == {writers[i] : i \in 1..n}
      rest == SubSeq(writers, n + 1, Len(writers))
  IN /\ writers' = rest
     /\ group' = NoGroup
     /\ call' = [c \in Calls |->
          IF c \in leaving
          THEN [calls[c] EXCEPT
                  !.pc = IF ok /\ ~calls[c].batch THEN "immcheck"
                         ELSE "returned",
                  !.result = IF ~ok THEN "error"
                             ELSE IF calls[c].batch THEN "ok" ELSE "none"]
          ELSE IF rest # <<>> /\ c = Head(rest)
          THEN [calls[c] EXCEPT !.pc = "front"]
          ELSE calls[c]]

HasRoom(c) == ~call[c].force /\ Cardinality(mem) <= write_buffer_size
Slow(c) == /\ call[c].allow_delay
           /\ Cardinality(current.level0) >= kL0_SlowdownWritesTrigger
AtFront(c) == writers # <<>> /\ c = Head(writers) /\ call[c].pc = "front"

\* MakeRoomForWrite, by the first test of its loop that succeeds.
RoomError(c) ==
  /\ AtFront(c) /\ bg_error
  /\ Finish(call, 1, FALSE)
  /\ UNCHANGED <<memVars, bg, bg_error, openVars, diskVars, faultVars>>

RoomDelay(c) ==
  /\ AtFront(c) /\ ~bg_error /\ Slow(c)
  /\ call' = [call EXCEPT ![c].allow_delay = FALSE]
  /\ UNCHANGED <<writers, group, memVars, bg, bg_error, openVars, diskVars,
                 faultVars>>

\* Faulty variant: a sync write may join any group.
GroupSizesAnySync ==
  {n \in 1..Len(writers) : n < Len(writers) => call[writers[n + 1]].batch}

\* BuildBatchGroup: how many writers the group may take.  A sync write never
\* joins a group without sync; a batch that makes the group too big ends it.
GroupSizes ==
  {n \in 1..Len(writers) :
     /\ \A i \in 2..n : call[writers[i]].sync => call[Head(writers)].sync
     /\ n < Len(writers) =>
          \/ call[writers[n + 1]].sync /\ ~call[Head(writers)].sync
          \/ call[writers[n + 1]].batch}

\* Faulty variant: numbered from the last sequence itself.
UpdatesFromLast(n) ==
  LET batches == {i \in 1..n : call[writers[i]].batch}
  IN {[seq |-> last_sequence + Cardinality({j \in batches : j < i}),
       call |-> writers[i]] : i \in batches}

\* The batches of the first n writers, numbered from the last sequence on.
Updates(n) ==
  LET batches == {i \in 1..n : call[writers[i]].batch}
  IN {[seq |-> last_sequence + Cardinality({j \in batches : j <= i}),
       call |-> writers[i]] : i \in batches}

RoomBatch(c) ==
  /\ AtFront(c) /\ ~bg_error /\ ~Slow(c) /\ HasRoom(c)
  /\ call[c].batch
  /\ \E n \in GroupSizes :
       group' = [size |-> n, entries |-> Updates(n),
                 last |-> last_sequence + Cardinality(Updates(n)),
                 ok |-> TRUE, sync_error |-> FALSE]
  /\ call' = [call EXCEPT ![c].pc = "log"]
  /\ UNCHANGED <<writers, memVars, bg, bg_error, openVars, diskVars, faultVars>>

RoomNoBatch(c) ==
  /\ AtFront(c) /\ ~bg_error /\ ~Slow(c) /\ HasRoom(c)
  /\ ~call[c].batch
  /\ Finish(call, 1, TRUE)
  /\ UNCHANGED <<memVars, bg, bg_error, openVars, diskVars, faultVars>>

\* The previous memtable is not flushed yet, or level 0 is full.
RoomWait(c) ==
  /\ AtFront(c) /\ ~bg_error /\ ~Slow(c) /\ ~HasRoom(c)
  /\ has_imm \/ Cardinality(current.level0) >= kL0_StopWritesTrigger
  /\ call' = [call EXCEPT ![c].pc = "bgwait"]
  /\ UNCHANGED <<writers, group, memVars, bg, bg_error, openVars, diskVars,
                 faultVars>>

\* Faulty variant: the memtable is switched while the previous one is in use.
MustSwitchOverImm(c) ==
  /\ AtFront(c) /\ ~bg_error /\ ~Slow(c) /\ ~HasRoom(c)
  /\ Cardinality(current.level0) < kL0_StopWritesTrigger

MustSwitch(c) ==
  /\ AtFront(c) /\ ~bg_error /\ ~Slow(c) /\ ~HasRoom(c)
  /\ ~has_imm /\ Cardinality(current.level0) < kL0_StopWritesTrigger

\* A new log and memtable; the old log is closed as it is, not synced.
RoomSwitch(c) ==
  /\ MustSwitch(c) /\ next_file_number < MaxFileNumber
  /\ logfile_number' = next_file_number
  /\ next_file_number' = next_file_number + 1
  /\ log' = [n \in DOMAIN log \cup {next_file_number} |->
               IF n = next_file_number THEN [records |-> <<>>, synced |-> 0]
               ELSE log[n]]
  /\ imm' = mem /\ has_imm' = TRUE /\ mem' = {}
  /\ call' = [call EXCEPT ![c].force = FALSE]
  /\ bg' = IF bg.pc = "none"
           THEN Idle(Schedule(TRUE, current, bg_error, db)) ELSE bg
  /\ UNCHANGED <<writers, group, last_sequence, current, bg_error, openVars, tables,
                 manifest, manifest_edit, faultVars>>

\* The new log cannot be created: the number is given back.
RoomSwitchFails(c) ==
  /\ MustSwitch(c) /\ failures < MaxFailures
  /\ failures' = failures + 1
  /\ Finish(call, 1, FALSE)
  /\ UNCHANGED <<memVars, bg, bg_error, openVars, diskVars, torn_logs,
                 crashVars>>
-----------------------------------------------------------------------------
(* The front writer, without the mutex: log, sync, insert.                 *)

AddRecord(c) ==
  /\ call[c].pc = "log"
  /\ log' = [log EXCEPT ![logfile_number].records =
               Append(@, [entries |-> group.entries, torn |-> FALSE])]
  /\ call' = [call EXCEPT ![c].pc = IF call[c].sync THEN "sync" ELSE "insert"]
  /\ UNCHANGED <<writers, group, memVars, bg, bg_error, openVars, tables, manifest,
                 manifest_edit, faultVars>>

\* Append or Flush reports an error, and nothing of the record is in the file
\* or, when only Flush failed, all of it.  No background error is recorded.
AddRecordFails(c) ==
  /\ call[c].pc = "log" /\ failures < MaxFailures
  /\ failures' = failures + 1
  /\ \/ UNCHANGED log
     \/ log' = [log EXCEPT ![logfile_number].records =
                  Append(@, [entries |-> group.entries, torn |-> FALSE])]
  /\ group' = [group EXCEPT !.ok = FALSE]
  /\ call' = [call EXCEPT ![c].pc = "finish"]
  /\ UNCHANGED <<writers, memVars, bg, bg_error, openVars, tables, manifest,
                 manifest_edit, torn_logs, crashVars>>

\* The same, with part of the record in the file, or none and the writer's
\* blocks no longer the reader's: what follows may be skipped by a replay.
AddRecordTears(c) ==
  /\ call[c].pc = "log" /\ torn_logs < MaxTorn
  /\ torn_logs' = torn_logs + 1
  /\ log' = [log EXCEPT ![logfile_number].records =
               Append(@, [entries |-> {}, torn |-> TRUE])]
  /\ group' = [group EXCEPT !.ok = FALSE]
  /\ call' = [call EXCEPT ![c].pc = "finish"]
  /\ UNCHANGED <<writers, memVars, bg, bg_error, openVars, tables, manifest,
                 manifest_edit, crashVars, failures>>

SyncLog(c) ==
  /\ call[c].pc = "sync"
  /\ log' = [log EXCEPT ![logfile_number].synced =
               Len(log[logfile_number].records)]
  /\ call' = [call EXCEPT ![c].pc = "insert"]
  /\ UNCHANGED <<writers, group, memVars, bg, bg_error, openVars, tables, manifest,
                 manifest_edit, faultVars>>

SyncLogFails(c) ==
  /\ call[c].pc = "sync" /\ failures < MaxFailures
  /\ failures' = failures + 1
  /\ group' = [group EXCEPT !.ok = FALSE, !.sync_error = TRUE]
  /\ call' = [call EXCEPT ![c].pc = "finish"]
  /\ UNCHANGED <<writers, memVars, bg, bg_error, openVars, diskVars, torn_logs,
                 crashVars>>

InsertInto(c) ==
  /\ call[c].pc = "insert"
  /\ mem' = mem \cup group.entries
  /\ call' = [call EXCEPT ![c].pc = "finish"]
  /\ UNCHANGED <<writers, group, imm, has_imm, logfile_number, last_sequence,
                 next_file_number, current, bg, bg_error, openVars, diskVars,
                 faultVars>>

\* RecordBackgroundError signals bg_cv_ once.
FinishWrite(c) ==
  /\ call[c].pc = "finish"
  /\ bg_error' = (bg_error \/ group.sync_error)
  /\ last_sequence' = group.last
  /\ Finish(IF group.sync_error /\ ~bg_error THEN SignalAll(call) ELSE call,
            group.size, group.ok)
  /\ UNCHANGED <<mem, imm, has_imm, logfile_number, next_file_number, current,
                 bg, openVars, diskVars, faultVars>>

\* TEST_CompactMemTable after its Write: wait until the flush is over.
CompactMemTableWaits(c) ==
  /\ call[c].pc = "immcheck" /\ has_imm /\ ~bg_error
  /\ call' = [call EXCEPT ![c].pc = "immwait"]
  /\ UNCHANGED <<writers, group, memVars, bg, bg_error, openVars, diskVars,
                 faultVars>>

CompactMemTableReturns(c) ==
  /\ call[c].pc = "immcheck" /\ (~has_imm \/ bg_error)
  /\ call' = [call EXCEPT ![c] =
                [@ EXCEPT !.pc = "returned",
                          !.result = IF has_imm THEN "error" ELSE "ok"]]
  /\ UNCHANGED <<writers, group, memVars, bg, bg_error, openVars, diskVars,
                 faultVars>>

-----------------------------------------------------------------------------
(* The background thread.                                                  *)

\* The end of BackgroundCall.
BackgroundDone(hasImm, version, err) ==
  /\ bg' = Idle(Schedule(hasImm, version, err, db))
  /\ bg_error' = err
  /\ call' = SignalAll(call)

\* BackgroundCall finds nothing it may do.
BackgroundNothing ==
  /\ bg.pc = "scheduled"
  /\ \/ db = "closing" \/ bg_error
     \/ ~has_imm /\ Cardinality(current.level0) < kL0_CompactionTrigger
  /\ BackgroundDone(has_imm, current, bg_error)
  /\ UNCHANGED <<writers, group, memVars, openVars, diskVars, faultVars>>

\* CompactMemTable or a compaction of level 0 starts: a number for its table.
BackgroundStart ==
  /\ bg.pc = "scheduled" /\ db = "open" /\ ~bg_error
  /\ next_file_number < MaxFileNumber
  /\ \/ /\ has_imm
        /\ bg' = [Idle("flush") EXCEPT !.number = next_file_number]
     \/ /\ ~has_imm /\ Cardinality(current.level0) >= kL0_CompactionTrigger
        /\ bg' = [Idle("compact") EXCEPT !.number = next_file_number,
                                         !.level0 = current.level0]
  /\ next_file_number' = next_file_number + 1
  /\ UNCHANGED <<call, writers, group, mem, imm, has_imm, logfile_number,
                 last_sequence, current, bg_error, openVars, diskVars, faultVars>>

\* The table is built and synced; with the mutex, LogAndApply makes the edit
\* and releases it again to write the MANIFEST.
TableBuilt ==
  LET flushing == bg.pc = "flush"
      content == IF flushing THEN imm
                 ELSE UNION {tables[n] : n \in bg.level0}
      new == IF content = {} THEN {} ELSE {bg.number}
      files == (current.files \ bg.level0) \cup new
  IN /\ bg.pc \in {"flush", "compact"} /\ db = "open"
     /\ tables' = [n \in DOMAIN tables \cup new |->
                     IF n \in new THEN content ELSE tables[n]]
     /\ \E level0 \in IF flushing
                       THEN {current.level0, current.level0 \cup new}
                       ELSE {current.level0 \ bg.level0} :
          manifest_edit' = {[files |-> files, level0 |-> level0,
                             log_number |-> IF flushing THEN logfile_number
                                            ELSE current.log_number,
                             next_file |-> next_file_number,
                             last_sequence |-> last_sequence]}
     /\ bg' = [bg EXCEPT !.pc = IF flushing THEN "apply" ELSE "install"]
     /\ UNCHANGED <<call, writers, group, memVars, bg_error, openVars, log,
                     manifest, faultVars>>

\* A compaction removes obsolete files however it ends, a flush only when it
\* succeeds.
CleanUp(deletes, version, err) ==
  /\ log' = IF deletes THEN KeepLogs(log, version, err) ELSE log
  /\ tables' = IF deletes THEN KeepTables(tables, version, {}, err) ELSE tables

\* BuildTable fails, or the database is being closed.
TableFails ==
  /\ bg.pc \in {"flush", "compact"}
  /\ \/ db = "closing" /\ UNCHANGED failures
     \/ failures < MaxFailures /\ failures' = failures + 1
  /\ CleanUp(bg.pc = "compact", current, TRUE)
  /\ BackgroundDone(has_imm, current, TRUE)
  /\ UNCHANGED <<writers, group, memVars, openVars, manifest, manifest_edit,
                 torn_logs, crashVars>>

\* The MANIFEST is written and synced: the edit becomes the current version.
LogAndApply ==
  LET edit == CHOOSE e \in manifest_edit : TRUE
  IN /\ bg.pc \in {"apply", "install"}
     /\ current' = edit /\ manifest' = edit /\ manifest_edit' = {}
     /\ IF bg.pc = "apply" THEN imm' = {} /\ has_imm' = FALSE
        ELSE UNCHANGED <<imm, has_imm>>
     /\ CleanUp(TRUE, edit, bg_error)
     /\ BackgroundDone(bg.pc = "install" /\ has_imm, edit, bg_error)
     /\ UNCHANGED <<writers, group, mem, logfile_number, last_sequence,
                     next_file_number, openVars, faultVars>>

\* Writing or syncing the MANIFEST fails: it may hold the edit all the same.
LogAndApplyFails ==
  /\ bg.pc \in {"apply", "install"} /\ failures < MaxFailures
  /\ failures' = failures + 1
  /\ CleanUp(bg.pc = "install", current, TRUE)
  /\ BackgroundDone(has_imm, current, TRUE)
  /\ UNCHANGED <<writers, group, memVars, openVars, manifest, manifest_edit,
                 torn_logs, crashVars>>

-----------------------------------------------------------------------------
(* Closing, crashing, opening.                                             *)

\* Memory is gone; what was under way never returns.
Forget ==
  /\ writers' = <<>> /\ group' = NoGroup
  /\ mem' = {} /\ imm' = {} /\ has_imm' = FALSE
  /\ logfile_number' = 0 /\ last_sequence' = 0 /\ next_file_number' = 0
  /\ current' = NewVersion
  /\ bg' = Idle("none") /\ bg_error' = FALSE
  /\ db' = "closed" /\ recovery' = NoRecovery
  /\ call' = [c \in Calls |-> IF call[c].pc \in InFlight
                              THEN [call[c] EXCEPT !.pc = "lost"]
                              ELSE call[c]]

\* ~DBImpl: no more background work, and wait for what is scheduled.
Close ==
  /\ db = "open" /\ crashes < MaxCrashes
  /\ \A c \in Calls : call[c].pc \notin InFlight
  /\ db' = "closing" /\ crashes' = crashes + 1
  /\ UNCHANGED <<call, writers, group, memVars, bg, bg_error, recovery,
                 diskVars, torn_logs, machine_crashes, failures>>

Closed ==
  /\ db = "closing" /\ bg.pc = "none"
  /\ Forget
  /\ UNCHANGED <<diskVars, faultVars>>

ProcessCrash ==
  /\ db # "closed" /\ crashes < MaxCrashes
  /\ crashes' = crashes + 1
  /\ Forget
  /\ UNCHANGED <<diskVars, torn_logs, machine_crashes, failures>>

\* Logs keep what was synced and any part of the rest; a log of which
\* nothing is left may be missing.
MachineCrash ==
  /\ db # "closed" /\ machine_crashes < MaxMachineCrashes
  /\ machine_crashes' = machine_crashes + 1
  /\ \E keep \in [DOMAIN log -> 0..Cardinality(Calls)] :
       /\ \A n \in DOMAIN log :
            log[n].synced <= keep[n] /\ keep[n] <= Len(log[n].records)
       /\ \E gone \in SUBSET {n \in DOMAIN log : keep[n] = 0} :
            log' = [n \in DOMAIN log \ gone |->
                      [records |-> SubSeq(log[n].records, 1, keep[n]),
                       synced |-> keep[n]]]
  /\ Forget
  /\ UNCHANGED <<tables, manifest, manifest_edit, torn_logs, crashes, failures>>

\* DBImpl::Recover, VersionSet::Recover: what the MANIFEST turns out to hold.
\* A missing table is an error.
Recover ==
  /\ db = "closed"
  /\ \E m \in Manifests :
       /\ m.next_file < MaxFileNumber /\ m.files \subseteq DOMAIN tables
       /\ manifest' = m /\ current' = m
       /\ next_file_number' = m.next_file + 1
       /\ last_sequence' = m.last_sequence
       /\ recovery' = [logs |-> {n \in DOMAIN log : n >= m.log_number},
                       files |-> {}]
  /\ manifest_edit' = {}
  /\ db' = "recovering"
  /\ UNCHANGED <<call, writers, group, mem, imm, has_imm, logfile_number, bg,
                 bg_error, log, tables, faultVars>>

Later(a, b) == IF a >= b THEN a ELSE b

\* What of a list of recovered batches, up to the n-th, goes to memtable t.
Filled(reads, part, t, n) == UNION {reads[i] : i \in {j \in 1..n : part[j] = t}}

\* The memtable, counted from 1, that each batch goes to: the next one after
\* the memtable was full.
Memtables(reads) ==
  {part \in [DOMAIN reads -> DOMAIN reads] :
     \A i \in DOMAIN reads :
       part[i] = IF i = 1 THEN 1
                 ELSE IF Cardinality(Filled(reads, part, part[i - 1], i - 1))
                           > write_buffer_size
                 THEN part[i - 1] + 1 ELSE part[i - 1]}

\* RecoverLogFile, oldest log first.  After a torn record the reader goes on
\* with the next block, if there is one.  Every memtable that got anything
\* becomes a table.
RecoverLogFile ==
  \E n \in recovery.logs :
    LET records == log[n].records
        new == next_file_number
    IN /\ \A m \in recovery.logs : n <= m
       /\ \E from \in 1..(Len(records) + 1) :
            LET sure == {i \in DOMAIN records :
                           \A k \in 1..i : ~records[k].torn}
                reads == [i \in DOMAIN records |->
                            IF i \in sure \/ i >= from
                            THEN records[i].entries ELSE {}]
                seqs == {last_sequence} \cup
                        {e.seq : e \in UNION {reads[i] : i \in DOMAIN reads}}
            IN /\ from <= Len(records) =>
                    \E i \in 1..(from - 1) : records[i].torn
               /\ \E part \in Memtables(reads), count \in 0..Len(records) :
                    LET table(t) == Filled(reads, part, t, Len(records))
                        built == new..(new + count - 1)
                    IN /\ {t \in DOMAIN reads : table(t) # {}} = 1..count
                       /\ new + count <= MaxFileNumber
                       /\ tables' = [m \in DOMAIN tables \cup built |->
                                       IF m \in built THEN table(m - new + 1)
                                       ELSE tables[m]]
                       /\ recovery' = [logs |-> recovery.logs \ {n},
                                       files |-> recovery.files \cup built]
                       /\ next_file_number' = Later(new + count, n + 1)
               /\ last_sequence' \in seqs
               /\ \A s \in seqs : last_sequence' >= s
       /\ UNCHANGED <<call, writers, group, mem, imm, has_imm,
                       logfile_number, current, bg, bg_error, db, log,
                       manifest, manifest_edit, faultVars>>

\* DB::Open: a fresh log, then a new MANIFEST is written.
OpenLog ==
  LET n == next_file_number
  IN /\ db = "recovering" /\ recovery.logs = {} /\ n < MaxFileNumber
     /\ log' = [m \in DOMAIN log \cup {n} |->
                  IF m = n THEN [records |-> <<>>, synced |-> 0] ELSE log[m]]
     /\ logfile_number' = n /\ next_file_number' = n + 1
     /\ manifest_edit' = {[files |-> current.files \cup recovery.files,
                           level0 |-> current.level0 \cup recovery.files,
                           log_number |-> n, next_file |-> n + 1,
                           last_sequence |-> last_sequence]}
     /\ db' = "applying"
     /\ UNCHANGED <<call, writers, group, mem, imm, has_imm, last_sequence,
                     current, bg, bg_error, recovery, tables, manifest,
                     faultVars>>

\* CURRENT names the new MANIFEST; older logs go.
Opened ==
  LET edit == CHOOSE e \in manifest_edit : TRUE
  IN /\ db = "applying"
     /\ current' = edit /\ manifest' = edit /\ manifest_edit' = {}
     /\ log' = KeepLogs(log, edit, FALSE)
     /\ tables' = KeepTables(tables, edit, {}, FALSE)
     /\ db' = "open" /\ recovery' = NoRecovery
     /\ bg' = Idle(Schedule(FALSE, edit, FALSE, "open"))
     /\ UNCHANGED <<call, writers, group, mem, imm, has_imm, logfile_number,
                     last_sequence, next_file_number, bg_error, faultVars>>

\* Some file cannot be read or written; a new MANIFEST is removed again.
OpenFails ==
  /\ db \in {"recovering", "applying"} /\ failures < MaxFailures
  /\ failures' = failures + 1
  /\ manifest_edit' = {}
  /\ Forget
  /\ UNCHANGED <<log, tables, manifest, torn_logs,
                 crashVars>>

-----------------------------------------------------------------------------
CallStep(c) ==
  \/ RoomError(c) \/ RoomDelay(c) \/ RoomBatch(c) \/ RoomNoBatch(c)
  \/ RoomWait(c) \/ RoomSwitch(c) \/ RoomSwitchFails(c)
  \/ AddRecord(c) \/ AddRecordFails(c) \/ AddRecordTears(c)
  \/ SyncLog(c) \/ SyncLogFails(c)
  \/ InsertInto(c) \/ FinishWrite(c)
  \/ CompactMemTableWaits(c) \/ CompactMemTableReturns(c)

Background ==
  \/ BackgroundNothing \/ BackgroundStart \/ TableBuilt \/ TableFails
  \/ LogAndApply \/ LogAndApplyFails

Open == Recover \/ RecoverLogFile \/ OpenLog \/ Opened \/ OpenFails

Next ==
  \/ \E c \in Calls : CallStep(c) \/ \E r \in Requests : WriteCall(c, r)
  \/ Background
  \/ Open \/ Close \/ Closed \/ ProcessCrash \/ MachineCrash

\* Running threads go on, the thread of env_->Schedule among them.  Nothing
\* obliges a client to call, or anything to fail.
Fairness == (\A c \in Calls : WF_vars(CallStep(c))) /\ WF_vars(Background)

Spec == Init /\ [][Next]_vars
FairSpec == Spec /\ Fairness

-----------------------------------------------------------------------------
(* Properties.                                                             *)

Phases == InFlight \cup {"idle", "returned", "lost"}
CallState == [pc : Phases, batch : BOOLEAN, sync : BOOLEAN, force : BOOLEAN,
              allow_delay : BOOLEAN, result : {"none", "ok", "error"}]

\* The variables hold what their declarations say, and the queue is the set
\* of the calls inside Write, each once.
TypeOK ==
  /\ call \in [Calls -> CallState]
  /\ \A i, j \in DOMAIN writers : writers[i] = writers[j] => i = j
  /\ {writers[i] : i \in DOMAIN writers} =
       {c \in Calls : call[c].pc \in InFlight \ {"immcheck", "immwait"}}
  /\ mem \subseteq Entry /\ imm \subseteq Entry /\ has_imm \in BOOLEAN
  /\ last_sequence \in Nat /\ next_file_number \in 0..MaxFileNumber
  /\ \A m \in Manifests \cup {current} : m \in Version
  /\ bg.pc \in {"none", "scheduled", "flush", "compact", "apply", "install"}
  /\ db \in {"closed", "recovering", "applying", "open", "closing"}
  /\ \A n \in DOMAIN log : log[n] \in Log
  /\ \A n \in DOMAIN tables : tables[n] \subseteq Entry /\ tables[n] # {}
  /\ db = "open" => logfile_number \in DOMAIN log

Acked == {c \in Calls : call[c].batch /\ call[c].result = "ok"}

\* In an open database a read at the last sequence number finds every
\* acknowledged write the disk holds, in a memtable or a table: a write that
\* was recovered, switched away, flushed or compacted never disappears
\* (MakeRoomForWrite, CompactMemTable, RecoverLogFile).
AckedVisible ==
  db = "open" =>
    Acked \cap CallsOf(Recovered(current)) \subseteq
      CallsOf({e \in mem \cup imm \cup InTables(current) :
                 e.seq <= last_sequence})

\* Every table a MANIFEST may name exists, even when writing the MANIFEST
\* failed half way and files were removed afterwards (DeleteObsoleteFiles).
ManifestFilesExist == \A m \in Manifests : m.files \subseteq DOMAIN tables

\* No two writes have one sequence number, over failures, group commits and
\* reopenings: which of them is newer is always decided (Write,
\* RecoverLogFile).
SequencesUnique ==
  \A d, e \in mem \cup imm \cup UNION {Recovered(m) : m \in Manifests} :
    d.seq = e.seq => d.call = e.call

\* A call of Write or TEST_CompactMemTable returns, unless a crash takes it:
\* no signal of the queue or of bg_cv_ is missed, and background work is
\* scheduled whenever a writer waits for it.
CallsReturn ==
  \A c \in Calls : (call[c].pc \in InFlight) ~> (call[c].pc \notin InFlight)

-----------------------------------------------------------------------------
(* What WriteOptions::sync promises, see DurableStore.                     *)

\* What a reopening is sure to find after a process or a machine crash.
KeptCalls == {c \in Calls : \A m \in Manifests : c \in CallsOf(Recovered(m))}
SyncedCalls ==
  {c \in Calls : \A m \in Manifests : c \in CallsOf(RecoveredSynced(m))}
StateOf(c) ==
  IF ~call[c].batch THEN "none"
  ELSE IF call[c].pc \in InFlight THEN "pending"
  ELSE IF call[c].pc = "lost" THEN "lost"
  ELSE call[c].result

Durability == INSTANCE DurableStore WITH
  state <- [c \in Calls |-> StateOf(c)],
  sync <- [c \in Calls |-> call[c].batch /\ call[c].sync],
  kept <- KeptCalls,
  synced <- SyncedCalls

\* Write, its log and recovery keep what options.h promises: an acknowledged
\* write survives a process crash, and a machine crash too if it asked for
\* sync.
KeepsPromises == Durability!Spec

=============================================================================
