-------------------------- MODULE DurabilityProofs --------------------------
(***************************************************************************)
(* LevelDB's write path keeps the promises of WriteOptions::sync: DBImpl   *)
(* implements DurableStore, step by step, as long as no failing AddRecord  *)
(* leaves part of a record.  (With a torn record in the middle of a log it *)
(* does not: later records of that log are acknowledged and may not be     *)
(* read again.)                                                            *)
(***************************************************************************)
EXTENDS DBImplProofs

-----------------------------------------------------------------------------
(* What recovery finds, before and after a step.                           *)

\* Reading more of a log that begins with the same records finds more.
LEMMA ReadableGrows ==
  ASSUME NEW l, NEW k, NEW a \in Nat, NEW b \in Nat, a <= b,
         \A i \in 1..a : k.records[i] = l.records[i]
  PROVE  Readable(l, a) \subseteq Readable(k, b)
<1> SUFFICES ASSUME NEW e \in Readable(l, a) PROVE e \in Readable(k, b)
  OBVIOUS
<1>1. PICK i \in 1..a : /\ \A j \in 1..i : ~l.records[j].torn
                        /\ e \in l.records[i].entries
  BY DEF Readable
<1>2. i \in 1..b /\ \A j \in 1..i : j \in 1..a
  OBVIOUS
<1>3. e \in k.records[i].entries /\ \A j \in 1..i : ~k.records[j].torn
  BY <1>1, <1>2
<1> QED
  BY <1>2, <1>3 DEF Readable

\* What is read of a log is some of its entries, what is synced some of that.
LEMMA ReadPart ==
  ASSUME NEW l \in Log, l.synced <= Len(l.records)
  PROVE  /\ Readable(l, l.synced) \subseteq Readable(l, Len(l.records))
         /\ Readable(l, Len(l.records)) \subseteq
              UNION {l.records[i].entries : i \in DOMAIN l.records}
<1>1. l.records \in Seq(Record) /\ l.synced \in Nat
  BY DEF Log
<1>2. Len(l.records) \in Nat /\ DOMAIN l.records = 1..Len(l.records)
  BY <1>1, LenProperties
<1>3. \A i \in 1..l.synced : i \in 1..Len(l.records)
  BY <1>1, <1>2
<1> QED
  BY <1>1, <1>2, <1>3 DEF Readable

\* What is read of each log a version needs is still read after the step.
LogGrows(n) ==
  /\ n \in DOMAIN log'
  /\ Readable(log[n], Len(log[n].records)) \subseteq
       Readable(log'[n], Len(log'[n].records))
  /\ Readable(log[n], log[n].synced) \subseteq Readable(log'[n], log'[n].synced)

\* What is sure to be found with version k before the step is found with
\* version m after it, unless its write was rejected: a log may go whose
\* memtable never had the entries of a failed group.
Survives(k, m) ==
  /\ \A e \in Recovered(k) : e \in Recovered(m)' \/ Failed(e)
  /\ \A e \in RecoveredSynced(k) : e \in RecoveredSynced(m)' \/ Failed(e)

NothingLost == \A m \in Manifests' : \E k \in Manifests : Survives(k, m)

\* A version whose tables and logs are kept.
LEMMA VersionSurvives ==
  ASSUME NEW m, InTables(m) \subseteq InTables(m)',
         \A n \in DOMAIN log : n >= m.log_number => LogGrows(n)
  PROVE  Survives(m, m)
  BY DEF Survives, Recovered, RecoveredSynced, LogGrows

\* Nothing happens to the disk.
LEMMA DiskKept ==
  ASSUME UNCHANGED diskVars
  PROVE  NothingLost /\ KeptCalls' = KeptCalls /\ SyncedCalls' = SyncedCalls
<1>1. UNCHANGED <<log, tables, manifest, manifest_edit>>
  BY DEF diskVars
<1>2. \A m : Recovered(m)' = Recovered(m) /\ RecoveredSynced(m)' = RecoveredSynced(m)
  BY <1>1 DEF Recovered, RecoveredSynced, InTables
<1>3. Manifests' = Manifests
  BY <1>1 DEF Manifests
<1> QED
  BY <1>2, <1>3 DEF NothingLost, Survives, KeptCalls, SyncedCalls

\* The MANIFEST and the tables stay and every log grows.
LEMMA LogsGrow ==
  ASSUME UNCHANGED <<tables, manifest, manifest_edit>>,
         \A n \in DOMAIN log : LogGrows(n)
  PROVE  NothingLost
<1>1. \A m : InTables(m)' = InTables(m)
  BY DEF InTables
<1>2. \A m : Survives(m, m)
  BY <1>1, VersionSurvives
<1>3. Manifests' = Manifests
  BY DEF Manifests
<1> QED
  BY <1>2, <1>3 DEF NothingLost

\* A record is added to the log being written, or it is synced.
LEMMA WritingGrows ==
  ASSUME IInv, NEW c \in Calls,
         AddRecord(c) \/ AddRecordFails(c) \/ AddRecordTears(c) \/ SyncLog(c),
         log' # log
  PROVE  NothingLost
<1>1. QueueInv /\ FileInv /\ FileTypes /\ Running
  BY DEF IInv, FileInv
<1>2. call[c].pc \in Writing /\ UNCHANGED <<tables, manifest, manifest_edit>>
  BY DEF AddRecord, AddRecordFails, AddRecordTears, SyncLog, Writing
<1>3. db = "open" /\ group.entries \subseteq Entry
  BY <1>2, GroupFacts
<1>4. logfile_number \in DOMAIN log
  BY <1>1, <1>3 DEF Running
<1>5. \E l \in Log :
        /\ log' = [log EXCEPT ![logfile_number] = l]
        /\ l.synced <= Len(l.records) /\ log[logfile_number].synced <= l.synced
        /\ Len(log[logfile_number].records) <= Len(l.records)
        /\ \A i \in 1..Len(log[logfile_number].records) :
             l.records[i] = log[logfile_number].records[i]
  <2>0. /\ log[logfile_number] \in Log /\ log[logfile_number].records \in Seq(Record)
        /\ log[logfile_number].synced \in Nat
        /\ log[logfile_number].synced <= Len(log[logfile_number].records)
    BY <1>1, <1>4, LogTypes
  <2>1. ASSUME NEW r \in Record,
               log' = [log EXCEPT ![logfile_number].records = Append(@, r)]
        PROVE  <1>5!:
    <3>1. PICK l \in Log :
            /\ l.synced <= Len(l.records) /\ l.synced = log[logfile_number].synced
            /\ l.records = Append(log[logfile_number].records, r)
            /\ log' = [log EXCEPT ![logfile_number] = l]
      BY <1>1, <1>3, <2>1, RecordAdded
    <3>2. /\ Len(l.records) = Len(log[logfile_number].records) + 1
          /\ \A i \in 1..Len(log[logfile_number].records) :
               l.records[i] = log[logfile_number].records[i]
      BY <2>0, <3>1, AppendProperties
    <3>3. Len(log[logfile_number].records) \in Nat
      BY <2>0, LenProperties
    <3>4. /\ log[logfile_number].synced <= l.synced
          /\ Len(log[logfile_number].records) <= Len(l.records)
      BY <2>0, <3>1, <3>2, <3>3
    <3> QED
      BY <3>1, <3>2, <3>4, Zenon
  <2>2. CASE SyncLog(c)
    <3> DEFINE old == log[logfile_number]
               l == [old EXCEPT !.synced = Len(old.records)]
    <3>1. log' = [log EXCEPT ![logfile_number] = l]
      BY <2>2 DEF SyncLog
    <3>2. Len(old.records) \in Nat
      BY <2>0, LenProperties
    <3>3. l \in Log /\ l.synced = Len(old.records) /\ l.records = old.records
      BY <2>0, <3>2 DEF Log
    <3> HIDE DEF l
    <3>4. /\ l.synced <= Len(l.records) /\ old.synced <= l.synced
          /\ Len(old.records) <= Len(l.records)
          /\ \A i \in 1..Len(old.records) : l.records[i] = old.records[i]
      BY <2>0, <3>2, <3>3
    <3> QED
      BY <3>1, <3>3, <3>4, Zenon
  <2>3. CASE AddRecord(c) \/ AddRecordFails(c)
    <3>1. [entries |-> group.entries, torn |-> FALSE] \in Record
      BY <1>3 DEF Record
    <3> QED
      BY <2>1, <2>3, <3>1 DEF AddRecord, AddRecordFails
  <2>4. CASE AddRecordTears(c)
    <3>1. [entries |-> {}, torn |-> TRUE] \in Record
      BY DEF Record
    <3> QED
      BY <2>1, <2>4, <3>1 DEF AddRecordTears
  <2> QED
    BY <2>2, <2>3, <2>4
<1>6. PICK l \in Log : <1>5!(l)
  BY <1>5
<1>7. ASSUME NEW n \in DOMAIN log PROVE LogGrows(n)
  <2>1. /\ Len(log[n].records) \in Nat /\ log[n].synced \in Nat
        /\ log[n].synced <= Len(log[n].records)
    BY <1>1, LogTypes
  <2>2. n \in DOMAIN log' /\ log'[n] = IF n = logfile_number THEN l ELSE log[n]
    BY <1>6
  <2>3. l.synced \in Nat /\ Len(l.records) \in Nat
    <3>1. l.synced \in Nat /\ l.records \in Seq(Record)
      BY <1>6 DEF Log
    <3> QED
      BY <3>1, LenProperties
  <2>4. /\ log[n].synced <= log'[n].synced /\ log'[n].synced \in Nat
        /\ Len(log[n].records) <= Len(log'[n].records) /\ Len(log'[n].records) \in Nat
        /\ \A i \in 1..Len(log[n].records) : log'[n].records[i] = log[n].records[i]
    BY <1>6, <2>1, <2>2, <2>3
  <2>5. \A i \in 1..log[n].synced : log'[n].records[i] = log[n].records[i]
    BY <2>1, <2>4
  <2>6. PICK new : new = log'[n]
    OBVIOUS
  <2>7. /\ Readable(log[n], Len(log[n].records)) \subseteq Readable(new, Len(new.records))
        /\ Readable(log[n], log[n].synced) \subseteq Readable(new, new.synced)
    <3> DEFINE old == log[n]
               k == Len(old.records)
               k1 == Len(new.records)
               s == old.synced
               s1 == new.synced
    <3>1. /\ k \in Nat /\ k1 \in Nat /\ s \in Nat /\ s1 \in Nat /\ k <= k1 /\ s <= s1
          /\ \A i \in 1..k : new.records[i] = old.records[i]
          /\ \A i \in 1..s : new.records[i] = old.records[i]
      BY <2>1, <2>4, <2>5, <2>6
    <3> HIDE DEF old, k, k1, s, s1
    <3>2. Readable(old, k) \subseteq Readable(new, k1)
      BY <3>1, ReadableGrows
    <3>3. Readable(old, s) \subseteq Readable(new, s1)
      BY <3>1, ReadableGrows
    <3> QED
      BY <3>2, <3>3 DEF old, k, k1, s, s1
  <2> QED
    BY <2>2, <2>6, <2>7 DEF LogGrows
<1> QED
  BY <1>2, <1>7, LogsGrow

\* A new log is above all others and empty.
LEMMA SwitchGrows ==
  ASSUME IInv, NEW c \in Calls, RoomSwitch(c)
  PROVE  NothingLost
<1>1. QueueInv /\ FileInv /\ FileTypes /\ Running
  BY DEF IInv, FileInv
<1>2. AtFront(c) /\ next_file_number < MaxFileNumber
      /\ UNCHANGED <<tables, manifest, manifest_edit>>
  BY DEF RoomSwitch, MustSwitch
<1>3. db = "open"
  BY <1>1, <1>2, RoomAlone
<1>4. next_file_number \in 0..(MaxFileNumber - 1)
  BY <1>1, <1>2, DBImplAssumption DEF FileTypes
<1>5. /\ DOMAIN log' = DOMAIN log \cup {next_file_number}
      /\ \A n \in DOMAIN log : n # next_file_number => log'[n] = log[n]
  BY <1>1, <1>4, LogCreated DEF RoomSwitch
<1>6. \A n \in DOMAIN log : n # next_file_number
  <2>1. /\ \A n \in DOMAIN log : n <= logfile_number /\ n \in Nat
        /\ logfile_number < next_file_number /\ logfile_number \in Nat
    BY <1>1, <1>3 DEF Running, FileTypes
  <2> QED
    BY <1>4, <2>1, DBImplAssumption
<1>7. \A n \in DOMAIN log : LogGrows(n)
  BY <1>5, <1>6 DEF LogGrows
<1> QED
  BY <1>2, <1>7, LogsGrow

\* The edit of a flush or a compaction names all that the logs it leaves out
\* and the installed version hold.
LEMMA BuiltSurvives ==
  ASSUME IInv, TableBuilt
  PROVE  NothingLost
<1>1. /\ QueueInv /\ FileInv /\ FileTypes /\ Installed /\ Running /\ MemHolds
  BY DEF IInv, FileInv, EntryInv
<1>2. UNCHANGED <<current, logfile_number, log, manifest>>
  BY DEF TableBuilt, memVars
<1>3. /\ bg.pc \in {"flush", "compact"} /\ db = "open" /\ manifest_edit = {}
      /\ current.files \subseteq DOMAIN tables'
      /\ \A f \in current.files : f \in DOMAIN tables /\ tables'[f] = tables[f]
  BY <1>1, EditMade
<1>4. PICK e \in Version :
        /\ manifest_edit' = {e}
        /\ e.log_number = IF bg.pc = "flush" THEN logfile_number ELSE current.log_number
        /\ InTables(current) \subseteq InTables(e)'
        /\ bg.pc = "flush" => imm \subseteq InTables(e)'
  BY <1>1, EditMade
<1>5. current = manifest /\ Manifests = {manifest} /\ Manifests' = {manifest, e}
  BY <1>1, <1>2, <1>3, <1>4 DEF Installed, Manifests
<1>6. \A n \in DOMAIN log : LogGrows(n)
  BY <1>2 DEF LogGrows
<1>7. ASSUME NEW m, m = manifest PROVE Survives(m, m)
  <2>1. InTables(m)' = InTables(m)
    BY <1>3, <1>5, <1>7 DEF InTables
  <2> QED
    BY <1>6, <2>1, VersionSurvives
<1>8. Survives(manifest, e)
  <2>1. /\ current.log_number <= logfile_number /\ current.log_number \in Nat
        /\ logfile_number \in Nat /\ DOMAIN log \subseteq Nat
        /\ \A n \in DOMAIN log : n <= logfile_number
    BY <1>1, <1>3 DEF Running, FileTypes, Version
  <2>2. ASSUME NEW n \in DOMAIN log, n >= manifest.log_number
        PROVE  \/ n >= e.log_number
               \/ \A x \in LogEntries(n) : x \in InTables(e)' \/ Failed(x)
    <3>1. CASE bg.pc = "flush" /\ n < logfile_number
      BY <1>1, <1>3, <1>4, <1>5, <2>1, <2>2, <3>1 DEF MemHolds
    <3>2. CASE bg.pc # "flush"
      BY <1>4, <1>5, <2>2, <3>2
    <3>3. CASE bg.pc = "flush" /\ ~(n < logfile_number)
      BY <1>4, <2>1, <3>3
    <3> QED
      BY <3>1, <3>2, <3>3
  <2>3. \A n \in DOMAIN log :
          /\ Readable(log[n], Len(log[n].records)) \subseteq LogEntries(n)
          /\ Readable(log[n], log[n].synced) \subseteq LogEntries(n)
    BY <1>1, LogTypes
  <2>4. \A x \in Recovered(manifest) : x \in Recovered(e)' \/ Failed(x)
    BY <1>2, <1>4, <1>5, <2>2, <2>3 DEF Recovered
  <2>5. \A x \in RecoveredSynced(manifest) : x \in RecoveredSynced(e)' \/ Failed(x)
    BY <1>2, <1>4, <1>5, <2>2, <2>3 DEF RecoveredSynced
  <2> QED
    BY <2>4, <2>5 DEF Survives
<1> QED
  BY <1>5, <1>7, <1>8 DEF NothingLost

\* An edit that becomes the MANIFEST keeps its tables and logs when obsolete
\* files are removed.
LEMMA EditSurvives ==
  ASSUME FileTypes, NEW e \in Manifests, NEW err,
         log' = KeepLogs(log, e, err), tables' = KeepTables(tables, e, {}, err),
         manifest' = e, manifest_edit' = {}
  PROVE  NothingLost
<1>1. /\ DOMAIN log' \subseteq DOMAIN log
      /\ DOMAIN tables' \subseteq DOMAIN tables
      /\ \A n \in DOMAIN log' : log'[n] = log[n]
      /\ \A n \in DOMAIN tables' : tables'[n] = tables[n]
      /\ \A n \in DOMAIN log : n >= e.log_number => n \in DOMAIN log'
      /\ \A f \in DOMAIN tables : f \in e.files => f \in DOMAIN tables'
  BY KeptFiles
<1>2. InTables(e) \subseteq InTables(e)'
  BY <1>1 DEF InTables
<1>3. \A n \in DOMAIN log : n >= e.log_number => LogGrows(n)
  BY <1>1 DEF LogGrows
<1>4. Survives(e, e)
  BY <1>2, <1>3, VersionSurvives
<1>5. Manifests' = {e}
  BY DEF Manifests
<1> QED
  BY <1>4, <1>5 DEF NothingLost

\* LogAndApply and the end of DB::Open install an edit.
LEMMA InstallSurvives ==
  ASSUME IInv, LogAndApply \/ Opened
  PROVE  NothingLost
<1>1. FileTypes /\ Installed /\ Running /\ Applying
  BY DEF IInv, FileInv
<1>2. PICK e \in manifest_edit : manifest_edit = {e}
  <2>1. CASE LogAndApply
    <3>1. bg.pc \in {"apply", "install"}
      BY <2>1 DEF LogAndApply
    <3>2. db \in {"open", "closing"}
      BY <1>1, <3>1 DEF Installed, FileTypes
    <3> QED
      BY <1>1, <3>1, <3>2 DEF Running
  <2>2. CASE Opened
    BY <1>1, <2>2 DEF Opened, Applying
  <2> QED
    BY <2>1, <2>2
<1>3. (CHOOSE x \in manifest_edit : TRUE) = e /\ e \in Manifests
  BY <1>2 DEF Manifests
<1>4. CASE LogAndApply
  <2>1. /\ manifest' = e /\ manifest_edit' = {}
        /\ log' = KeepLogs(log, e, bg_error)
        /\ tables' = KeepTables(tables, e, {}, bg_error)
    BY <1>3, <1>4 DEF LogAndApply, CleanUp
  <2> QED
    BY <1>1, <1>3, <2>1, EditSurvives
<1>5. CASE Opened
  <2>1. /\ manifest' = e /\ manifest_edit' = {}
        /\ log' = KeepLogs(log, e, FALSE)
        /\ tables' = KeepTables(tables, e, {}, FALSE)
    BY <1>3, <1>5 DEF Opened
  <2> QED
    BY <1>1, <1>3, <2>1, EditSurvives
<1> QED
  BY <1>4, <1>5

\* Recovery turns the logs into tables before it leaves them out.
LEMMA RecoverySurvives ==
  ASSUME IInv, Recover \/ RecoverLogFile \/ OpenLog \/ OpenFails
  PROVE  NothingLost
<1>1. /\ FileInv /\ FileTypes /\ Installed /\ Recovering /\ VersionsOK
  BY DEF IInv, FileInv
<1>2. CASE Recover \/ OpenFails
  <2>1. UNCHANGED <<log, tables>> /\ Manifests' \subseteq Manifests
    BY <1>2 DEF Recover, OpenFails, Manifests
  <2>2. \A m : Survives(m, m)
    BY <2>1 DEF Survives, Recovered, RecoveredSynced, InTables
  <2> QED
    BY <2>1, <2>2 DEF NothingLost
<1>3. CASE RecoverLogFile
  <2>1. PICK built \in SUBSET Nat :
          /\ DOMAIN tables' = DOMAIN tables \cup built
          /\ \A f \in DOMAIN tables \ built : tables'[f] = tables[f]
          /\ \A f \in built : f >= next_file_number
    BY <1>1, <1>3, LogRead
  <2>2. UNCHANGED <<log, manifest, manifest_edit, db>> /\ recovery.logs # {}
    BY <1>3 DEF RecoverLogFile
  <2>3. db = "recovering"
    BY <1>1, <2>2 DEF Installed
  <2>4. /\ manifest_edit = {} /\ VersionOK(manifest)
        /\ manifest.next_file <= next_file_number
    BY <1>1, <2>3 DEF Recovering, Installed, VersionsOK, Manifests
  <2>5. \A f \in manifest.files : f \in DOMAIN tables \ built
    <3>1. manifest.next_file \in Nat /\ next_file_number \in Nat /\ manifest.files \subseteq Nat
      BY <1>1, DBImplAssumption DEF FileTypes, Version
    <3>2. \A f \in manifest.files : f \in DOMAIN tables /\ f < manifest.next_file
      BY <2>4 DEF VersionOK
    <3> QED
      BY <2>1, <2>4, <3>1, <3>2
  <2>6. ASSUME NEW m, m = manifest PROVE Survives(m, m)
    <3>1. InTables(m)' = InTables(m)
      BY <2>1, <2>5, <2>6 DEF InTables
    <3>2. \A n \in DOMAIN log : LogGrows(n)
      BY <2>2 DEF LogGrows
    <3> QED
      BY <3>1, <3>2, VersionSurvives
  <2>7. Manifests = {manifest} /\ Manifests' = {manifest}
    BY <2>2, <2>4 DEF Manifests
  <2> QED
    BY <2>6, <2>7 DEF NothingLost
<1>4. CASE OpenLog
  <2>1. /\ db = "recovering" /\ manifest_edit = {} /\ recovery.logs = {}
        /\ DOMAIN log' = DOMAIN log \cup {next_file_number}
        /\ \A k \in DOMAIN log : k < next_file_number /\ log'[k] = log[k]
    BY <1>1, <1>4, OpenEdit
  <2>2. PICK e \in Version : /\ manifest_edit' = {e}
                             /\ e.files = current.files \cup recovery.files
                             /\ e.log_number = next_file_number
    BY <1>1, <1>4, OpenEdit
  <2>3. UNCHANGED <<tables, manifest>> /\ current = manifest
    BY <1>1, <1>4, <2>1 DEF OpenLog, Installed
  <2>4. \A m : InTables(m)' = InTables(m)
    BY <2>3 DEF InTables
  <2>5. \A n \in DOMAIN log : LogGrows(n)
    BY <2>1 DEF LogGrows
  <2>6. \A m : Survives(m, m)
    BY <2>4, <2>5, VersionSurvives
  <2>7. Survives(manifest, e)
    <3>1. \A n \in DOMAIN log : n >= manifest.log_number =>
            Readable(log[n], Len(log[n].records)) \subseteq
              UNION {tables[f] : f \in recovery.files}
      BY <1>1, <2>1, <2>3 DEF Recovering
    <3>2. \A f \in recovery.files : f \in DOMAIN tables
      BY <1>1, <2>1 DEF Recovering
    <3>3. /\ InTables(manifest) \subseteq InTables(e)
          /\ UNION {tables[f] : f \in recovery.files} \subseteq InTables(e)
      BY <2>2, <2>3, <3>2 DEF InTables
    <3>4. \A n \in DOMAIN log :
            Readable(log[n], log[n].synced) \subseteq
              Readable(log[n], Len(log[n].records))
      BY <1>1, LogTypes
    <3>5. Recovered(manifest) \subseteq InTables(e)
      BY <3>1, <3>3 DEF Recovered
    <3>6. RecoveredSynced(manifest) \subseteq InTables(e)
      BY <3>1, <3>3, <3>4 DEF RecoveredSynced
    <3>7. InTables(e) \subseteq Recovered(e)' /\ InTables(e) \subseteq RecoveredSynced(e)'
      BY <2>4 DEF Recovered, RecoveredSynced
    <3> QED
      BY <3>5, <3>6, <3>7 DEF Survives
  <2>8. Manifests = {manifest} /\ Manifests' = {manifest, e}
    BY <2>1, <2>2, <2>3 DEF Manifests
  <2> QED
    BY <2>6, <2>7, <2>8 DEF NothingLost
<1> QED
  BY <1>2, <1>3, <1>4

Rejected(c) == call[c].pc = "returned" /\ call[c].result = "error"

\* No step but a machine crash takes anything from what is sure to be found,
\* save writes that were rejected.
LEMMA StepKeeps ==
  ASSUME IInv, [Next]_vars, ~MachineCrash
  PROVE  /\ NothingLost
         /\ \A c \in KeptCalls : c \in KeptCalls' \/ Rejected(c)
         /\ \A c \in SyncedCalls : c \in SyncedCalls' \/ Rejected(c)
<1>1. NothingLost
  <2>1. CASE UNCHANGED diskVars
    BY <2>1, DiskKept
  <2>0. ASSUME NEW c \in Calls,
               AddRecord(c) \/ AddRecordFails(c) \/ AddRecordTears(c) \/ SyncLog(c)
        PROVE  NothingLost
    <3>1. UNCHANGED <<tables, manifest, manifest_edit>>
      BY <2>0 DEF AddRecord, AddRecordFails, AddRecordTears, SyncLog
    <3>2. CASE UNCHANGED log
      BY <2>1, <3>1, <3>2 DEF diskVars
    <3>3. CASE log' # log
      BY <2>0, <3>3, WritingGrows
    <3> QED
      BY <3>2, <3>3
  <2>2. ASSUME NEW c \in Calls, CallStep(c) \/ \E r \in Requests : WriteCall(c, r)
        PROVE  NothingLost
    BY <2>1, <2>2, <2>0, SwitchGrows
    DEF CallStep, RoomError, RoomDelay, RoomBatch, RoomNoBatch, RoomWait,
        RoomSwitchFails, SyncLogFails, InsertInto, FinishWrite,
        CompactMemTableWaits, CompactMemTableReturns, WriteCall
  <2>3. CASE TableFails \/ LogAndApplyFails
    <3>1. UNCHANGED <<manifest, manifest_edit>>
      BY <2>3 DEF TableFails, LogAndApplyFails
    <3>2. UNCHANGED <<log, tables>>
      BY <2>3 DEF TableFails, LogAndApplyFails, CleanUp, KeepLogs, KeepTables
    <3> QED
      BY <2>1, <3>1, <3>2 DEF diskVars
  <2>4. CASE Background
    BY <2>1, <2>3, <2>4, BuiltSurvives, InstallSurvives
    DEF Background, BackgroundNothing, BackgroundStart
  <2>5. CASE Open
    BY <2>5, RecoverySurvives, InstallSurvives DEF Open
  <2>6. CASE Close \/ Closed \/ ProcessCrash \/ UNCHANGED vars
    BY <2>1, <2>6 DEF Close, Closed, ProcessCrash, vars
  <2> QED
    BY <2>2, <2>4, <2>5, <2>6 DEF Next
<1>2. ASSUME NEW c \in KeptCalls, ~Rejected(c) PROVE c \in KeptCalls'
  <2> SUFFICES ASSUME NEW m \in Manifests' PROVE c \in CallsOf(Recovered(m)')
    BY DEF KeptCalls, CallsOf
  <2>1. PICK k \in Manifests : \A e \in Recovered(k) : e \in Recovered(m)' \/ Failed(e)
    BY <1>1 DEF NothingLost, Survives
  <2>2. PICK e \in Recovered(k) : e.call = c
    BY DEF KeptCalls, CallsOf
  <2> QED
    BY <1>2, <2>1, <2>2 DEF CallsOf, Failed, Rejected
<1>3. ASSUME NEW c \in SyncedCalls, ~Rejected(c) PROVE c \in SyncedCalls'
  <2> SUFFICES ASSUME NEW m \in Manifests' PROVE c \in CallsOf(RecoveredSynced(m)')
    BY DEF SyncedCalls, CallsOf
  <2>1. PICK k \in Manifests :
          \A e \in RecoveredSynced(k) : e \in RecoveredSynced(m)' \/ Failed(e)
    BY <1>1 DEF NothingLost, Survives
  <2>2. PICK e \in RecoveredSynced(k) : e.call = c
    BY DEF SyncedCalls, CallsOf
  <2> QED
    BY <1>3, <2>1, <2>2 DEF CallsOf, Failed, Rejected
<1> QED
  BY <1>1, <1>2, <1>3

\* A machine crash leaves what was synced, and nothing that was not kept.
LEMMA CrashKeeps ==
  ASSUME IInv, MachineCrash
  PROVE  /\ SyncedCalls \subseteq KeptCalls' /\ KeptCalls' \subseteq KeptCalls
         /\ SyncedCalls' = KeptCalls'
<1>1. FileTypes
  BY DEF IInv, FileInv
<1>2. UNCHANGED <<tables, manifest, manifest_edit>>
  BY DEF MachineCrash
<1>3. /\ \A m : InTables(m)' = InTables(m)
      /\ Manifests' = Manifests
  BY <1>2 DEF InTables, Manifests
<1>4. /\ log' \in [DOMAIN log' -> Log] /\ DOMAIN log' \subseteq DOMAIN log
      /\ \A n \in DOMAIN log' :
           /\ log'[n].synced = Len(log'[n].records)
           /\ log[n].synced <= log'[n].synced
           /\ Len(log'[n].records) <= Len(log[n].records)
           /\ \A i \in DOMAIN log'[n].records :
                i \in DOMAIN log[n].records /\ log'[n].records[i] = log[n].records[i]
      /\ \A n \in DOMAIN log \ DOMAIN log' : log[n].synced = 0
  BY <1>1, LogsCut
<1>5. ASSUME NEW n \in DOMAIN log'
      PROVE  /\ Readable(log'[n], log'[n].synced) = Readable(log'[n], Len(log'[n].records))
             /\ Readable(log[n], log[n].synced) \subseteq
                  Readable(log'[n], Len(log'[n].records))
             /\ Readable(log'[n], Len(log'[n].records)) \subseteq
                  Readable(log[n], Len(log[n].records))
  <2>1. PICK new : new = log'[n]
    OBVIOUS
  <2> DEFINE old == log[n]
             k == Len(old.records)
             k1 == Len(new.records)
             s == old.synced
  <2>2. new \in Log /\ old \in Log /\ n \in DOMAIN log
    BY <1>1, <1>4, <2>1 DEF FileTypes
  <2>3. /\ k \in Nat /\ k1 \in Nat /\ s \in Nat /\ new.synced \in Nat
        /\ DOMAIN new.records = 1..k1
    <3>1. /\ new.records \in Seq(Record) /\ old.records \in Seq(Record)
          /\ new.synced \in Nat /\ s \in Nat
      BY <2>2 DEF Log
    <3> QED
      BY <3>1, LenProperties
  <2>4. /\ new.synced = k1 /\ s <= k1 /\ k1 <= k
        /\ \A i \in 1..k1 : new.records[i] = old.records[i]
    BY <1>4, <2>1, <2>3
  <2>5. \A i \in 1..s : new.records[i] = old.records[i]
    BY <2>3, <2>4
  <2>6. \A i \in 1..k1 : old.records[i] = new.records[i]
    BY <2>4
  <2> HIDE DEF old, k, k1, s
  <2>7. Readable(old, s) \subseteq Readable(new, k1)
    BY <2>3, <2>4, <2>5, ReadableGrows
  <2>8. Readable(new, k1) \subseteq Readable(old, k)
    BY <2>3, <2>4, <2>6, ReadableGrows
  <2> QED
    BY <2>1, <2>4, <2>7, <2>8 DEF old, k, k1, s
<1>6. \A n \in DOMAIN log \ DOMAIN log' : Readable(log[n], log[n].synced) = {}
  BY <1>4 DEF Readable
<1>7. ASSUME NEW m
      PROVE  /\ RecoveredSynced(m) \subseteq Recovered(m)'
             /\ Recovered(m)' \subseteq Recovered(m)
             /\ RecoveredSynced(m)' = Recovered(m)'
  <2>1. RecoveredSynced(m) \subseteq Recovered(m)'
    <3>1. ASSUME NEW n \in DOMAIN log, n >= m.log_number
          PROVE  Readable(log[n], log[n].synced) \subseteq Recovered(m)'
      <4>1. CASE n \in DOMAIN log'
        BY <1>5, <3>1, <4>1 DEF Recovered
      <4>2. CASE n \notin DOMAIN log'
        BY <1>6, <4>2
      <4> QED
        BY <4>1, <4>2
    <3>2. InTables(m) \subseteq Recovered(m)'
      BY <1>3 DEF Recovered
    <3> QED
      BY <3>1, <3>2 DEF RecoveredSynced
  <2>2. Recovered(m)' \subseteq Recovered(m)
    BY <1>3, <1>4, <1>5 DEF Recovered
  <2>3. RecoveredSynced(m)' = Recovered(m)'
    BY <1>3, <1>5 DEF RecoveredSynced, Recovered
  <2> QED
    BY <2>1, <2>2, <2>3
<1> QED
  BY <1>3, <1>7 DEF KeptCalls, SyncedCalls, CallsOf

-----------------------------------------------------------------------------
(* The invariant the refinement needs besides IInv.                        *)

\* A write that returned has a status.
Answered ==
  \A c \in Calls :
    call[c].pc = "returned" /\ call[c].batch => call[c].result \in {"ok", "error"}

\* No log has a torn record.
NoTorn ==
  /\ torn_logs = 0
  /\ \A n \in DOMAIN log : \A i \in DOMAIN log[n].records : ~log[n].records[i].torn

\* Past the sync of its log a group written with sync is synced.
GroupSynced ==
  \A c \in Calls :
    call[c].pc \in {"insert", "finish"} /\ group.ok /\ call[c].sync =>
      group.entries \subseteq Readable(log[logfile_number], log[logfile_number].synced)

RInv == IInv /\ Answered /\ NoTorn /\ GroupSynced

\* Without a torn record everything in a log is read.
LEMMA AllRead ==
  ASSUME FileTypes, NoTorn, NEW n \in DOMAIN log
  PROVE  Readable(log[n], Len(log[n].records)) = LogEntries(n)
<1>1. DOMAIN log[n].records = 1..Len(log[n].records) /\ Len(log[n].records) \in Nat
  BY LogTypes
<1>2. \A j \in 1..Len(log[n].records) : \A k \in 1..j : ~log[n].records[k].torn
  BY <1>1 DEF NoTorn
<1> QED
  BY <1>1, <1>2 DEF Readable, LogEntries

-----------------------------------------------------------------------------
(* What a step does to the state of a call.                                *)

\* A call stays as it was for its client.
SameFor(c) ==
  /\ call'[c].batch = call[c].batch /\ call'[c].sync = call[c].sync
  /\ call[c].batch =>
       /\ call'[c].pc \in InFlight <=> call[c].pc \in InFlight
       /\ call[c].pc \notin InFlight =>
            call'[c].pc = call[c].pc /\ call'[c].result = call[c].result

\* A call that stays as it was has the state it had.
LEMMA StateSame ==
  ASSUME NEW c \in Calls, SameFor(c)
  PROVE  StateOf(c)' = StateOf(c)
<1>1. CASE ~call[c].batch
  BY <1>1 DEF StateOf, SameFor
<1>2. CASE call[c].batch /\ call[c].pc \in InFlight
  BY <1>2 DEF StateOf, SameFor
<1>3. CASE call[c].batch /\ call[c].pc \notin InFlight
  BY <1>3 DEF StateOf, SameFor
<1> QED
  BY <1>1, <1>2, <1>3

\* The calls under way are pending, those without a batch are nothing to the
\* store, and nothing else is.
LEMMA StateCases ==
  ASSUME QueueInv, Answered, NEW c \in Calls
  PROVE  /\ StateOf(c) = "none" <=> ~call[c].batch
         /\ StateOf(c) = "pending" <=> call[c].batch /\ call[c].pc \in InFlight
         /\ call[c].batch /\ call[c].pc = "lost" => StateOf(c) = "lost"
         /\ call[c].batch /\ call[c].pc = "returned" => StateOf(c) = call[c].result
<1>1. call[c] \in CallState
  BY DEF QueueInv
<1>2. call[c].pc \in Phases /\ call[c].result \in {"none", "ok", "error"}
  BY <1>1 DEF CallState
<1>3. CASE ~call[c].batch
  BY <1>3 DEF StateOf
<1>4. CASE call[c].batch /\ call[c].pc \in InFlight
  BY <1>4 DEF StateOf, InFlight
<1>5. CASE call[c].batch /\ call[c].pc = "lost"
  BY <1>5 DEF StateOf, InFlight
<1>6. CASE call[c].batch /\ call[c].pc = "returned"
  <2>1. StateOf(c) = call[c].result
    BY <1>6 DEF StateOf, InFlight
  <2>2. call[c].result \in {"ok", "error"} /\ "returned" \notin InFlight
    BY <1>6 DEF Answered, InFlight
  <2> QED
    BY <1>6, <2>1, <2>2
<1>7. CASE call[c].batch /\ call[c].pc = "idle"
  BY <1>7 DEF QueueInv
<1> QED
  BY <1>2, <1>3, <1>4, <1>5, <1>6, <1>7 DEF Phases

-----------------------------------------------------------------------------
(* The steps of DurableStore.                                              *)

\* What is sure to be found was written.
LEMMA FoundWritten ==
  ASSUME IInv, NEW c \in KeptCalls \cup SyncedCalls
  PROVE  c \in Calls /\ call[c].batch
<1>1. FileTypes /\ FileInv /\ LiveCalls
  BY DEF IInv, FileInv, EntryInv
<1>2. \A n \in DOMAIN log :
        /\ Readable(log[n], Len(log[n].records)) \subseteq LogEntries(n)
        /\ Readable(log[n], log[n].synced) \subseteq LogEntries(n)
  BY <1>1, LogTypes
<1>3. Recovered(manifest) \cup RecoveredSynced(manifest) \subseteq Findable(manifest)
  BY <1>2 DEF Recovered, RecoveredSynced, Findable
<1>4. Findable(manifest) \subseteq Live
  BY DEF Live, Manifests
<1>5. PICK e \in Recovered(manifest) \cup RecoveredSynced(manifest) : e.call = c
  BY DEF KeptCalls, SyncedCalls, CallsOf, Manifests
<1> QED
  BY <1>1, <1>3, <1>4, <1>5, LiveTypes DEF LiveCalls

\* Nothing changes for a client and nothing is lost but rejected writes.
LEMMA IsKeep ==
  ASSUME IInv, IInv', Answered, \A c \in Calls : SameFor(c),
         \A c \in KeptCalls : c \in KeptCalls' \/ Rejected(c),
         \A c \in SyncedCalls : c \in SyncedCalls' \/ Rejected(c)
  PROVE  Durability!Next
<1>1. QueueInv /\ LiveCalls' /\ FileTypes'
  BY DEF IInv, EntryInv, FileInv
<1>2. [c \in Calls |-> StateOf(c)]' = [c \in Calls |-> StateOf(c)]
  BY StateSame
<1>3. [c \in Calls |-> call[c].batch /\ call[c].sync]' =
        [c \in Calls |-> call[c].batch /\ call[c].sync]
  BY DEF SameFor
<1>4. (KeptCalls \subseteq Calls)' /\ (SyncedCalls \subseteq KeptCalls)'
  <2>1. ASSUME NEW m PROVE (RecoveredSynced(m) \subseteq Recovered(m))'
    <3>1. \A n \in DOMAIN log' : (Readable(log[n], log[n].synced) \subseteq
                                    Readable(log[n], Len(log[n].records)))'
      BY <1>1, ReadPart DEF FileTypes
    <3> QED
      BY <3>1 DEF RecoveredSynced, Recovered
  <2> QED
    BY <2>1 DEF KeptCalls, SyncedCalls, CallsOf
<1>5. \A c \in KeptCalls' : StateOf(c) # "none"
  <2> SUFFICES ASSUME NEW c \in KeptCalls' PROVE StateOf(c) # "none"
    OBVIOUS
  <2>1. c \in Calls /\ c \in CallsOf(Recovered(manifest))'
    BY DEF KeptCalls, Manifests
  <2>2. PICK e \in Recovered(manifest)' : e.call = c
    BY <2>1 DEF CallsOf
  <2>3. Recovered(manifest)' \subseteq Live'
    <3>1. \A n \in DOMAIN log' :
            (Readable(log[n], Len(log[n].records)) \subseteq LogEntries(n))'
      BY <1>1, ReadPart DEF FileTypes, LogEntries
    <3>2. Recovered(manifest)' \subseteq Findable(manifest)'
      BY <3>1 DEF Recovered, Findable
    <3> QED
      BY <3>2 DEF Live, Manifests
  <2>4. call'[c].batch
    BY <1>1, <2>2, <2>3 DEF LiveCalls
  <2>5. call[c].batch
    BY <2>1, <2>4 DEF SameFor
  <2> QED
    BY <1>1, <2>1, <2>5, StateCases
<1>6. \A c \in KeptCalls' : [d \in Calls |-> StateOf(d)][c] # "none"
  BY <1>4, <1>5
<1>7. \A c \in (KeptCalls \ KeptCalls') \cup (SyncedCalls \ SyncedCalls') :
        [d \in Calls |-> StateOf(d)][c] = "error"
  <2> SUFFICES ASSUME NEW c \in (KeptCalls \ KeptCalls') \cup (SyncedCalls \ SyncedCalls')
               PROVE  c \in Calls /\ StateOf(c) = "error"
    OBVIOUS
  <2>1. c \in Calls /\ call[c].batch
    BY FoundWritten
  <2>2. call[c].pc = "returned" /\ call[c].result = "error"
    BY DEF Rejected
  <2> QED
    BY <1>1, <2>1, <2>2, StateCases
<1>8. Durability!Keep
  BY <1>2, <1>3, <1>4, <1>6, <1>7 DEF Durability!Keep
<1> QED
  BY <1>8 DEF Durability!Next

-----------------------------------------------------------------------------
(* Steps nobody's client sees.                                             *)

Quiet ==
  \/ \E c \in Calls :
       \/ RoomDelay(c) \/ RoomBatch(c) \/ RoomWait(c) \/ RoomSwitch(c)
       \/ AddRecord(c) \/ AddRecordFails(c) \/ AddRecordTears(c)
       \/ SyncLog(c) \/ SyncLogFails(c)
       \/ InsertInto(c) \/ CompactMemTableWaits(c) \/ CompactMemTableReturns(c)
  \/ Background \/ Open \/ Close \/ UNCHANGED vars

\* TEST_CompactMemTable, after its Write, has no batch.
LEMMA OutsideMoves ==
  ASSUME QueueInv, NEW c \in Calls, CompactMemTableWaits(c) \/ CompactMemTableReturns(c)
  PROVE  /\ \A d \in Calls : SameFor(d)
         /\ \A d \in Calls : d # c => call'[d] = call[d]
         /\ call'[c].pc \in {"immwait", "returned"}
         /\ UNCHANGED <<group, logfile_number, log, torn_logs>>
<1>1. /\ call[c].pc = "immcheck" /\ ~call[c].batch
      /\ UNCHANGED <<group, logfile_number, log, torn_logs>>
  BY DEF CompactMemTableWaits, CompactMemTableReturns, QueueInv, memVars, diskVars,
         faultVars
<1>2. call[c] \in CallState
  BY DEF QueueInv
<1>3. /\ call'[c].pc \in {"immwait", "returned"} /\ call'[c].batch = call[c].batch
      /\ call'[c].sync = call[c].sync
      /\ \A d \in Calls : d # c => call'[d] = call[d]
  <2>1. CASE CompactMemTableWaits(c)
    <3>1. call' = [call EXCEPT ![c] = [call[c] EXCEPT !.pc = "immwait"]]
      BY <2>1 DEF CompactMemTableWaits
    <3> QED
      BY <1>2, <3>1 DEF QueueInv, CallState
  <2>2. CASE CompactMemTableReturns(c)
    <3>1. PICK s : call' = [call EXCEPT ![c] = [call[c] EXCEPT !.pc = "returned",
                                                              !.result = s]]
      BY <2>2 DEF CompactMemTableReturns
    <3> QED
      BY <1>2, <3>1 DEF QueueInv, CallState
  <2> QED
    BY <2>1, <2>2
<1>4. ASSUME NEW d \in Calls PROVE SameFor(d)
  BY <1>1, <1>3 DEF SameFor
<1> QED
  BY <1>1, <1>3, <1>4

\* The background thread at most wakes the calls that wait.
LEMMA BackgroundWakes ==
  ASSUME QueueInv, Background
  PROVE  /\ call' = call \/ call' = SignalAll(call)
         /\ \A c \in Calls : SameFor(c)
         /\ \A c \in Calls : call'[c].pc \in Writing =>
              call'[c].pc = call[c].pc /\ call'[c].sync = call[c].sync
<1>1. call' = call \/ call' = SignalAll(call)
  BY DEF Background, BackgroundNothing, BackgroundStart, TableBuilt, TableFails,
         LogAndApply, LogAndApplyFails, BackgroundDone
<1>2. CASE call' = call
  BY <1>2 DEF SameFor
<1>3. CASE call' = SignalAll(call)
  <2>1. ASSUME NEW c \in Calls PROVE Woken(c, SignalAll(call))
    BY Signalled
  <2>2. ASSUME NEW c \in Calls
        PROVE  /\ SameFor(c)
               /\ call'[c].pc \in Writing =>
                    call'[c].pc = call[c].pc /\ call'[c].sync = call[c].sync
    <3>1. /\ call'[c].batch = call[c].batch /\ call'[c].sync = call[c].sync
          /\ call'[c].result = call[c].result
          /\ call'[c].pc = IF call[c].pc = "bgwait" THEN "front"
                           ELSE IF call[c].pc = "immwait" THEN "immcheck"
                           ELSE call[c].pc
      BY <1>3, <2>1 DEF Woken
    <3>2. {"bgwait", "front", "immwait", "immcheck"} \subseteq InFlight
      BY DEF InFlight
    <3>3. "front" \notin Writing /\ "immcheck" \notin Writing
      BY DEF Writing
    <3> QED
      BY <3>1, <3>2, <3>3 DEF SameFor
  <2> QED
    BY <1>3, <2>2
<1> QED
  BY <1>1, <1>2, <1>3

\* DB::Open runs while no call does.
LEMMA OpenAlone ==
  ASSUME QueueInv, FileInv, Open
  PROVE  /\ \A c \in Calls : SameFor(c)
         /\ \A c \in Calls : call'[c].pc \notin InFlight
<1>1. db # "open"
  <2>1. CASE RecoverLogFile
    <3>1. recovery.logs # {}
      BY <2>1 DEF RecoverLogFile
    <3> QED
      BY <3>1 DEF FileInv, Installed
  <2> QED
    BY <2>1 DEF Open, Recover, OpenLog, Opened, OpenFails
<1>2. \A c \in Calls : call[c].pc \notin InFlight
  BY <1>1 DEF QueueInv
<1>3. CASE call' = call
  BY <1>2, <1>3 DEF SameFor
<1>4. CASE OpenFails
  <2>1. Forget
    BY <1>4 DEF OpenFails
  <2>2. \A c \in Calls :
          /\ call'[c].batch = call[c].batch /\ call'[c].sync = call[c].sync
          /\ call'[c].result = call[c].result /\ call'[c].pc = call[c].pc
    BY <1>2, <2>1, ForgetQueue
  <2> QED
    BY <1>2, <2>2 DEF SameFor
<1> QED
  BY <1>3, <1>4 DEF Open, Recover, RecoverLogFile, OpenLog, Opened

\* A quiet step leaves every call as it was for its client.
LEMMA QuietSame ==
  ASSUME IInv, Quiet
  PROVE  \A c \in Calls : SameFor(c)
<1>1. QueueInv /\ FileInv /\ FileTypes
  BY DEF IInv, FileInv
<1>2. ASSUME NEW c \in Calls,
             \/ RoomDelay(c) \/ RoomBatch(c) \/ RoomWait(c) \/ RoomSwitch(c)
             \/ AddRecord(c) \/ AddRecordFails(c) \/ AddRecordTears(c)
             \/ SyncLog(c) \/ SyncLogFails(c) \/ InsertInto(c)
      PROVE  \A d \in Calls : SameFor(d)
  <2>1. /\ call[c].pc \in FrontPhases /\ call'[c].pc \in FrontPhases
        /\ call'[c].batch = call[c].batch /\ call'[c].sync = call[c].sync
        /\ call'[c].result = call[c].result
        /\ \A d \in Calls : d # c => call'[d] = call[d]
    BY <1>1, <1>2, FrontStep
  <2>2. FrontPhases \subseteq InFlight
    BY DEF FrontPhases, Writing, InFlight
  <2> QED
    BY <2>1, <2>2 DEF SameFor
<1>3. CASE Close \/ UNCHANGED vars
  <2>1. call' = call
    BY <1>3 DEF Close, vars
  <2> QED
    BY <2>1 DEF SameFor
<1> QED
  BY <1>1, <1>2, <1>3, OutsideMoves, BackgroundWakes, OpenAlone DEF Quiet

\* Every step is one of these, of a write that begins or ends, or of a crash.
LEMMA StepKinds ==
  ASSUME [Next]_vars
  PROVE  \/ Quiet
         \/ \E c \in Calls : \/ \E r \in Requests : WriteCall(c, r)
                             \/ RoomError(c) \/ RoomNoBatch(c) \/ RoomSwitchFails(c)
                             \/ FinishWrite(c)
         \/ Closed \/ ProcessCrash \/ MachineCrash
  BY DEF Next, CallStep, Quiet

-----------------------------------------------------------------------------
(* Steps that a client sees.                                               *)

\* A call of Write begins.
LEMMA WriteBegins ==
  ASSUME RInv, IInv', NEW c \in Calls, NEW r \in Requests, WriteCall(c, r)
  PROVE  Durability!Next /\ Answered'
<1>1. QueueInv /\ Answered
  BY DEF RInv, IInv
<1>2. /\ \A d \in Calls : d # c => call'[d] = call[d]
      /\ call'[c].batch = r.batch /\ call'[c].sync = r.sync
      /\ call'[c].pc \in {"front", "queued"} /\ call[c].pc = "idle"
  BY <1>1, WriterJoins
<1>3. r.batch \in BOOLEAN /\ r.sync \in BOOLEAN
  BY DBImplAssumption
<1>4. ~call[c].batch
  BY <1>1, <1>2 DEF QueueInv
<1>5. UNCHANGED diskVars
  BY DEF WriteCall
<1>6. KeptCalls' = KeptCalls /\ SyncedCalls' = SyncedCalls
  BY <1>5, DiskKept
<1>7. \A d \in Calls : d # c => StateOf(d)' = StateOf(d)
  <2> SUFFICES ASSUME NEW d \in Calls, d # c PROVE StateOf(d)' = StateOf(d)
    OBVIOUS
  <2>1. SameFor(d)
    BY <1>2 DEF SameFor
  <2> QED
    BY <2>1, StateSame
<1>8. StateOf(c) = "none"
  BY <1>4 DEF StateOf
<1>9. StateOf(c)' = IF r.batch THEN "pending" ELSE "none"
  <2>1. call'[c].pc \in InFlight
    BY <1>2 DEF InFlight
  <2> QED
    BY <1>2, <2>1 DEF StateOf
<1>10. ASSUME r.batch PROVE Durability!Next
  <2> DEFINE st == [d \in Calls |-> StateOf(d)]
             sy == [d \in Calls |-> call[d].batch /\ call[d].sync]
  <2>1. st[c] = "none"
    BY <1>8
  <2>2. st' = [st EXCEPT ![c] = "pending"]
    BY <1>7, <1>9, <1>10
  <2>3. sy' = [sy EXCEPT ![c] = r.sync]
    BY <1>2, <1>3, <1>10
  <2>4. Durability!Write(c, r.sync)
    BY <1>6, <2>1, <2>2, <2>3 DEF Durability!Write
  <2> QED
    BY <1>3, <2>4 DEF Durability!Next
<1>11. ASSUME ~r.batch PROVE Durability!Next
  <2>1. [d \in Calls |-> StateOf(d)]' = [d \in Calls |-> StateOf(d)]
    BY <1>7, <1>8, <1>9, <1>11
  <2>2. [d \in Calls |-> call[d].batch /\ call[d].sync]' =
          [d \in Calls |-> call[d].batch /\ call[d].sync]
    BY <1>2, <1>4, <1>11
  <2>3. Durability!Reject({})
    BY <1>6, <2>1, <2>2 DEF Durability!Reject
  <2> QED
    BY <2>3 DEF Durability!Next
<1>12. Answered'
  BY <1>1, <1>2 DEF Answered
<1> QED
  BY <1>3, <1>10, <1>11, <1>12

\* The first n writers leave with one status: the writes among them are
\* answered together.
LEMMA GroupAnswered ==
  ASSUME QueueInv, Answered, UNCHANGED <<diskVars, db>>, db = "open",
         NEW calls \in [Calls -> CallState],
         \/ calls = call
         \/ \A c \in Calls : Woken(c, calls),
         NEW n \in 1..Len(writers), NEW ok \in BOOLEAN, Finish(calls, n, ok),
         ok => \A i \in 1..n : call[writers[i]].batch =>
                 writers[i] \in IF call[writers[i]].sync THEN SyncedCalls ELSE KeptCalls
  PROVE  /\ Durability!Next /\ Answered'
         /\ \A c \in Calls : call'[c].pc \notin Writing
<1>1. /\ \A i \in 1..n : i \in DOMAIN writers /\ writers[i] \in Calls
      /\ \A i \in 1..n : call[writers[i]].pc \in InFlight
  <2>1. /\ Len(writers) \in Nat /\ DOMAIN writers = 1..Len(writers)
        /\ \A i \in DOMAIN writers : writers[i] \in Calls
    BY WritersShape
  <2>2. \A i \in DOMAIN writers : call[writers[i]].pc \in QueuePhases
    BY DEF QueueInv
  <2>3. QueuePhases \subseteq InFlight
    BY DEF QueuePhases, FrontPhases, Writing, InFlight
  <2> QED
    BY <2>1, <2>2, <2>3
<1>2. /\ \A c \in Calls : call'[c].pc \notin Writing
      /\ \A c \in Calls : call'[c].batch = call[c].batch /\ call'[c].sync = call[c].sync
      /\ \A i \in 1..n : call[writers[i]].batch =>
           /\ call'[writers[i]].pc = "returned"
           /\ call'[writers[i]].result = IF ok THEN "ok" ELSE "error"
      /\ \A c \in Calls : (\A i \in 1..n : writers[i] # c) =>
           /\ call'[c].result = call[c].result
           /\ call'[c].pc \in InFlight <=> call[c].pc \in InFlight
           /\ call[c].pc \notin InFlight => call'[c].pc = call[c].pc
  BY WritersLeave
<1>3. PICK g \in SUBSET Calls :
        g = {writers[i] : i \in {j \in 1..n : call[writers[j]].batch}}
  BY <1>1
<1>4. ASSUME NEW c \in Calls, c \notin g PROVE SameFor(c)
  <2>1. CASE ~call[c].batch
    BY <1>2, <2>1 DEF SameFor
  <2>2. CASE call[c].batch
    <3>1. \A i \in 1..n : writers[i] # c
      BY <1>3, <1>4, <2>2
    <3> QED
      BY <1>2, <3>1 DEF SameFor
  <2> QED
    BY <2>1, <2>2
<1>5. ASSUME NEW c \in g
      PROVE  /\ call[c].batch /\ call[c].pc \in InFlight
             /\ call'[c].batch /\ call'[c].pc = "returned"
             /\ call'[c].result = IF ok THEN "ok" ELSE "error"
             /\ ok => c \in IF call[c].sync THEN SyncedCalls ELSE KeptCalls
  <2>1. PICK i \in 1..n : c = writers[i] /\ call[c].batch
    BY <1>3
  <2> QED
    BY <1>1, <1>2, <2>1
<1>6. \A c \in g : /\ StateOf(c) = "pending"
                   /\ StateOf(c)' = IF ok THEN "ok" ELSE "error"
  <2>1. "returned" \notin InFlight
    BY DEF InFlight
  <2> QED
    BY <1>5, <2>1 DEF StateOf
<1>7. \A c \in Calls : StateOf(c)' = IF c \in g THEN (IF ok THEN "ok" ELSE "error")
                                     ELSE StateOf(c)
  BY <1>4, <1>6, StateSame
<1>8. KeptCalls' = KeptCalls /\ SyncedCalls' = SyncedCalls
  BY DiskKept
<1>9. [c \in Calls |-> call[c].batch /\ call[c].sync]' =
        [c \in Calls |-> call[c].batch /\ call[c].sync]
  BY <1>2
<1>10. \A c \in g : [d \in Calls |-> StateOf(d)][c] = "pending"
  BY <1>6
<1>11. ASSUME ok PROVE Durability!Next
  <2>1. [c \in Calls |-> StateOf(c)]' =
          [c \in Calls |-> IF c \in g THEN "ok" ELSE [d \in Calls |-> StateOf(d)][c]]
    BY <1>7, <1>11
  <2>2. \A c \in g : c \in IF [d \in Calls |-> call[d].batch /\ call[d].sync][c]
                           THEN SyncedCalls ELSE KeptCalls
    BY <1>5, <1>11
  <2>3. Durability!Acknowledge(g)
    BY <1>8, <1>9, <1>10, <2>1, <2>2 DEF Durability!Acknowledge
  <2> QED
    BY <2>3 DEF Durability!Next
<1>12. ASSUME ~ok PROVE Durability!Next
  <2>1. [c \in Calls |-> StateOf(c)]' =
          [c \in Calls |-> IF c \in g THEN "error" ELSE [d \in Calls |-> StateOf(d)][c]]
    BY <1>7, <1>12
  <2>2. Durability!Reject(g)
    BY <1>8, <1>9, <1>10, <2>1 DEF Durability!Reject
  <2> QED
    BY <2>2 DEF Durability!Next
<1>13. Answered'
  <2> SUFFICES ASSUME NEW c \in Calls, call'[c].pc = "returned", call'[c].batch
               PROVE  call'[c].result \in {"ok", "error"}
    BY DEF Answered
  <2>1. CASE c \in g
    BY <1>5, <2>1
  <2>2. CASE c \notin g
    <3>1. SameFor(c) /\ "returned" \notin InFlight
      BY <1>4, <2>2 DEF InFlight
    <3>2. call[c].batch /\ call[c].pc = "returned" /\ call'[c].result = call[c].result
      BY <3>1 DEF SameFor
    <3> QED
      BY <3>2 DEF Answered
  <2> QED
    BY <2>1, <2>2
<1> QED
  BY <1>2, <1>11, <1>12, <1>13

\* The front writer leaves alone, without having written anything.
LEMMA RoomAnswers ==
  ASSUME RInv, NEW c \in Calls, RoomError(c) \/ RoomNoBatch(c) \/ RoomSwitchFails(c)
  PROVE  /\ Durability!Next /\ Answered'
         /\ \A d \in Calls : call'[d].pc \notin Writing
<1>1. QueueInv /\ Answered
  BY DEF RInv, IInv
<1>2. AtFront(c) /\ UNCHANGED <<diskVars, db>>
  BY DEF RoomError, RoomNoBatch, RoomSwitchFails, MustSwitch, openVars
<1>3. db = "open" /\ 1 \in 1..Len(writers) /\ c = writers[1] /\ call \in [Calls -> CallState]
  BY <1>1, <1>2, RoomAlone DEF QueueInv
<1>4. CASE RoomNoBatch(c)
  <2>1. Finish(call, 1, TRUE) /\ ~call[c].batch
    BY <1>4 DEF RoomNoBatch
  <2>2. \A i \in 1..1 : ~call[writers[i]].batch
    BY <1>3, <2>1
  <2>3. \A i \in 1..1 : call[writers[i]].batch =>
          writers[i] \in IF call[writers[i]].sync THEN SyncedCalls ELSE KeptCalls
    BY <2>2
  <2> QED
    BY <1>1, <1>2, <1>3, <2>1, <2>3, GroupAnswered
<1>5. CASE RoomError(c) \/ RoomSwitchFails(c)
  <2>1. Finish(call, 1, FALSE)
    BY <1>5 DEF RoomError, RoomSwitchFails
  <2> QED
    BY <1>1, <1>2, <1>3, <2>1, GroupAnswered
<1> QED
  BY <1>4, <1>5

\* The group that was logged returns: if it is acknowledged it is in the log,
\* and in what is synced of it if the group was written with sync.
LEMMA GroupReturns ==
  ASSUME RInv, NEW c \in Calls, FinishWrite(c)
  PROVE  /\ Durability!Next /\ Answered'
         /\ \A d \in Calls : call'[d].pc \notin Writing
<1>1. /\ IInv /\ QueueInv /\ FileTypes /\ Answered /\ GroupInv /\ GroupSynced /\ NoTorn
      /\ Running /\ Installed
  BY DEF RInv, IInv, FileInv, EntryInv
<1> DEFINE calls == IF group.sync_error /\ ~bg_error THEN SignalAll(call) ELSE call
<1>2. /\ call[c].pc = "finish" /\ Finish(calls, group.size, group.ok)
      /\ UNCHANGED <<diskVars, db>>
  BY DEF FinishWrite, openVars
<1>3. call[c].pc \in Writing
  BY <1>2 DEF Writing
<1>4. /\ db = "open" /\ group.size \in 1..Len(writers) /\ group.ok \in BOOLEAN
      /\ \A i \in 1..group.size : i \in DOMAIN writers /\ writers[i] \in Calls
  BY <1>1, <1>3, GroupFacts
<1>5. /\ calls \in [Calls -> CallState]
      /\ calls = call \/ \A d \in Calls : Woken(d, calls)
  BY <1>1, Signalled DEF QueueInv
<1> HIDE DEF calls
<1>6. /\ logfile_number \in DOMAIN log
      /\ \A m \in Manifests : logfile_number >= m.log_number
  <2>1. /\ logfile_number \in DOMAIN log /\ current.log_number <= logfile_number
        /\ current = manifest
        /\ \A m \in manifest_edit : m.log_number <= logfile_number
    BY <1>1, <1>4 DEF Running, Installed, EditOK
  <2>2. /\ \A m \in Manifests : m.log_number \in Nat
        /\ logfile_number \in Nat
    BY <1>1 DEF FileTypes, Version, Manifests
  <2> QED
    BY <2>1, <2>2 DEF Manifests
<1>7. ASSUME group.ok, NEW i \in 1..group.size, call[writers[i]].batch
      PROVE  writers[i] \in IF call[writers[i]].sync THEN SyncedCalls ELSE KeptCalls
  <2>1. /\ writers[i] \in CallsOf(group.entries)
        /\ call[writers[i]].sync => call[c].sync
        /\ group.entries \subseteq LogEntries(logfile_number)
    BY <1>1, <1>2, <1>3, <1>7 DEF GroupInv
  <2>2. PICK e \in group.entries : e.call = writers[i]
    BY <2>1 DEF CallsOf
  <2>3. e \in Readable(log[logfile_number], Len(log[logfile_number].records))
    BY <1>1, <1>6, <2>1, <2>2, AllRead
  <2>4. \A m \in Manifests : e \in Recovered(m)
    BY <1>6, <2>3 DEF Recovered
  <2>5. writers[i] \in KeptCalls
    BY <1>4, <2>2, <2>4 DEF KeptCalls, CallsOf
  <2>6. ASSUME call[writers[i]].sync PROVE writers[i] \in SyncedCalls
    <3>1. e \in Readable(log[logfile_number], log[logfile_number].synced)
      BY <1>1, <1>2, <1>7, <2>1, <2>2, <2>6 DEF GroupSynced
    <3>2. \A m \in Manifests : e \in RecoveredSynced(m)
      BY <1>6, <3>1 DEF RecoveredSynced
    <3> QED
      BY <1>4, <2>2, <3>2 DEF SyncedCalls, CallsOf
  <2> QED
    BY <2>5, <2>6
<1> QED
  BY <1>1, <1>2, <1>4, <1>5, <1>7, GroupAnswered

\* The process or the machine ends: what was under way is lost.
LEMMA CrashForgets ==
  ASSUME RInv, Closed \/ ProcessCrash \/ MachineCrash
  PROVE  /\ Durability!Next /\ Answered'
         /\ \A c \in Calls : call'[c].pc \notin Writing
<1>1. QueueInv /\ IInv /\ Answered
  BY DEF RInv, IInv
<1>2. Forget
  BY DEF Closed, ProcessCrash, MachineCrash
<1>3. \A c \in Calls :
        /\ call'[c].batch = call[c].batch /\ call'[c].sync = call[c].sync
        /\ call'[c].result = call[c].result
        /\ call'[c].pc = IF call[c].pc \in InFlight THEN "lost" ELSE call[c].pc
  BY <1>1, <1>2, ForgetQueue
<1>4. "lost" \notin InFlight /\ Writing \subseteq InFlight /\ "returned" # "lost"
  BY DEF InFlight, Writing
<1>5. Answered' /\ \A c \in Calls : call'[c].pc \notin Writing
  BY <1>1, <1>3, <1>4 DEF Answered
<1>6. \A c \in Calls : StateOf(c)' = IF StateOf(c) = "pending" THEN "lost" ELSE StateOf(c)
  <2> SUFFICES ASSUME NEW c \in Calls
               PROVE  StateOf(c)' = IF StateOf(c) = "pending" THEN "lost" ELSE StateOf(c)
    OBVIOUS
  <2>1. CASE call[c].batch /\ call[c].pc \in InFlight
    BY <1>3, <1>4, <2>1 DEF StateOf
  <2>2. CASE ~(call[c].batch /\ call[c].pc \in InFlight)
    <3>1. StateOf(c) # "pending"
      BY <1>1, <2>2, StateCases
    <3>2. SameFor(c)
      BY <1>3, <2>2 DEF SameFor
    <3> QED
      BY <3>1, <3>2, StateSame
  <2> QED
    BY <2>1, <2>2
<1>7. [c \in Calls |-> StateOf(c)]' =
        [c \in Calls |-> IF [d \in Calls |-> StateOf(d)][c] = "pending" THEN "lost"
                         ELSE [d \in Calls |-> StateOf(d)][c]]
  BY <1>6
<1>8. [c \in Calls |-> call[c].batch /\ call[c].sync]' =
        [c \in Calls |-> call[c].batch /\ call[c].sync]
  BY <1>3
<1>9. Durability!Forget
  BY <1>7, <1>8 DEF Durability!Forget
<1>10. ASSUME MachineCrash PROVE Durability!Next
  BY <1>1, <1>9, <1>10, CrashKeeps DEF Durability!Next, Durability!MachineCrash
<1>11. ASSUME Closed \/ ProcessCrash PROVE Durability!Next
  <2>1. UNCHANGED diskVars
    BY <1>11 DEF Closed, ProcessCrash
  <2> QED
    BY <1>9, <2>1, DiskKept DEF Durability!Next, Durability!ProcessCrash
<1> QED
  BY <1>5, <1>10, <1>11

-----------------------------------------------------------------------------
(* The invariant of the refinement.                                        *)

\* What makes the group's entries synced is left alone.
LEMMA GroupStays ==
  ASSUME GroupSynced, UNCHANGED <<group, logfile_number>>,
         log'[logfile_number] = log[logfile_number],
         \A c \in Calls : call'[c].pc \in {"insert", "finish"} =>
           call'[c].pc = call[c].pc /\ call'[c].sync = call[c].sync
  PROVE  GroupSynced'
<1>1. ASSUME NEW c \in Calls, call'[c].pc \in {"insert", "finish"}, group'.ok,
             call'[c].sync
      PROVE  group'.entries \subseteq
               Readable(log'[logfile_number'], log'[logfile_number'].synced)
  <2>1. group.entries \subseteq Readable(log[logfile_number], log[logfile_number].synced)
    BY <1>1 DEF GroupSynced
  <2> QED
    BY <2>1
<1> QED
  BY <1>1 DEF GroupSynced

\* Nobody has a group.
LEMMA NoGroupSynced ==
  ASSUME \A c \in Calls : call'[c].pc \notin {"insert", "finish"}
  PROVE  GroupSynced'
  BY DEF GroupSynced

\* Every step keeps the group under way synced, if it must be.
LEMMA GroupSyncedStep ==
  ASSUME RInv, IInv', [Next]_vars, torn_logs' = torn_logs
  PROVE  GroupSynced'
<1>1. /\ IInv /\ QueueInv /\ FileInv /\ FileTypes /\ Running /\ Installed /\ GroupInv
      /\ GroupSynced /\ NoTorn
  BY DEF RInv, IInv, FileInv, EntryInv
<1>0. {"insert", "finish"} \subseteq Writing /\ Writing \subseteq InFlight
  BY DEF Writing, InFlight
<1>2. ASSUME NEW c \in Calls, RoomDelay(c) \/ RoomBatch(c) \/ RoomWait(c) \/ RoomSwitch(c)
      PROVE  GroupSynced'
  <2>1. AtFront(c)
    BY <1>2 DEF RoomDelay, RoomBatch, RoomWait, RoomSwitch, MustSwitch
  <2>2. call[c].pc = "front" /\ \A d \in Calls : call[d].pc \notin Writing
    BY <1>1, <2>1, RoomAlone
  <2>3. \A d \in Calls : d # c => call'[d] = call[d]
    BY <1>1, <1>2, FrontStep
  <2>4. call[c] \in CallState /\ call \in [Calls -> CallState]
    BY <1>1 DEF QueueInv
  <2>5. call'[c].pc \in {"front", "log", "bgwait"}
    BY <1>2, <2>2, <2>4, ZenonT(60) DEF RoomDelay, RoomBatch, RoomWait, RoomSwitch, CallState
  <2> QED
    BY <1>0, <2>2, <2>3, <2>5, NoGroupSynced
<1>3. ASSUME NEW c \in Calls, AddRecord(c) \/ SyncLog(c) \/ SyncLogFails(c) \/ InsertInto(c)
      PROVE  GroupSynced'
  <2>1. call[c].pc \in Writing
    BY <1>3 DEF AddRecord, SyncLog, SyncLogFails, InsertInto, Writing
  <2>2. db = "open" /\ \A d \in Calls : call[d].pc \in Writing => d = c
    BY <1>1, <2>1, GroupFacts
  <2>3. \A d \in Calls : d # c => call'[d] = call[d]
    BY <1>1, <1>3, FrontStep
  <2>4. \A d \in Calls : d # c => call'[d].pc \notin {"insert", "finish"}
    BY <1>0, <2>2, <2>3
  <2>5. call[c] \in CallState /\ call \in [Calls -> CallState] /\ group \in Group
    BY <1>1 DEF QueueInv
  <2>6. logfile_number \in DOMAIN log /\ UNCHANGED logfile_number
    BY <1>1, <1>3, <2>2 DEF Running, AddRecord, SyncLog, SyncLogFails, InsertInto, memVars
  <2>7. CASE AddRecord(c)
    <3>1. call' = [call EXCEPT ![c].pc = IF call[c].sync THEN "sync" ELSE "insert"]
      BY <2>7 DEF AddRecord
    <3>2. call'[c].pc = "insert" => ~call'[c].sync
      BY <2>5, <3>1 DEF CallState
    <3>3. call'[c].pc # "finish"
      BY <2>5, <3>1 DEF CallState
    <3> QED
      BY <2>4, <3>2, <3>3 DEF GroupSynced
  <2>8. CASE SyncLog(c)
    <3>1. /\ UNCHANGED group
          /\ log' = [log EXCEPT ![logfile_number].synced = Len(log[logfile_number].records)]
          /\ call[c].pc = "sync"
      BY <2>8 DEF SyncLog
    <3>2. group.ok /\ group.entries \subseteq LogEntries(logfile_number)
      BY <1>1, <2>1, <3>1 DEF GroupInv
    <3>3. LogEntries(logfile_number) =
            Readable(log[logfile_number], Len(log[logfile_number].records))
      BY <1>1, <2>6, AllRead
    <3>4. /\ log'[logfile_number].records = log[logfile_number].records
          /\ log'[logfile_number].synced = Len(log[logfile_number].records)
      <4>1. log[logfile_number] \in Log
        BY <1>1, <2>6, LogTypes
      <4> QED
        BY <2>6, <3>1, <4>1 DEF Log
    <3>5. Readable(log'[logfile_number], log'[logfile_number].synced) =
            Readable(log[logfile_number], Len(log[logfile_number].records))
      BY <3>4 DEF Readable
    <3> QED
      BY <2>6, <3>1, <3>2, <3>3, <3>5 DEF GroupSynced
  <2>9. CASE SyncLogFails(c)
    <3>1. group' = [group EXCEPT !.ok = FALSE, !.sync_error = TRUE]
      BY <2>9 DEF SyncLogFails
    <3>2. ~group'.ok
      BY <2>5, <3>1 DEF Group
    <3> QED
      BY <3>2 DEF GroupSynced
  <2>10. CASE InsertInto(c)
    <3>1. /\ UNCHANGED <<group, log>> /\ call[c].pc = "insert"
          /\ call' = [call EXCEPT ![c].pc = "finish"]
      BY <2>10 DEF InsertInto, diskVars
    <3>2. call'[c].sync = call[c].sync
      BY <2>5, <3>1 DEF CallState
    <3>3. call[c].sync /\ group.ok =>
            group.entries \subseteq Readable(log[logfile_number], log[logfile_number].synced)
      BY <1>1, <3>1 DEF GroupSynced
    <3> QED
      BY <2>4, <2>6, <3>1, <3>2, <3>3 DEF GroupSynced
  <2> QED
    BY <1>3, <2>7, <2>8, <2>9, <2>10
<1>4. ASSUME NEW c \in Calls, CompactMemTableWaits(c) \/ CompactMemTableReturns(c)
      PROVE  GroupSynced'
  <2>1. /\ \A d \in Calls : d # c => call'[d] = call[d]
        /\ call'[c].pc \in {"immwait", "returned"}
        /\ UNCHANGED <<group, logfile_number, log>>
    BY <1>1, <1>4, OutsideMoves
  <2> QED
    BY <1>1, <2>1, GroupStays
<1>5. ASSUME Background PROVE GroupSynced'
  <2>1. UNCHANGED <<group, logfile_number>>
    BY <1>5 DEF Background, BackgroundNothing, BackgroundStart, TableBuilt, TableFails,
                LogAndApply, LogAndApplyFails, memVars
  <2>2. \A c \in Calls : call'[c].pc \in {"insert", "finish"} =>
          call'[c].pc = call[c].pc /\ call'[c].sync = call[c].sync
    BY <1>0, <1>1, <1>5, BackgroundWakes
  <2>3. log'[logfile_number] = log[logfile_number]
    <3>1. CASE LogAndApply
      <4>1. bg.pc \in {"apply", "install"}
        BY <3>1 DEF LogAndApply
      <4>2. db \in {"open", "closing"}
        BY <1>1, <4>1 DEF Installed, FileTypes
      <4>3. PICK e \in manifest_edit : manifest_edit = {e} /\ EditOK(e)
        BY <1>1, <4>1, <4>2 DEF Running
      <4>4. (CHOOSE x \in manifest_edit : TRUE) = e
        BY <4>3
      <4>5. /\ log' = KeepLogs(log, e, bg_error)
            /\ tables' = KeepTables(tables, e, {}, bg_error)
        BY <3>1, <4>4 DEF LogAndApply, CleanUp
      <4>6. logfile_number \in DOMAIN log /\ logfile_number >= e.log_number
        <5>1. /\ logfile_number \in DOMAIN log /\ e.log_number <= logfile_number
              /\ e.log_number \in Nat /\ logfile_number \in Nat
          BY <1>1, <4>2, <4>3 DEF Running, EditOK, FileTypes, Version
        <5> QED
          BY <5>1
      <4> QED
        BY <1>1, <4>5, <4>6, KeptFiles
    <3>2. CASE TableFails \/ LogAndApplyFails
      BY <3>2 DEF TableFails, LogAndApplyFails, CleanUp, KeepLogs
    <3>3. CASE BackgroundNothing \/ BackgroundStart \/ TableBuilt
      BY <3>3 DEF BackgroundNothing, BackgroundStart, TableBuilt, diskVars
    <3> QED
      BY <1>5, <3>1, <3>2, <3>3 DEF Background
  <2> QED
    BY <1>1, <2>1, <2>2, <2>3, GroupStays
<1>6. ASSUME Open PROVE GroupSynced'
  BY <1>0, <1>1, <1>6, OpenAlone, NoGroupSynced
<1>7. ASSUME Close \/ UNCHANGED vars PROVE GroupSynced'
  <2>1. UNCHANGED <<call, group, logfile_number, log>>
    BY <1>7 DEF Close, vars, memVars, diskVars
  <2> QED
    BY <1>1, <2>1, GroupStays
<1>8. ASSUME NEW c \in Calls, NEW r \in Requests, WriteCall(c, r) PROVE GroupSynced'
  <2>1. UNCHANGED <<group, logfile_number, log>>
    BY <1>8 DEF WriteCall, memVars, diskVars
  <2>2. /\ \A d \in Calls : d # c => call'[d] = call[d]
        /\ call'[c].pc \in {"front", "queued"}
    BY <1>1, <1>8, WriterJoins
  <2> QED
    BY <1>1, <2>1, <2>2, GroupStays
<1>9. ASSUME NEW c \in Calls,
             RoomError(c) \/ RoomNoBatch(c) \/ RoomSwitchFails(c) \/ FinishWrite(c)
      PROVE  GroupSynced'
  <2>1. \A d \in Calls : call'[d].pc \notin Writing
    BY <1>9, RoomAnswers, GroupReturns
  <2> QED
    BY <1>0, <2>1, NoGroupSynced
<1>10. ASSUME Closed \/ ProcessCrash \/ MachineCrash PROVE GroupSynced'
  BY <1>0, <1>10, CrashForgets, NoGroupSynced
<1>11. ASSUME NEW c \in Calls, AddRecordTears(c) PROVE FALSE
  BY <1>1, <1>11 DEF AddRecordTears, NoTorn
<1>12. ASSUME NEW c \in Calls, AddRecordFails(c) PROVE GroupSynced'
  <2>1. group' = [group EXCEPT !.ok = FALSE] /\ group \in Group
    BY <1>1, <1>12 DEF AddRecordFails, QueueInv
  <2>2. ~group'.ok
    BY <2>1 DEF Group
  <2> QED
    BY <2>2 DEF GroupSynced
<1> QED
  BY <1>2, <1>3, <1>4, <1>5, <1>6, <1>7, <1>8, <1>9, <1>10, <1>11, <1>12, StepKinds
  DEF Quiet

\* Logs that are empty or as they were.
LEMMA LogsWhole ==
  ASSUME NoTorn, torn_logs' = torn_logs,
         \A n \in DOMAIN log' : \/ log'[n].records = <<>>
                                \/ n \in DOMAIN log /\ log'[n].records = log[n].records
  PROVE  NoTorn'
  BY DEF NoTorn

\* Without torn AddRecords no log ever has a torn record.
LEMMA NoTornStep ==
  ASSUME RInv, MaxTorn = 0, [Next]_vars
  PROVE  NoTorn' /\ torn_logs' = torn_logs
<1>1. /\ IInv /\ QueueInv /\ FileInv /\ FileTypes /\ Running /\ Installed /\ NoTorn
      /\ Applying
  BY DEF RInv, IInv, FileInv
<1>2. ASSUME NEW c \in Calls, AddRecordTears(c) PROVE FALSE
  BY <1>1, <1>2 DEF AddRecordTears, NoTorn
<1>3. torn_logs' = torn_logs
  BY <1>2 DEF Next, CallStep, Background, Open, WriteCall, RoomError, RoomDelay, RoomBatch,
     RoomNoBatch, RoomWait, RoomSwitch, RoomSwitchFails, AddRecord, AddRecordFails,
     SyncLog,
     SyncLogFails, InsertInto, FinishWrite, CompactMemTableWaits,
     CompactMemTableReturns, BackgroundNothing, BackgroundStart, TableBuilt,
     TableFails, LogAndApply, LogAndApplyFails, Recover, RecoverLogFile, OpenLog,
     Opened, OpenFails, Close, Closed, ProcessCrash, MachineCrash, vars, faultVars
<1>4. ASSUME UNCHANGED log PROVE NoTorn'
  BY <1>1, <1>3, <1>4 DEF NoTorn
<1>5. ASSUME NEW v, NEW err, log' = KeepLogs(log, v, err) PROVE NoTorn'
  <2>1. \A n \in DOMAIN log' : n \in DOMAIN log /\ log'[n] = log[n]
    BY <1>5 DEF KeepLogs
  <2> QED
    BY <1>1, <1>3, <2>1, LogsWhole
<1>6. ASSUME NEW c \in Calls, RoomSwitch(c) PROVE NoTorn'
  <2>1. next_file_number \in 0..(MaxFileNumber - 1)
    BY <1>1, <1>6, DBImplAssumption DEF FileTypes, RoomSwitch
  <2>2. /\ DOMAIN log' = DOMAIN log \cup {next_file_number}
        /\ log'[next_file_number].records = <<>>
        /\ \A n \in DOMAIN log : n # next_file_number => log'[n] = log[n]
    BY <1>1, <1>6, <2>1, LogCreated DEF RoomSwitch
  <2>3. ASSUME NEW n \in DOMAIN log'
        PROVE  \/ log'[n].records = <<>>
               \/ n \in DOMAIN log /\ log'[n].records = log[n].records
    BY <2>2
  <2> QED
    BY <1>1, <1>3, <2>3, LogsWhole
<1>7. ASSUME OpenLog PROVE NoTorn'
  <2>1. /\ DOMAIN log' = DOMAIN log \cup {next_file_number}
        /\ log'[next_file_number].records = <<>>
        /\ \A k \in DOMAIN log : log'[k] = log[k]
    BY <1>1, <1>7, OpenEdit
  <2>2. ASSUME NEW n \in DOMAIN log'
        PROVE  \/ log'[n].records = <<>>
               \/ n \in DOMAIN log /\ log'[n].records = log[n].records
    BY <2>1
  <2> QED
    BY <1>1, <1>3, <2>2, LogsWhole
<1>8. ASSUME NEW c \in Calls, SyncLog(c) PROVE NoTorn'
  <2>1. \A n \in DOMAIN log : log[n] \in Log
    BY <1>1, LogTypes
  <2>2. log' = [log EXCEPT ![logfile_number].synced = Len(log[logfile_number].records)]
    BY <1>8 DEF SyncLog
  <2>3. \A n \in DOMAIN log' : n \in DOMAIN log /\ log'[n].records = log[n].records
    BY <2>1, <2>2 DEF Log
  <2> QED
    BY <1>1, <1>3, <2>3, LogsWhole
<1>9. ASSUME NEW c \in Calls, AddRecord(c) \/ AddRecordFails(c), log' # log
      PROVE  NoTorn'
  <2>1. call[c].pc \in Writing
    BY <1>9 DEF AddRecord, AddRecordFails, Writing
  <2>2. db = "open" /\ group.entries \subseteq Entry
    BY <1>1, <2>1, GroupFacts
  <2>3. PICK r \in Record : r = [entries |-> group.entries, torn |-> FALSE]
    BY <2>2 DEF Record
  <2>4. log' = [log EXCEPT ![logfile_number].records = Append(@, r)]
    BY <1>9, <2>3 DEF AddRecord, AddRecordFails
  <2>5. PICK l \in Log :
          /\ l.records = Append(log[logfile_number].records, r)
          /\ log' = [log EXCEPT ![logfile_number] = l]
    BY <1>1, <2>2, <2>4, RecordAdded
  <2>6. /\ logfile_number \in DOMAIN log
        /\ log[logfile_number].records \in Seq(Record)
        /\ Len(log[logfile_number].records) \in Nat
        /\ DOMAIN log[logfile_number].records = 1..Len(log[logfile_number].records)
    BY <1>1, <2>2, LogTypes DEF Running
  <2>7. /\ DOMAIN l.records = 1..(Len(log[logfile_number].records) + 1)
        /\ \A i \in 1..Len(log[logfile_number].records) :
             l.records[i] = log[logfile_number].records[i]
        /\ l.records[Len(log[logfile_number].records) + 1] = r
    BY <2>5, <2>6, AppendProperties, LenProperties
  <2>8. ~r.torn
    BY <2>3
  <2>9. \A i \in DOMAIN l.records : ~l.records[i].torn
    <3> SUFFICES ASSUME NEW i \in DOMAIN l.records PROVE ~l.records[i].torn
      OBVIOUS
    <3>1. \/ i \in DOMAIN log[logfile_number].records
          \/ i = Len(log[logfile_number].records) + 1
      BY <2>6, <2>7
    <3> QED
      BY <1>1, <2>6, <2>7, <2>8, <3>1 DEF NoTorn
  <2>10. ASSUME NEW n \in DOMAIN log' PROVE \A i \in DOMAIN log'[n].records : ~log'[n].records[i].torn
    <3>1. n \in DOMAIN log /\ log'[n] = IF n = logfile_number THEN l ELSE log[n]
      BY <2>5
    <3> QED
      BY <1>1, <2>9, <3>1 DEF NoTorn
  <2> QED
    BY <1>1, <1>3, <2>10 DEF NoTorn
<1>10. ASSUME MachineCrash PROVE NoTorn'
  <2>1. /\ DOMAIN log' \subseteq DOMAIN log
        /\ \A n \in DOMAIN log' : \A i \in DOMAIN log'[n].records :
             i \in DOMAIN log[n].records /\ log'[n].records[i] = log[n].records[i]
    BY <1>1, <1>10, LogsCut
  <2> QED
    BY <1>1, <1>3, <2>1 DEF NoTorn
<1>11. ASSUME LogAndApply \/ Opened PROVE NoTorn'
  BY <1>5, <1>11 DEF LogAndApply, Opened, CleanUp
<1>12. ASSUME TableFails \/ LogAndApplyFails PROVE NoTorn'
  BY <1>4, <1>12 DEF TableFails, LogAndApplyFails, CleanUp, KeepLogs
<1>13. NoTorn'
  BY <1>2, <1>4, <1>6, <1>7, <1>8, <1>9, <1>10, <1>11, <1>12
  DEF Next, CallStep, Background, Open, WriteCall, RoomError, RoomDelay, RoomBatch,
     RoomNoBatch, RoomWait, RoomSwitchFails,
     SyncLogFails, InsertInto, FinishWrite, CompactMemTableWaits,
     CompactMemTableReturns, BackgroundNothing, BackgroundStart, TableBuilt,
     Recover, RecoverLogFile,
     OpenFails, Close, Closed, ProcessCrash, vars, diskVars
<1> QED
  BY <1>3, <1>13

\* Every step keeps the invariant and is a step of DurableStore.
LEMMA StepImplements ==
  ASSUME RInv, MaxTorn = 0, [Next]_vars
  PROVE  RInv' /\ Durability!Next
<1>1. IInv /\ QueueInv /\ Answered
  BY DEF RInv, IInv
<1>2. IInv'
  BY <1>1, QueueStep, FileStep, EntryStep DEF IInv
<1>3. NoTorn' /\ torn_logs' = torn_logs
  BY NoTornStep
<1>4. GroupSynced'
  BY <1>2, <1>3, GroupSyncedStep
<1>5. ASSUME Quiet PROVE Answered' /\ Durability!Next
  <2>1. \A c \in Calls : SameFor(c)
    BY <1>1, <1>5, QuietSame
  <2>2. "returned" \notin InFlight
    BY DEF InFlight
  <2>3. Answered'
    <3> SUFFICES ASSUME NEW c \in Calls, call'[c].pc = "returned", call'[c].batch
                 PROVE  call'[c].result \in {"ok", "error"}
      BY DEF Answered
    <3>1. call[c].batch /\ call[c].pc = "returned" /\ call'[c].result = call[c].result
      BY <2>1, <2>2 DEF SameFor
    <3> QED
      BY <1>1, <3>1 DEF Answered
  <2>4. CASE MachineCrash
    BY <1>1, <2>3, <2>4, CrashForgets
  <2>5. CASE ~MachineCrash
    <3>1. /\ \A c \in KeptCalls : c \in KeptCalls' \/ Rejected(c)
          /\ \A c \in SyncedCalls : c \in SyncedCalls' \/ Rejected(c)
      BY <1>1, <2>5, StepKeeps
    <3> QED
      BY <1>1, <1>2, <2>1, <2>3, <3>1, IsKeep
  <2> QED
    BY <2>4, <2>5
<1>6. Answered' /\ Durability!Next
  BY <1>2, <1>5, WriteBegins, RoomAnswers, GroupReturns, CrashForgets, StepKinds
<1> QED
  BY <1>2, <1>3, <1>4, <1>6 DEF RInv

\* At first nothing is written and nothing is kept.
LEMMA InitImplements ==
  ASSUME Init
  PROVE  RInv /\ Durability!Init
<1>1. IInv
  BY InitInv
<1>2. /\ \A c \in Calls : call[c].pc = "idle" /\ ~call[c].batch
      /\ log = NoFiles /\ tables = NoFiles /\ torn_logs = 0
      /\ manifest = NewVersion /\ manifest_edit = {}
  BY DEF Init
<1>3. DOMAIN log = {} /\ DOMAIN tables = {}
  BY <1>2 DEF NoFiles
<1>4. RInv
  BY <1>1, <1>2, <1>3 DEF RInv, Answered, NoTorn, GroupSynced
<1>5. Recovered(manifest) = {} /\ RecoveredSynced(manifest) = {}
  BY <1>3 DEF Recovered, RecoveredSynced, InTables
<1>6. KeptCalls = {} /\ SyncedCalls = {}
  BY <1>5 DEF KeptCalls, SyncedCalls, CallsOf, Manifests
<1>7. /\ [c \in Calls |-> StateOf(c)] = [c \in Calls |-> "none"]
      /\ [c \in Calls |-> call[c].batch /\ call[c].sync] = [c \in Calls |-> FALSE]
  BY <1>2 DEF StateOf
<1>8. Durability!Init
  BY <1>6, <1>7 DEF Durability!Init
<1> QED
  BY <1>4, <1>8

\* WriteOptions::sync (options.h), implemented by Write, its log, the flush of
\* memtables, LogAndApply and DB::Open: a write that was acknowledged is found
\* again after any number of process crashes, and after machine crashes too if
\* it asked for sync, provided that no failing AddRecord leaves part of a
\* record; one may leave the whole of it, or nothing.
THEOREM WritePathKeepsPromises ==
  ASSUME MaxTorn = 0
  PROVE  Spec => KeepsPromises
<1>1. Init => RInv /\ Durability!Init
  BY InitImplements
<1>2. RInv /\ [Next]_vars => RInv' /\ [Durability!Next]_(Durability!vars)
  BY StepImplements
<1> QED
  BY <1>1, <1>2, PTL DEF Spec, KeepsPromises, Durability!Spec
=============================================================================
