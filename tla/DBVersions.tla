----------------------------- MODULE DBVersions -----------------------------
(***************************************************************************)
(* LevelDB below the write path: the memtables, the levels of table files, *)
(* the compactions that move entries down the levels, the snapshots that   *)
(* keep old entries alive, and the removal of files nothing refers to.     *)
(*                                                                         *)
(* The background thread releases the mutex while it builds tables.        *)
(* Meanwhile clients write, switch memtables, take snapshots and read, and *)
(* a compaction under way stops to flush the immutable memtable.           *)
(*                                                                         *)
(* An entry is one put or deletion with its sequence number and has size   *)
(* one; a table is the set of its entries.  The write path itself, and     *)
(* when the background thread is scheduled, are DBImpl's.                  *)
(***************************************************************************)
EXTENDS Integers, Sequences, FiniteSets

CONSTANTS
  Keys,                   \* the user keys, in the comparator's order
  ValueTypes,             \* what clients write: values, deletions
  Readers,                \* threads inside Get, or iterators
  Ranges,                 \* the key ranges clients ask CompactRange for
  Settings,               \* max_file_size, what the clients call and write
  kNumLevels,             \* 7 in the code
  kMaxMemCompactLevel,    \* 2 in the code
  kL0_CompactionTrigger,  \* 4 in the code
  MaxBytesForLevel,       \* the size at which a level is compacted
  GrandParentFactor,      \* 10 in the code
  ExpandFactor,           \* 25 in the code
  MaxSequence,            \* bound: writes
  MaxFileNumber,          \* bound: table files
  MaxManual               \* bound: calls of CompactRange

ASSUME DBVersionsAssumption ==
  /\ Keys \subseteq Nat /\ Keys # {} /\ IsFiniteSet(Keys)
  /\ ValueTypes \subseteq {"value", "deletion"}
  /\ Ranges \subseteq {r \in Keys \X Keys : r[1] <= r[2]}
  /\ kNumLevels \in Nat /\ kNumLevels >= 2
  /\ kMaxMemCompactLevel \in 0..(kNumLevels - 1)
  /\ kL0_CompactionTrigger \in Nat \ {0}
  /\ MaxBytesForLevel \in [1..(kNumLevels - 1) -> Nat \ {0}]
  /\ GrandParentFactor \in Nat /\ ExpandFactor \in Nat
  /\ MaxSequence \in Nat /\ MaxFileNumber \in Nat /\ MaxManual \in Nat
  /\ Settings \subseteq [max_file_size : Nat \ {0}, snapshots : BOOLEAN,
                         manual : BOOLEAN, failures : BOOLEAN,
                         writes : SUBSET (Keys \X ValueTypes),
                         max_writes : 0..MaxSequence]

Levels == 0..(kNumLevels - 1)
CompactLevels == 0..(kNumLevels - 2)
Entry == [key : Keys, seq : 1..MaxSequence, type : ValueTypes]

VARIABLES
  options,          \* the setting chosen when the database was opened
  last_sequence,    \* versions_->LastSequence()
  history,          \* history: every entry ever written
  mem, imm,         \* the entries of the two memtables
  has_imm,          \* imm_ != NULL
  current,          \* versions_->current(): the files of each level
  disk,             \* the numbers of the table files in the directory
  next_file,        \* versions_->next_file_number_
  pending_outputs,  \* tables being written, not yet in a version
  compact_pointer,  \* per level, the key the last compaction ended at
  file_to_compact,  \* the file a seek compaction is due for, if any
  snapshots,        \* the sequence numbers of the live snapshots
  held,             \* the version each reader refers to
  flush,            \* the number of the table CompactMemTable is writing
  compaction,       \* the compaction under way, if any
  manual,           \* CompactRange: where the client is, and its request
  bg_error          \* a background operation has failed

memVars == <<last_sequence, history, mem, imm, has_imm>>
clientVars == <<options, snapshots, held>>
versionVars == <<current, disk, next_file, pending_outputs,
                 compact_pointer, file_to_compact>>
vars == <<memVars, clientVars, versionVars, flush, compaction, manual,
          bg_error>>

-----------------------------------------------------------------------------
(* Files and key ranges.                                                   *)

\* InternalKeyComparator: user keys up, sequence numbers down.
InternalKeyLess(a, b) == a.key < b.key \/ (a.key = b.key /\ a.seq > b.seq)

smallest(f) == CHOOSE e \in f.entries :
                 \A d \in f.entries : d = e \/ InternalKeyLess(e, d)
largest(f) == CHOOSE e \in f.entries :
                \A d \in f.entries : d = e \/ InternalKeyLess(d, e)

EntriesOf(files) == UNION {f.entries : f \in files}
TotalFileSize(files) == Cardinality(EntriesOf(files))
Numbers(version) == {f.number : f \in UNION {version[l] : l \in Levels}}

\* The user keys at the two ends of a set of files.
Low(files) == CHOOSE k \in {smallest(f).key : f \in files} :
                \A f \in files : k <= smallest(f).key
High(files) == CHOOSE k \in {largest(f).key : f \in files} :
                 \A f \in files : k >= largest(f).key

Overlaps(f, begin, end) == largest(f).key >= begin /\ smallest(f).key <= end

\* The order of a level's files; only level 0 has ties.
BySmallestKey(f, g) ==
  \/ InternalKeyLess(smallest(f), smallest(g))
  \/ smallest(f) = smallest(g) /\ f.number < g.number
FirstOf(files) == CHOOSE f \in files :
                    \A g \in files : g = f \/ BySmallestKey(f, g)

\* The last of a level's files: none begins after it.
LastOf(files) == CHOOSE f \in files :
                   \A g \in files : ~InternalKeyLess(smallest(f), smallest(g))

\* In level 0 the range grows to cover the files it meets, until none is cut.
GrownRange(version, begin, end) ==
  LET uncut == {r \in Keys \X Keys :
                  /\ r[1] <= begin /\ r[2] >= end
                  /\ \A f \in version[0] : Overlaps(f, r[1], r[2]) =>
                       r[1] <= smallest(f).key /\ largest(f).key <= r[2]}
  IN CHOOSE r \in uncut : \A q \in uncut : q[1] <= r[1] /\ r[2] <= q[2]

GetOverlappingInputs(version, level, begin, end) ==
  LET range == IF level = 0 THEN GrownRange(version, begin, end)
               ELSE <<begin, end>>
  IN {f \in version[level] : Overlaps(f, range[1], range[2])}

OverlapInLevel(version, level, begin, end) ==
  \E f \in version[level] : Overlaps(f, begin, end)

MaxGrandParentOverlapBytes == GrandParentFactor * options.max_file_size

\* Faulty variant: only level 0 is looked at.
PickLevelByLevel0Only(version, begin, end) ==
  IF OverlapInLevel(version, 0, begin, end) THEN 0 ELSE kMaxMemCompactLevel

\* The table may be placed in level l once it may be in the level above.
MayEnter(version, l, begin, end) ==
  /\ ~OverlapInLevel(version, l, begin, end)
  /\ l + 1 < kNumLevels =>
       TotalFileSize(GetOverlappingInputs(version, l + 1, begin, end))
         <= MaxGrandParentOverlapBytes

\* A level above which, and at which, nothing overlaps the new table.
PickLevelForMemTableOutput(version, begin, end) ==
  IF OverlapInLevel(version, 0, begin, end) THEN 0
  ELSE CHOOSE l \in 0..kMaxMemCompactLevel :
         /\ \A m \in 1..l : MayEnter(version, m, begin, end)
         /\ l < kMaxMemCompactLevel => ~MayEnter(version, l + 1, begin, end)

-----------------------------------------------------------------------------
(* Reading.                                                                *)

\* The newest entry of a key that a reader at a sequence number sees.
Newest(entries, key, snapshot) ==
  LET seen == {e \in entries : e.key = key /\ e.seq <= snapshot}
  IN {e \in seen : \A d \in seen : d.seq <= e.seq}

\* Version::Get in one level: level 0 newest file first, else the one file
\* FindFile returns.
GetInLevel(version, level, key, snapshot) ==
  IF level = 0
  THEN LET hits == {f \in version[0] : Newest(f.entries, key, snapshot) # {}}
       IN UNION {Newest(f.entries, key, snapshot) : f \in
                   {g \in hits : \A h \in hits : h.number <= g.number}}
  ELSE LET after == {f \in version[level] :
                       \/ largest(f).key > key
                       \/ largest(f).key = key /\ largest(f).seq <= snapshot}
       IN IF after = {} THEN {}
          ELSE Newest(FirstOf(after).entries, key, snapshot)

\* DBImpl::Get: memtable, immutable memtable, then level by level.
Get(key, snapshot) ==
  LET inMem == Newest(mem, key, snapshot)
      inImm == Newest(imm, key, snapshot)
      inLevel == [l \in Levels |-> GetInLevel(current, l, key, snapshot)]
      hit == {l \in Levels : inLevel[l] # {}}
  IN IF inMem # {} THEN inMem
     ELSE IF inImm # {} THEN inImm
     ELSE IF hit = {} THEN {}
     ELSE inLevel[CHOOSE l \in hit : \A m \in hit : l <= m]

Found(entries) == {e \in entries : e.type = "value"}
-----------------------------------------------------------------------------
(* Choosing a compaction.                                                  *)

NoCompaction == [state |-> "none"]
Under(c) == c.state # "none"

\* Finalize: the level with the highest score, the first of equals.
Amount(version, level) ==
  IF level = 0 THEN Cardinality(version[0]) ELSE TotalFileSize(version[level])
Limit(level) ==
  IF level = 0 THEN kL0_CompactionTrigger ELSE MaxBytesForLevel[level]
compaction_level(version) ==
  CHOOSE l \in CompactLevels :
    /\ \A m \in CompactLevels :
         Amount(version, m) * Limit(l) <= Amount(version, l) * Limit(m)
    /\ \A m \in 0..(l - 1) :
         Amount(version, m) * Limit(l) < Amount(version, l) * Limit(m)
NeedsSizeCompaction(version) ==
  LET l == compaction_level(version) IN Amount(version, l) >= Limit(l)

\* What every reader, now or later, can see.
SmallestSnapshot ==
  IF snapshots = {} THEN last_sequence
  ELSE CHOOSE s \in snapshots : \A t \in snapshots : s <= t

\* The other inputs of a compaction, and the level's files that can join
\* without making it take more of the next level.
SetupOtherInputs(level, files) ==
  LET inputsIn(l, fs) == GetOverlappingInputs(current, l, Low(fs), High(fs))
      next == inputsIn(level + 1, files)
      expanded0 == inputsIn(level, files \cup next)
      expanded1 == inputsIn(level + 1, expanded0)
      grow == /\ next # {}
              /\ Cardinality(expanded0) > Cardinality(files)
              /\ TotalFileSize(next) + TotalFileSize(expanded0)
                   < ExpandFactor * options.max_file_size
              /\ Cardinality(expanded1) = Cardinality(next)
      in0 == IF grow THEN expanded0 ELSE files
      in1 == IF grow THEN expanded1 ELSE next
  IN [state |-> "work", level |-> level, inputs0 |-> in0, inputs1 |-> in1,
      grandparents |-> IF level + 2 < kNumLevels
                       THEN inputsIn(level + 2, in0 \cup in1) ELSE {},
      version |-> current, rest |-> EntriesOf(in0 \cup in1), outputs |-> <<>>,
      open |-> FALSE, seen_key |-> FALSE, passed |-> {}, overlapped |-> 0,
      smallest_snapshot |-> SmallestSnapshot, is_manual |-> FALSE]

\* The largest key of the level's inputs: where the next compaction starts.
InputLimit(files) ==
  LET ends == {largest(f) : f \in files}
  IN CHOOSE e \in ends : \A d \in ends : d = e \/ InternalKeyLess(d, e)

\* Faulty variant: level 0's overlapping files stay behind.
InitialInputsAlone(level, file) == {file}

\* In level 0 the files that overlap the chosen one come along.
InitialInputs(level, file) ==
  IF level = 0
  THEN GetOverlappingInputs(current, 0, Low({file}), High({file}))
  ELSE {file}

\* The file a compaction starts from: the first one after the level's compact
\* pointer, or the first of all, if a level is too big; else one charged with
\* too many seeks.
Picked(level, file) ==
  LET after == {f \in current[level] :
                  \A p \in compact_pointer[level] : InternalKeyLess(p, largest(f))}
  IN IF NeedsSizeCompaction(current)
     THEN /\ level = compaction_level(current)
          /\ file = FirstOf(IF after # {} THEN after ELSE current[level])
     ELSE [level |-> level, file |-> file] \in file_to_compact

PickCompaction(level, file) ==
  SetupOtherInputs(level, InitialInputs(level, file))

\* VersionSet::CompactRange: above level 0, files up to the size of one.
ManualInputs ==
  LET inputs == GetOverlappingInputs(current, manual.level,
                                     manual.begin, manual.end)
      before(f) == {g \in inputs : g # f /\ BySmallestKey(g, f)}
  IN IF manual.level = 0 THEN inputs
     ELSE {f \in inputs : TotalFileSize(before(f)) < options.max_file_size}

IsTrivialMove(c) ==
  /\ Cardinality(c.inputs0) = 1 /\ c.inputs1 = {}
  /\ TotalFileSize(c.grandparents) <= MaxGrandParentOverlapBytes

-----------------------------------------------------------------------------
(* What a compaction writes.                                               *)

Inputs(c) == EntriesOf(c.inputs0 \cup c.inputs1)

\* Faulty variant: the level below the output is not looked at.
IsBaseLevelFromNext(c, key) ==
  \A l \in (c.level + 3)..(kNumLevels - 1) :
    ~OverlapInLevel(c.version, l, key, key)

IsBaseLevelForKey(c, key) ==
  \A l \in (c.level + 2)..(kNumLevels - 1) :
    ~OverlapInLevel(c.version, l, key, key)

\* Faulty variant: the snapshots are forgotten.
DroppedUnlessNewest(c, e) ==
  \/ \E d \in Inputs(c) : d.key = e.key /\ d.seq > e.seq
  \/ e.type = "deletion" /\ IsBaseLevelForKey(c, e.key)

\* An entry hidden from every snapshot by a newer one, or a deletion with
\* nothing left below it to hide.
Dropped(c, e) ==
  \/ \E d \in Inputs(c) : /\ d.key = e.key /\ d.seq > e.seq
                            /\ d.seq <= c.smallest_snapshot
  \/ /\ e.type = "deletion" /\ e.seq <= c.smallest_snapshot
     /\ IsBaseLevelForKey(c, e.key)

\* The entry the merging iterator is at.
Key(c) == smallest([entries |-> c.rest])

\* The compaction after its iterator has moved past entry e.  An output that
\* overlaps too much of the grandparents is closed before e; passed are the
\* grandparents already behind, overlapped their size since the last stop.
ShouldStopBefore(c, e) ==
  LET passed == {g \in c.grandparents : InternalKeyLess(largest(g), e)}
      overlapped == c.overlapped +
        IF c.seen_key THEN TotalFileSize(passed \ c.passed) ELSE 0
      stop == overlapped > MaxGrandParentOverlapBytes
  IN [c EXCEPT !.rest = @ \ {e}, !.seen_key = TRUE, !.passed = passed,
               !.overlapped = IF stop THEN 0 ELSE overlapped,
               !.open = @ /\ ~stop]

-----------------------------------------------------------------------------
(* Clients.                                                                *)

Init ==
  /\ options \in Settings
  /\ last_sequence = 0 /\ history = {}
  /\ mem = {} /\ imm = {} /\ has_imm = FALSE
  /\ current = [l \in Levels |-> {}]
  /\ disk = {} /\ next_file = 1 /\ pending_outputs = {}
  /\ compact_pointer = [l \in CompactLevels |-> {}]
  /\ file_to_compact = {} /\ snapshots = {}
  /\ held = [r \in Readers |-> {}]
  /\ flush = 0 /\ compaction = NoCompaction
  /\ manual = [state |-> "none", calls |-> 0]
  /\ bg_error = FALSE

\* One batch of one entry; DBImpl shows that groups are applied one by one.
Write(key, type) ==
  LET e == [key |-> key, seq |-> last_sequence + 1, type |-> type]
  IN /\ last_sequence < options.max_writes /\ ~bg_error
     /\ <<key, type>> \in options.writes
     /\ mem' = mem \cup {e} /\ history' = history \cup {e}
     /\ last_sequence' = last_sequence + 1
     /\ UNCHANGED <<imm, has_imm, clientVars, versionVars, flush,
                     compaction, manual, bg_error>>

SwitchMemTable ==
  /\ ~has_imm
  /\ imm' = mem /\ mem' = {} /\ has_imm' = TRUE

\* The memtable is full and MakeRoomForWrite replaces it.
MakeRoomForWrite ==
  /\ ~bg_error /\ mem # {}
  /\ SwitchMemTable
  /\ UNCHANGED <<last_sequence, history, clientVars, versionVars, flush,
                  compaction, manual, bg_error>>

GetSnapshot ==
  /\ options.snapshots
  /\ snapshots' = snapshots \cup {last_sequence}
  /\ UNCHANGED <<memVars, options, held, versionVars, flush, compaction,
                  manual, bg_error>>

ReleaseSnapshot(s) ==
  /\ s \in snapshots
  /\ snapshots' = snapshots \ {s}
  /\ UNCHANGED <<memVars, options, held, versionVars, flush, compaction,
                  manual, bg_error>>

\* A reader refers to the current version until it is done, and may then
\* charge a file of it with one seek too many.
BeginRead(r) ==
  /\ held[r] = {}
  /\ held' = [held EXCEPT ![r] = {current}]
  /\ UNCHANGED <<memVars, options, snapshots, versionVars, flush,
                  compaction, manual, bg_error>>

\* A lookup can go on from file f to another one, so f can be charged.
ReadAfter(level, f) ==
  \E l \in level..(kNumLevels - 1) : \E g \in current[l] :
    /\ l > level \/ (level = 0 /\ g # f)
    /\ Overlaps(g, smallest(f).key, largest(f).key)

EndRead(r) ==
  /\ held[r] # {}
  /\ held' = [held EXCEPT ![r] = {}]
  /\ \/ UNCHANGED file_to_compact
     \/ /\ held[r] = {current} /\ file_to_compact = {}
        /\ \E l \in CompactLevels : \E f \in current[l] :
             /\ ReadAfter(l, f)
             /\ file_to_compact' = {[level |-> l, file |-> f]}
  /\ UNCHANGED <<memVars, options, snapshots, current, disk, next_file,
                  pending_outputs, compact_pointer, flush, compaction,
                  manual, bg_error>>
\* CompactRange: flush the memtable, then compact level after level.
CompactRange(range) ==
  LET overlapping == {l \in 1..(kNumLevels - 1) :
                        OverlapInLevel(current, l, range[1], range[2])}
      max == CHOOSE m \in overlapping \cup {1} :
               \A l \in overlapping : l <= m
  IN /\ options.manual /\ manual.state = "none" /\ manual.calls < MaxManual
     /\ manual' = [state |-> "mem", calls |-> manual.calls + 1,
                   range |-> range, max_level_with_files |-> max]
     /\ UNCHANGED <<memVars, clientVars, versionVars, flush, compaction,
                     bg_error>>

\* TEST_CompactMemTable.  Another writer's group may take the NULL batch
\* along, and then the memtable is not replaced.
CompactMemTableCall ==
  /\ manual.state = "mem"
  /\ \/ ~bg_error /\ SwitchMemTable
     \/ UNCHANGED <<mem, imm, has_imm>>
  /\ manual' = [manual EXCEPT !.state = "memwait"]
  /\ UNCHANGED <<last_sequence, history, clientVars, versionVars, flush,
                  compaction, bg_error>>

Request(level, calls, range, max) ==
  IF level < max
  THEN [state |-> "level", calls |-> calls, level |-> level, range |-> range,
        begin |-> range[1], end |-> range[2], done |-> FALSE, set |-> FALSE,
        max_level_with_files |-> max]
  ELSE [state |-> "none", calls |-> calls]

CompactMemTableReturns ==
  /\ manual.state = "memwait" /\ (~has_imm \/ bg_error)
  /\ manual' = Request(0, manual.calls, manual.range,
                       manual.max_level_with_files)
  /\ UNCHANGED <<memVars, clientVars, versionVars, flush, compaction,
                  bg_error>>

\* TEST_CompactRange: one round of its loop, and its end.
ManualRound ==
  /\ manual.state = "level" /\ ~manual.done /\ ~manual.set /\ ~bg_error
  /\ manual' = [manual EXCEPT !.set = TRUE]
  /\ UNCHANGED <<memVars, clientVars, versionVars, flush, compaction,
                  bg_error>>

ManualEnds ==
  /\ manual.state = "level" /\ (manual.done \/ bg_error)
  /\ manual' = Request(manual.level + 1, manual.calls, manual.range,
                       manual.max_level_with_files)
  /\ UNCHANGED <<memVars, clientVars, versionVars, flush, compaction,
                  bg_error>>

\* The Sync of another thread's write fails.
WriteSyncFails ==
  /\ options.failures /\ ~bg_error
  /\ bg_error' = TRUE
  /\ UNCHANGED <<memVars, clientVars, versionVars, flush, compaction, manual>>

-----------------------------------------------------------------------------
(* The background thread.                                                  *)

\* The versions on VersionSet's list: the current one and those referred to.
Referred == (UNION {held[r] : r \in Readers})
            \cup IF Under(compaction) THEN {compaction.version} ELSE {}

\* Faulty variant: tables being written are not kept.
DeletePendingToo(files, live, pending) ==
  IF bg_error THEN files ELSE files \cap UNION {Numbers(v) : v \in live}

\* Faulty variant: only the version before the edit counts.
DeleteBeforeInstall(files, live, pending) ==
  IF bg_error THEN files ELSE files \cap (pending \cup Numbers(current))

DeleteObsoleteFiles(files, live, pending) ==
  IF bg_error THEN files
  ELSE files \cap (pending \cup UNION {Numbers(v) : v \in live})

\* The version after a compaction's edit, one level into the next.
Moved(version, level, deleted0, deleted1, added) ==
  [version EXCEPT ![level] = @ \ deleted0,
                  ![level + 1] = (@ \ deleted1) \cup added]

LogAndApply(version) ==
  /\ current' = version
  /\ file_to_compact' = {}

\* WriteLevel0Table: a number, then the table, built without the mutex.
BeginFlush ==
  /\ has_imm /\ flush = 0 /\ next_file <= MaxFileNumber
  /\ IF Under(compaction) THEN compaction.rest # {} ELSE ~bg_error
  /\ flush' = next_file /\ next_file' = next_file + 1
  /\ pending_outputs' = pending_outputs \cup {next_file}
  /\ disk' = IF imm = {} THEN disk ELSE disk \cup {next_file}
  /\ UNCHANGED <<memVars, clientVars, current, compact_pointer,
                  file_to_compact, compaction, manual, bg_error>>

EndFlush ==
  LET f == [number |-> flush, entries |-> imm]
      level == PickLevelForMemTableOutput(current, Low({f}), High({f}))
      version == IF imm = {} THEN current
                 ELSE [current EXCEPT ![level] = @ \cup {f}]
      pending == pending_outputs \ {flush}
  IN /\ flush # 0
     /\ LogAndApply(version)
     /\ imm' = {} /\ has_imm' = FALSE
     /\ flush' = 0 /\ pending_outputs' = pending
     /\ disk' = DeleteObsoleteFiles(disk, Referred \cup {version}, pending)
     /\ UNCHANGED <<last_sequence, history, mem, clientVars, next_file,
                     compact_pointer, compaction, manual, bg_error>>

\* BuildTable fails and removes its file, or the MANIFEST cannot be written.
FlushFails ==
  /\ options.failures /\ flush # 0
  /\ bg_error' = TRUE
  /\ pending_outputs' = pending_outputs \ {flush} /\ flush' = 0
  /\ disk' \in {disk, disk \ {flush}}
  /\ UNCHANGED <<memVars, clientVars, current, next_file, compact_pointer,
                  file_to_compact, compaction, manual>>
\* BackgroundCompaction with no memtable to flush.
CanCompact ==
  /\ ~bg_error /\ ~has_imm /\ flush = 0 /\ ~Under(compaction)

ManualSet == manual.state = "level" /\ manual.set

Start(c) ==
  /\ compaction' = c
  /\ compact_pointer' = [compact_pointer EXCEPT
                           ![c.level] = {InputLimit(c.inputs0)}]

BeginManual ==
  /\ CanCompact /\ ManualSet
  /\ IF ManualInputs = {}
     THEN /\ manual' = [manual EXCEPT !.done = TRUE, !.set = FALSE]
          /\ UNCHANGED <<compaction, compact_pointer>>
     ELSE /\ Start([SetupOtherInputs(manual.level, ManualInputs)
                     EXCEPT !.is_manual = TRUE])
          /\ UNCHANGED manual
  /\ UNCHANGED <<memVars, clientVars, current, disk, next_file,
                  pending_outputs, file_to_compact, flush, bg_error>>

\* BackgroundCompaction without a manual one set.
BeginCompaction(level, file) ==
  LET c == PickCompaction(level, file)
  IN /\ CanCompact /\ ~ManualSet /\ Picked(level, file)
     /\ ~IsTrivialMove(c)
     /\ Start(c)
     /\ UNCHANGED <<memVars, clientVars, current, disk, next_file,
                     pending_outputs, file_to_compact, flush, manual, bg_error>>

TrivialMove(level, file) ==
  LET c == PickCompaction(level, file)
  IN /\ CanCompact /\ ~ManualSet /\ Picked(level, file)
     /\ IsTrivialMove(c)
     /\ LogAndApply(Moved(current, level, c.inputs0, {}, c.inputs0))
     /\ compact_pointer' = [compact_pointer EXCEPT
                              ![level] = {InputLimit(c.inputs0)}]
     /\ UNCHANGED <<memVars, clientVars, disk, next_file, pending_outputs,
                     flush, compaction, manual, bg_error>>

\* A turn of DoCompactionWork's loop: entry e is dropped, goes into the open
\* output, or needs a new one.  In c the iterator is already past e.
DropEntry(e, c) ==
  /\ Dropped(compaction, e)
  /\ compaction' = c
  /\ UNCHANGED versionVars

\* The output is closed when it is big enough.
AddEntry(e, c) ==
  LET n == Len(c.outputs)
      entries == c.outputs[n].entries \cup {e}
  IN /\ ~Dropped(compaction, e) /\ c.open
     /\ compaction' = [c EXCEPT !.outputs[n].entries = entries,
                        !.open = Cardinality(entries) < options.max_file_size]
     /\ UNCHANGED versionVars

OpenCompactionOutputFile(e, c) ==
  LET f == [number |-> next_file, entries |-> {e}]
  IN /\ ~Dropped(compaction, e) /\ ~c.open
     /\ next_file <= MaxFileNumber
     /\ compaction' = [c EXCEPT !.outputs = Append(@, f),
                                !.open = 1 < options.max_file_size]
     /\ next_file' = next_file + 1
     /\ pending_outputs' = pending_outputs \cup {next_file}
     /\ disk' = disk \cup {next_file}
     /\ UNCHANGED <<current, compact_pointer, file_to_compact>>

\* The turn starts once the immutable memtable is flushed.
DoCompactionWork ==
  LET e == Key(compaction)
      c == ShouldStopBefore(compaction, e)
  IN /\ Under(compaction) /\ compaction.rest # {} /\ flush = 0
     /\ DropEntry(e, c) \/ AddEntry(e, c) \/ OpenCompactionOutputFile(e, c)
     /\ UNCHANGED <<memVars, clientVars, flush, manual, bg_error>>

\* The end of BackgroundCompaction reads manual_compaction_ again, which the
\* client has reset if it gave up meanwhile.  The next round begins where the
\* last of the inputs ends; in level 0 an earlier file may reach further.
ManualAfter(ok) ==
  IF ~compaction.is_manual THEN manual
  ELSE IF ~ManualSet THEN [manual EXCEPT !.state = "null"]
  ELSE [manual EXCEPT !.set = FALSE, !.done = ~ok,
                      !.begin = largest(LastOf(compaction.inputs0)).key]

OutputsPending == {compaction.outputs[i].number :
                     i \in DOMAIN compaction.outputs}

InstallCompactionResults ==
  LET c == compaction
      outputs == {c.outputs[i] : i \in DOMAIN c.outputs}
      version == Moved(current, c.level, c.inputs0, c.inputs1, outputs)
      pending == pending_outputs \ OutputsPending
  IN /\ Under(c) /\ c.rest = {} /\ flush = 0
     /\ LogAndApply(version)
     /\ compaction' = NoCompaction /\ pending_outputs' = pending
     /\ disk' = DeleteObsoleteFiles(disk, {version} \cup
                   UNION {held[r] : r \in Readers}, pending)
     /\ manual' = ManualAfter(TRUE)
     /\ UNCHANGED <<memVars, clientVars, next_file, compact_pointer, flush,
                     bg_error>>

CompactionFails ==
  /\ options.failures /\ Under(compaction) /\ flush = 0
  /\ bg_error' = TRUE
  /\ compaction' = NoCompaction
  /\ pending_outputs' = pending_outputs \ OutputsPending
  /\ manual' = ManualAfter(FALSE)
  /\ UNCHANGED <<memVars, clientVars, current, disk, next_file,
                  compact_pointer, file_to_compact, flush>>

Next ==
  \/ \E k \in Keys, t \in ValueTypes : Write(k, t)
  \/ MakeRoomForWrite
  \/ GetSnapshot
  \/ \E s \in snapshots : ReleaseSnapshot(s)
  \/ \E r \in Readers : BeginRead(r) \/ EndRead(r)
  \/ \E range \in Ranges : CompactRange(range)
  \/ CompactMemTableCall \/ CompactMemTableReturns
  \/ ManualRound \/ ManualEnds
  \/ WriteSyncFails
  \/ BeginFlush \/ EndFlush \/ FlushFails
  \/ BeginManual
  \/ \E l \in CompactLevels : \E f \in current[l] :
       BeginCompaction(l, f) \/ TrivialMove(l, f)
  \/ DoCompactionWork \/ InstallCompactionResults \/ CompactionFails

Spec == Init /\ [][Next]_vars

-----------------------------------------------------------------------------
(* Properties.                                                             *)

File == [number : 1..MaxFileNumber, entries : SUBSET Entry \ {{}}]

\* The variables hold what their declarations say.
TypeOK ==
  /\ options \in Settings
  /\ last_sequence \in 0..MaxSequence
  /\ history \subseteq Entry /\ mem \subseteq Entry /\ imm \subseteq Entry
  /\ has_imm \in BOOLEAN /\ bg_error \in BOOLEAN
  /\ DOMAIN current = Levels
  /\ \A l \in Levels : \A f \in current[l] :
       f.number \in disk /\ f.entries # {} /\ f.entries \subseteq history
  /\ disk \subseteq 1..(next_file - 1)
  /\ pending_outputs \subseteq 1..(next_file - 1)
  /\ snapshots \subseteq 0..last_sequence

\* Get, at the last sequence number and at every live snapshot, returns the
\* newest write a reader at that number may see, or nothing after a deletion:
\* no memtable switch, flush, compaction or trivial move loses, hides or
\* resurrects an entry (DBImpl::Get, Version::Get, DoCompactionWork).
ReadsNewest ==
  \A k \in Keys : \A s \in snapshots \cup {last_sequence} :
    Found(Get(k, s)) = Found(Newest(history, k, s))

\* What the memtables and the current version hold.
Stored == mem \cup imm \cup EntriesOf(UNION {current[l] : l \in Levels})

\* The newest value of a key, as of now or of a live snapshot, is never lost:
\* whatever is dropped by a compaction that fixed its smallest snapshot before
\* it released the mutex, some table or memtable still has it.
VisibleKept ==
  \A k \in Keys : \A s \in snapshots \cup {last_sequence} :
    Found(Newest(history, k, s)) \subseteq Stored

\* Above level 0 the files of a level have disjoint ranges: FindFile's binary
\* search, and the assertion in Builder::MaybeAddFile, depend on it.
LevelsDisjoint ==
  \A l \in Levels \ {0} : \A f, g \in current[l] :
    f = g \/ InternalKeyLess(largest(f), smallest(g))
          \/ InternalKeyLess(largest(g), smallest(f))

\* The same, of a client that does not call CompactRange: a compaction that
\* the versions pick themselves has no gap between its inputs that a flush
\* could put its table into meanwhile.
DisjointUnlessManual == ~options.manual => LevelsDisjoint

\* Entries of a key get older from level to level, so that a search may stop
\* at the first level that has one (Version::Get).
NeverHop ==
  /\ \A l, m \in Levels : l < m =>
       \A d \in EntriesOf(current[l]), e \in EntriesOf(current[m]) :
         d.key = e.key => d.seq > e.seq
  /\ \A f, g \in current[0] : f.number < g.number =>
       \A d \in f.entries, e \in g.entries : d.key = e.key => d.seq < e.seq

\* DeleteObsoleteFiles, run by a flush or at the end of a compaction, leaves
\* every file that some version in use or a running compaction needs.
LiveFilesOnDisk ==
  /\ Numbers(current) \subseteq disk
  /\ \A r \in Readers : \A v \in held[r] : Numbers(v) \subseteq disk
  /\ Under(compaction) =>
       OutputsPending \cup Numbers(compaction.version) \subseteq disk

=============================================================================
