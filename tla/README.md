# TLA+ models of the photo map app and its storage

The repository is an iOS app in Swift (`my_testProj/my_testProj`, about 1,800
lines) on top of vendored libraries (`my_testProj/Pods`): Firebase clients in
Objective-C, and under them LevelDB, the C++ store that FirebaseDatabase keeps
its offline data in.
A user signs up or in, sees a map, takes or picks photos, saves them to
FirebaseStorage (the image) and FirebaseDatabase (the record), and looks at them
in a timeline by month that can be searched by tags.

What is hard to test in it is not in any one function. Requests overlap because
nothing disables the button; a save is a chain of three network calls that can
fail, be lost or be cut off by the end of the process at every link; the
database client sends again what it believes unanswered; state that was checked
or cached (the button, the lazy user, the table's row counts) is used later.
Below the app, LevelDB commits writes in groups, replaces logs and memtables while
a background thread builds tables, and must find everything again after a crash.
The modules here are about that.

## 1. Inventory

| Component | State | Operations | Interacts with | Hard behaviour | What makes it correct |
|---|---|---|---|---|---|
| Login screen, `AuthentificationViewController` | three text fields, first responder, segment, button, indicator | editing handlers, segment change, button, two completion blocks | FIRAuth by calls and blocks on the main queue; replaces the root controller | the button's check is stale at the tap; overlapping requests; a block that runs after the screen is gone | the button vouches for what is not being edited; passwords submitted are long enough; the indicator stops |
| FirebaseAuth client, `FIRAuth`, `FIRUser` (vendored) | current user, requests under way | createUser, signIn, look-up of the account, hand-over to the main queue | server, keychain | account made and answer lost; look-up fails after creation | no error means a signed-in user |
| `Repo` | lazy user and two lazy references, photos fetched | `savePhoto` and its callbacks, `getAllPhotos` | Storage, Database, `Auth.currentUser` | partial failure, kill between two links, forced casts, stale user | no record without image; every save ends; what was written can be read |
| FirebaseDatabase client (vendored) | outstanding puts, listeners, view of a node | setValue, acknowledgement, refusal, reconnection, single-event listener, export of a node | server | lost answers, resending, order | an acknowledged record stays |
| FirebaseStorage client (vendored) | uploads under way | putData, downloadURL | server | error of one call ignored by the next | a URL only for a stored image |
| Timeline, `CategoryViewController` | sections, photos by section, search results, the table's counts | load, search, tap, back | `DetailPhotoViewController` | cached counts against current arrays, dictionary order | no index out of range, results once, the tap opens what the row stands for |
| Grouping by month, `dividePhotosIntoSections`, `DateArrayConversionHelper` | none | two algorithms | | years, order, first element | a partition by month |
| Map, `MapViewController` | photo under way, navigation mode | fetch on load, picker, long press, drag | image picker, `NewPhotoViewController` | hand-over of the photo while the picker goes away | the photo confirmed is the one picked |
| New photo, `NewPhotoViewController` | its copy of the photo | title, category, done, cancel | `Repo.savePhoto` | a value copy edited on one screen | what is saved is what was edited |
| LevelDB writes, `DBImpl` (vendored) | writer queue, memtables, logs, MANIFEST, background thread | Write, MakeRoomForWrite, flush, level-0 compaction, close, Open and recovery | file system, `env_->Schedule`, two condition variables | group commit without the mutex, a failing or half-done file operation, a crash of process or machine at any point | what `WriteOptions::sync` promises; every call returns |
| LevelDB versions, `VersionSet`, `Compaction` (vendored) | files of each level, compaction pointers, snapshots, references, pending outputs | flush level, choice of inputs, dropping and cutting, trivial move, CompactRange, removal of files | `DBImpl`'s thread and mutex, readers | a flush in the middle of a compaction, stale versions, old entries kept by snapshots | reads return the newest entry; levels stay ordered; no file in use is removed |
| `DetailPhotoViewController`, `PhotoCategories`, `CategoryUtils`, date formatting | drawing | | | | |
| `AppDelegate` | none | configures Firebase at launch | | the keychain outlives the process | |

`PROJECT.json` lists them all with their status, and under `hazards` every place
in the code that is hard to test, with the properties that watch it.

## 2. Modules

| Module | Models |
|---|---|
| `Authentification` | login screen and the FIRAuth paths it uses |
| `AuthentificationProofs` | its theorems |
| `Repo` | saving and fetching, both Firebase clients and their servers, restarts |
| `RepoProofs` | its theorems |
| `Capture` | map, image picker, new-photo screen and the copies of the photo |
| `App` | `Authentification`, `Repo` and `Capture` over one `currentUser`: login, maps, saving, restarts |
| `AppProofs` | its theorems |
| `DateGrouping` | the two groupings as operators |
| `PhotoTimeline` | the table, the search and the full-screen photo; uses `DateGrouping` |
| `PhotoTimelineProofs` | the theorems of both |
| `DurableStore` | what LevelDB promises about a write, as a specification |
| `DurableStoreProofs` | what follows from that promise |
| `DBImpl` | LevelDB's write path, background thread, crashes and recovery; implements `DurableStore` |
| `DBImplProofs` | its inductive invariant and the safety theorems |
| `DurabilityProofs` | the proof that `DBImpl` implements `DurableStore` |
| `DBVersions` | LevelDB's levels, compactions, snapshots and file removal |
| `DBVersionsProofs` | its theorems: files in use, visible entries, levels, ages, reads |
| `MC*` | small instances, one per module |

Definitions keep the names of the source, misspellings included
(`uploaPhotodBean`, `didSingMethodChange`). An operator whose comment begins
"Faulty variant" is not part of any specification: it is a plausible bug that
shows that a property can fail.

### Authentification

`text`, `focus`, `segment`, `signEnabled` and `indicator` are the widgets,
`controller` tells whether the screen is shown, replaced by the map or
deallocated (`[weak self]` is then nil). `Focus(f)` is the end of editing of one
field followed by the beginning of editing of the next, as UIKit calls them;
`Type` changes the field being edited; `didSingMethodChange` and
`didSignButtonClicked` are the other two controls. A tap appends to `requests`.
Each request goes through FIRAuth's stages (`Refuse`, `CreateAccount`,
`VerifyPassword`, `ServerError`, `RetrieveUser`, `RetrieveUserFails`), which may
create an account and lose the answer, and ends as an entry of `mainQueue`;
`Completion` runs the block at its head. A string is known by its length and
identity.

The button starts enabled, with the storyboard's texts "Password" and "Confirm
password" in the fields: that is what `Init` says.

### Repo

A save is known by its number and its stage: `uploading`, `url` (asking for the
download URL), `put` (its record is among the outstanding puts), and then
`acked`, `failed` or `lost` with the process. `StorageStores` is separate from
`putDataEnds` because an upload can be stored and reported as failed, and the
block asks for the URL in both cases. `puts` is the client's ordered dictionary
of outstanding puts; `ServerApplies` and `ServerAcks` are separate, and
`Reconnect` between them makes the put be applied twice. An answer to a put that
comes while a listen is unanswered (`unackedListensCount`) waits in `putsToAck`
with the put's completion until the last listen is answered (`ListenResponse`,
`ackPuts`); a lost connection sets the count to 0 and leaves `putsToAck` for the
next one. Answers to puts and to listens may come in any order.
`owner` is the lazy
`currentUser` with the two references made from it. `view` is the node as the
client sees it, the server's data under its own puts not yet completed, and
`isDictionary` the rule of `FChildrenNode.valForExport`. `process` records how
the process ended: a failed forced cast or an empty path. A put sent on a
connection that is lost is applied before anything of the next connection, or
never: the model does not let an old connection deliver late. `Relaunch` may happen
at any moment and forgets everything in memory; the database client's disk
persistence is off in this app.

### App

A successful completion block makes a tab bar controller the root; its map loads
afterwards (`MapLoads`) and fetches. Two successes make two maps, and the second
replaces the first with whatever is being edited over it. `doneButton` of
`Capture` and `Repo.savePhoto` are one step. `Relaunch` starts at the login screen with the keychain's user and the server's accounts.
`RefinesRepo` states that the composition uses `Repo` only as `Repo`'s own
specification allows, so the results about `Repo` carry over.

### Capture

`screen` is what UIKit shows on top of the map. `Photo` is a Swift value: the
new-photo screen, the full-screen view and `savePhoto` each have a copy, and
`textViewDidChange` and `update(with:)` are what keep the screen's copy equal to
its fields. After a pick UIKit may or may not present the new-photo screen,
because the segue is performed while the picker is being dismissed; both outcomes
are allowed. Only the name and the category of a photo are kept; every picked
photo gets the same sample name, date, image and id from the code.

### PhotoTimeline and DateGrouping

The table keeps the counts it was told (`tableRows`), and a tap is on one of
those rows. A search text is whether it is empty and its words; a tag is
contained in a photo's name or not. Swift leaves the order of a dictionary open;
it is chosen once, when the dictionary is filled. The two
groupings have no state: the instance keeps an array of dates, `inputArray`, beside
the timeline and checks them on each.

### DurableStore and DBImpl

`DurableStore` is the comment on `WriteOptions::sync` as a state machine: `kept`
are the writes a process crash leaves, `synced` those a machine crash leaves too.
A write may be acknowledged once it is in `kept`, and one that asked for sync once
it is in `synced`. What is not acknowledged may turn up or not, and a write that was
rejected after it had reached the log may go again with that log.

`DBImpl` gives each thread inside `Write` a program counter. An action is what the
thread does between taking and releasing `mutex_`, or one call made without it:
`AddRecord`, `SyncLog` and `InsertInto` of the front writer, the building of a
table, the writing of the MANIFEST. A batch is one entry, named by its call.
`GroupSizes` are the groups `BuildBatchGroup` can make; a size limit may end a
group before any batch. The actions named `Room...` are the branches of
`MakeRoomForWrite` in their order. Waiting on `bg_cv_` is the counter `bgwait` or
`immwait`, which only `SignalAll` leaves.

On disk are `log` (records and how many of them are synced), `tables`, the MANIFEST
as it is for certain (`manifest`), and what it may say instead while, or after, an
edit is written (`manifest_edit`). A machine crash keeps the synced records of each
log and any number of the others; tables and the MANIFEST are synced before they
are used. `Recover` chooses what the MANIFEST turns out to hold; `RecoverLogFile`
replays one log, oldest first, into memtables that `Filled` cuts where the code
writes one out (`Memtables`); `OpenLog` and `Opened` are the rest of `DB::Open`.
`reuse_logs` is off, as by default. Compactions here only take files out of level
0; the flush a compaction makes on the way is in `DBVersions`.

The refinement `KeepsPromises` maps `kept` to the calls found from every state the
MANIFEST may be in with all of the logs, `synced` to those found with their synced
part. Nothing is recorded for the mapping: it is computed from the files.

### DBVersions

An entry is a key, a sequence number and a type, and counts as one byte, so that a
table is the set of its entries and a size is a cardinality. The choice of files
(`PickCompaction`, `SetupOtherInputs`, `ManualInputs`,
`PickLevelForMemTableOutput`, `GetOverlappingInputs`) is the code's, deterministic
given the version; what sets a compaction off by seeks is a choice among the files
a lookup can charge.

The work without the mutex is split: a compaction is picked, `DoCompactionWork` is
one turn of its loop, the results are installed, and writes, snapshots, reads and
flushes of the immutable memtable (`BeginFlush`, `EndFlush`) come between any two of
these. A turn takes the smallest entry left of the inputs (`Key`), lets
`ShouldStopBefore` close the open output, and drops the entry (`DropEntry`), adds it
to the open output (`AddEntry`) or opens an output for it
(`OpenCompactionOutputFile`). `Dropped` says of an entry what the loop's
`last_sequence_for_key` says when it reaches it: a newer entry of the key, at or
below the smallest snapshot, was read before. `history` holds all that was ever
written and is only used by the properties.

`options` is chosen once. It says how big outputs are and which of snapshots,
manual compactions and failing I/O occur, so that one run covers four kinds of
client.

## 3. Runs

| Run | Instance | Shows |
|---|---|---|
| `auth_safety` | 2 addresses, passwords of 0, 5 and 6 symbols, 2 requests | types; `EnabledMeansChecked`; `SignUpPasswordLongEnough`; `IndicatorMeansWaiting`; `SignInOpensForItsUser` |
| `auth_liveness` | 1 address, 2 requests, fair | `IndicatorStops`, `SuccessOpensMap` |
| `repo` | 2 users, 3 keys, 2 saves, 1 fetch, 1 reconnection, 2 launches, fair | types; `ImageBeforeRecord`; `PutsMatchSaves`; `AckedDurable`; `OncePerFetch`; `DeferredAwaitsListen`; `SavesSettle` |
| `app_owner` | 2 addresses, 2 requests, 2 fetches, 2 launches | `OwnerSignedIn`, `StaleOwnerNeedsOverlap` |
| `app_capture` | 1 address, 1 request, 1 photo, 1 save, 1 reconnection, 2 launches | `DetailShowsEdited`, `SavedAsShown`, `RefinesRepo` |
| `timeline_safety` | the 9 photos of `viewDidLoad`, 7 search texts, all 5,040 dictionary orders; all arrays of up to 5 of 5 dates in 3 months | types; `RowsInBounds`; `FilteredOnce`; `OpenedBelongs`; `DivideGroupsByMonth`, `SortedGroupsByMonth` |
| `leveldb_writes` | 3 calls, full memtable after 2 entries, level 0 slows at 1 file and stops at 2, 1 closing or process crash, 1 machine crash, 1 failing I/O (an AddRecord that leaves nothing or all of its record included) | types; `AckedVisible`; `ManifestFilesExist`; `SequencesUnique`; `KeepsPromises` |
| `leveldb_progress` | 3 calls, full memtable after 1 entry, a torn AddRecord and another failing I/O, fair | `CallsReturn` |
| `leveldb_versions` | 4 puts of 3 keys, or 3 writes of 2 keys with snapshots, `CompactRange` or failing I/O; 3 levels, 1 reader, 7 tables | types; `DisjointUnlessManual`; `NeverHop`; `ReadsNewest`; `VisibleKept`; `LiveFilesOnDisk` |

Three runs end in a violation on purpose; each is a disagreement between the
code and something the repository says, and has an entry under `findings`:

| Run | Property | What happens |
|---|---|---|
| `repo_casts` | `CastsSucceed` | fetching a record the app saved traps on a forced cast, when the node is exported as a dictionary: beside another client's child whose key is no small number |
| `app_path` | `PathsNonEmpty` | createUser succeeds with a nil user when the look-up of the new account fails; the map opens and fetches from `child("")`, which raises |
| `leveldb_split` | `NeverHop` | a snapshot older than the newer entry keeps two entries of a key, a compaction cuts them into two files, the next one moves the newer entry below the older |

`leveldb_versions` checks `NeverHop` and `ReadsNewest` for clients that cannot cut a
key's entries: small outputs without snapshots, or snapshots with outputs that are
never full. Snapshots with small outputs are the subject of `leveldb_split`.

Smaller ones that the models show by their definitions and no run is spent
on:

* `isPasswordValid` accepts 6 symbols while its warning asks for more than 6, and
  a tap while a field is being edited submits an empty email or password;
* a node that holds only the record with key "1" is exported as an array, which
  `getAllPhotos` reports as null;
* `didSelectRowAt` compares a row with the number of sections, and a cell of the
  timeline is filled from another array than the one its tap opens;
* LevelDB: an `AddRecord` that fails half way sets no background error, so that
  later writes are acknowledged behind a torn record and may be skipped by the
  replay (`AddRecordTears`; `leveldb_writes` has `MaxTorn = 0`, and with 1
  `KeepsPromises` fails). One that reports an error with nothing or all of its
  record in the file (`AddRecordFails`) counts as failing I/O and is in both runs;
* LevelDB: a manual compaction of two files with a gap between them, and a flush
  into the gap meanwhile, leave overlapping files in a level, against the assertion
  in `VersionSet::Builder::MaybeAddFile`. TLC finds it with three keys and five
  writes; `DisjointUnlessManual` therefore claims nothing for clients of
  `CompactRange`;
* LevelDB: a background error makes `TEST_CompactRange` reset `manual_compaction_`,
  which `BackgroundCompaction` dereferences when it ends (`ManualAfter` marks it
  `null`);
* LevelDB: the NULL batch of `TEST_CompactMemTable` may be taken along by another
  group, and then the memtable is not replaced.

### Bounds

Two requests are enough for every overlap the screen can show: the block of one
runs between any two steps of the other, and the properties speak of the newest
request and of some request. Two saves to the same key and one reconnection give
the case that resending exists for (an older put resent after a newer one is
acknowledged); two launches give a kill at every point and a run after it. Two
users give a change of user between saves. The server holds at the start, under
one key, nothing, a complete record of another client, or a value that is no
record.

Three LevelDB calls give a leader, a follower in its group and a writer that must
not join it. One process and one machine crash, in either order, put a recovery
between two crashes; one failing I/O can hit the log's record or its sync, a table,
the MANIFEST or the opening. A behaviour that needs more file numbers than the bound stops
there; in `leveldb_progress` the bound is never reached, or `CallsReturn` would
fail. Three writes fill level 0 and leave a memtable to flush during
its compaction, and three levels are the fewest in which a deletion can
be dropped too early. Four puts of three keys give a compaction whose input spans
a key it does not hold while a flush writes that key. The clients that take snapshots,
compact by hand or meet failing I/O write two keys, put and deleted, to stay in TLC's reach. Level sizes, triggers and factors are the code's constants
scaled down to one or two entries; calls are interchangeable in `leveldb_writes`,
which uses their symmetry.

Deadlock checking is off where the bounds, or the end of the process,
really stop the model; the timeline never stops and is checked for deadlock.

### Fairness

`Authentification` assumes that network calls of FIRAuth end (its fetcher has a
timeout and calls its block with an error) and that the main queue is drained.
`Repo` assumes the same of the storage calls, and that the server answers the
puts of a connection that stays. The bound on reconnections is what lets a
connection stay. Nothing is assumed of the user, of the server's decisions, of
fetches, or of restarts. `DBImpl` assumes that a thread inside `Write` that is not
waiting goes on, and that the function given to `env_->Schedule` is run to its end:
`PosixEnv` has a thread of its own for it. A waiting thread gets nothing for free.

## 4. Proofs

Each theorem holds for every value of the constants that meets the module's named
assumptions: any users, keys, calls and files, any number of requests, saves,
crashes and failures, any limits.

### Login

`AuthentificationProofs`:

* `TypeCorrect`: `TypeOK`, strengthened by the fact that every answer on the main
  queue names a request that was made; without it, running a completion block
  could index outside `requests`.
* `ButtonVouches` and `SignUpPasswords`, together: the length of submitted
  passwords is not inductive alone, because the tap checks only that password and
  confirmation are equal. `EnabledMeansChecked` supplies the rest: at most one
  field is being edited, so one of two equal texts was checked.
* `IndicatorWaits`: `IndicatorMeansWaiting`, inductive with the types.
* `SignInOpens`: from `VerifiedMatchAccounts` (a request past verification still
  matches its account, since passwords are set once) and `SuccessHasUser` (a
  success waiting on the main queue already has a current user one of the
  sign-ins named).

Assumptions: lengths are natural numbers, only the empty text has length 0, the
storyboard's two texts are as long as the limit asks, the markers for "no user" and
"no password" are no texts.

### Repo

`RepoProofs` proves `RepoTypes`, `RecordsHaveImages` (`ImageBeforeRecord`),
`PutsInOrder` (`PutsMatchSaves`), `AckedRecordsStay` (`AckedDurable`),
`FetchedOnce` (`OncePerFetch`) and `DeferredCompletions` (`DeferredAwaitsListen`)
from one invariant, `RepoInvariant`. None of them is
inductive. That an acknowledged record stays depends on what a resent put can
overwrite, so the invariant follows the order in which saves called `setValue`:

* `IssuedOnce`, `IssuedStored`, `AllIssued`: a save calls it once, after its image
  is stored, and only such saves are among the puts or on the server;
* `AppliedPrefix`, `AppliedHeld`, `AckedHeld`: the server applies a connection's
  puts from the first on, and what it applied or acknowledged is still there or
  replaced by a save that called later;
* `AckedFirst`: an acknowledged save called before every outstanding put. This is
  what makes resending harmless: a resent put can only replace older records.

`FetchInv` counts the callbacks of a fetch and its unanswered listens. Assumptions: the markers (no user, no
id, unset, the contents of a record of another client) are told apart from each
other and from users, keys and save numbers, and there is at least one launch.

### App

`AppProofs`:

* `OwnerFromThisLaunch` (`OwnerSignedIn`) and `OwnerStaleByOverlap`
  (`StaleOwnerNeedsOverlap`), from `LoginInv`. Neither is inductive: when the map
  reads `Auth.currentUser`, nothing in the two says who that is. `UserInv` does: once
  a success waits on the main queue, or a map is open, the signed-in user is one a
  request of this launch named. `DoneInv` adds that a map is open only after a
  request has ended, so a user that changes later comes from another request;
  `AccountsKnown` that only requests for an account get as far as its look-up.
* `DetailIsEdited` and `SavedIsShown` (`DetailShowsEdited`, `SavedAsShown`), from
  `EditInv`: the copies of the photo equal the fields while the screen is up. It is
  proved step by step for the whole app, of which most steps leave the screens
  alone or take them away with their map.
* `AppUsesRepo` (`RefinesRepo`): each step of the app is a step of `Repo`, a change
  of the signed-in user that `Repo` allows its environment, or a stutter. The
  change of user needs `AccountsKnown`. So the theorems of `RepoProofs` hold in the
  app.

Assumption: what is typed and what the storyboard shows are texts, and the markers
are none.

### Timeline

`PhotoTimelineProofs` is for any photos, months, tags, texts and dictionary orders.
The loops are recursive functions, and what they compute is proved by induction over
their turns. The library's induction theorems take an operator and cannot be used;
`SetInduction` says the same of a set of numbers and follows from the
well-foundedness of `<`. For each loop a lemma first shows that the function exists
and has its equations (`DivideTurns`, `FilteredTurns`, `FilterTurns`), then an
invariant of one turn is carried to the last:

* `PhotosByMonth`: `dividePhotosIntoSections` leaves sections that partition the
  photos by month (`Divided`, kept by each turn in `AddPhotoDivides`);
* `SearchFinds` (`FilteredOnce`): each month's results are the tagged photos of that
  month, and months share no photo, so nothing is found twice (`ConcatLists`);
* `NoRowOutOfBounds` (`RowsInBounds`), `TapOpensItsPhoto` (`OpenedBelongs`) and
  `TimelineTypes` (`TypeOK`), with the fact that the table was told after the last
  change. That a count is at most `photoArray`'s length, which `cellForRowAt` relies
  on, is a statement about cardinalities (`ShorterList`).

Assumptions: the photos are different from each other, the empty text is one of the
texts and the only one that is empty, and the marker for no photo is none.

### LevelDB

`DurableStoreProofs` proves for any set of calls what the abstract specification
gives a client: `SyncedWritesLast` (whatever crashes, a write acknowledged with
sync is never lost) and `AckedWritesLast` (no acknowledged write is lost while only
processes crash). The invariant behind both adds that `synced` is part of `kept`:
without it a machine crash, which leaves a set between the two, could lose a synced
write. The specification has no assumptions.

`DBImplProofs` proves the invariant of the write path, `WritePathInvariant`, torn
records, failing I/O and all crashes included. It has three parts:

* `QueueInv`: each call inside `Write` is in the queue once, the first one alone is
  past waiting, and nothing is under way unless the database is open. The leader's
  unlocked work is safe because of this.
* `FileInv`: every version the MANIFEST may turn out to hold (`Manifests`) has its
  tables, with numbers and sequence numbers below its own (`VersionOK`); the edit
  on its way names what the installed version names, and a flush the immutable
  memtable too (`EditOK`); a log that recovery has read is in the tables it built
  (`Recovering`); the log in use is the newest (`Running`, `Applying`).
* `EntryInv`: an entry in the logs a version needs is in a memtable, in a table, in
  the group under way, or belongs to a write that failed once its record was written (`MemHolds`); all
  that memory, logs and tables hold is below the last sequence number or in the
  group (`LiveBelow`), and one number is one entry (`LiveUnique`).

From it follow `WritePathTypes`, `ManifestsHaveTheirFiles` (`ManifestFilesExist`),
`NoSequenceTwice` (`SequencesUnique`) and `AcknowledgedStaysVisible`
(`AckedVisible`). The last two are far from inductive: that a sequence number is not
given twice needs what recovery takes from the tables and the logs, and where
entries may be at every point of a flush.

`DurabilityProofs` proves the refinement, `WritePathKeepsPromises`:
`Spec => KeepsPromises` when `MaxTorn = 0`. Initial states map to initial states and
each step to a step of `DurableStore` or to a stutter:

* no step but a machine crash takes anything but rejected writes away from what
  recovery is sure to find (`NothingLost`): for every version the MANIFEST may hold after the step there
  is one before it with no more in its tables and logs (`StepKeeps`). A flush is the
  hard case: the new version gives up the old log and has the table instead, with
  all of the log but the records of groups that failed;
* a machine crash leaves at least the synced part and invents nothing
  (`CrashKeeps`);
* the calls a step answers, and only those, change state in `DurableStore`, each
  with what its answer needs: the whole group is in the log, and synced when one of
  its writers asked (`GroupSynced`, `GroupAnswered`).

With `SyncedWritesLast` and `AckedWritesLast` this is the promise of
`WriteOptions::sync` for LevelDB's write path as modelled. The hypothesis `MaxTorn = 0` says that no
failing `AddRecord` leaves part of a record; it may leave the whole of it or nothing.
It cannot be dropped: with `MaxTorn = 1` TLC finds a
write that is acknowledged behind a torn record and skipped by the replay, as noted
in section 3. The invariant and the other four theorems do not need it.

`DBVersionsProofs` is about any keys, levels, limits, readers and writes. Four
invariants build on each other.

* `DataInv`, for all clients: sequence numbers are given once, and memtable, immutable
  memtable and levels are newer than one another in this order (`MemInv`,
  `VersionInv`); the inputs of a compaction stay in the current version until its end,
  whatever is flushed meanwhile (`Plan`); its smallest snapshot is at or below what any
  reader uses (`Oldest`); its outputs are in order and hold exactly what was read and
  not dropped (`Written`). `NothingVisibleLost` (`VisibleKept`) follows: an entry that
  is dropped is hidden, for every snapshot there is or will be, by a newer one that is
  kept, or is a deletion. It needs no hypothesis on the client.
* `FileInv`: file numbers are below `next_file` and given once; a table being flushed is
  of no version yet and on disk; the outputs of a compaction stay pending until they are
  installed, also when the thread flushes a memtable, and removes files, half way
  through the compaction. `DeleteObsoleteFiles` decides by the versions and by
  `pending_outputs_`, so this is what `NoFileInUseRemoved` (`LiveFilesOnDisk`) and
  `Typed` (`TypeOK`) need.
* `DisjInv`, if no client calls `CompactRange`: each file of the next level that is no
  input lies before all inputs or after them all (`Aside`). A flush may add such a file
  during the compaction. It overlaps no input, and then cannot be between two of them
  because the inputs `PickCompaction` chooses leave no gap (`Contiguous`, which
  `ContiguousInputs` shows of `SetupOtherInputs` and of level 0's growing range).
  `LevelsStayDisjoint` is `DisjointUnlessManual`, this hypothesis and conclusion.
* `HopInv`, if no client takes snapshots: a compaction then leaves one entry of a key,
  so a key is in one file of each level above 0 (`SingleFile`); what is in the
  compaction's level and no input is newer than the inputs, and what was flushed below
  meanwhile has none of their keys (`Beside`); the newest entry of a key is stored, or
  is a deletion with nothing left to hide (`NewestKept`). `EntriesAge` is `NeverHop`
  under this hypothesis.

`GetReadsNewest` combines the last two: for clients that do neither, `Get` returns the
newest write of each key at every moment. The vendored FirebaseDatabase is such a
client: nothing in `Pods` outside LevelDB calls `GetSnapshot` or `CompactRange`. The
hypotheses cannot be dropped: with snapshots `NeverHop` fails (`leveldb_split`), and
with `CompactRange` a flush can go into a gap of the inputs (section 3).

The choices in the code (`FindFile`, `GetRange`, the growing range of level 0,
`PickLevelForMemTableOutput`) are `CHOOSE` expressions. That each has a value, and which,
is proved first, from least and greatest elements of sets of numbers (`LeastOf`,
`GreatestOf`). Assumptions: keys are finitely many natural numbers (any set in the
comparator's order), at least two levels, positive limits.

### Only model-checked

* Liveness under fairness (`IndicatorStops`, `SuccessOpensMap`, `SavesSettle`,
  `CallsReturn`): this prover does not do it.
* `SortedGroupsByMonth` and the order of sections in `DivideGroupsByMonth`: `sortDateByMonth` sorts with `SortSeq`, a choice among
  permutations, and the reference definition uses `SelectSeq`, which the provers do
  not know.
* `NeverHop` and `ReadsNewest` for a client with snapshots, and `ReadsNewest` for a
  client of `CompactRange`, which needs disjoint levels: they hold in the instance of
  `leveldb_versions` and not in general (section 3).

## 5. Not modelled

MapKit regions, tracking mode and annotations, location permissions, zoom, bars
and colours: calls into UIKit without state of the app's own. `PhotoCategories`
changes no state, and the three category switches of `Repo` are never used.
`SecondViewController` is an empty template. `updateViewTable` and the
`showDetail` segue of the timeline are never reached. Of the Firebase clients
only what the app calls is modelled.

Of LevelDB: the byte formats of logs, tables and the MANIFEST, checksums and
`paranoid_checks`, the table and block caches, filters, the skip list, merging
iterators and `db_iter.cc`, `RepairDB`, `DestroyDB` and the C binding. They are
data structures and encodings: the models take a table to be the set of its entries
and a record to be read whole or not at all. FirebaseDatabase opens LevelDB only
when persistence is enabled, which this app does not do; its storage engine
(`FLevelDBStorageEngine`) is not modelled.

Most of the repository's lines are C and C++ of BoringSSL, gRPC, Protobuf and
nanopb, with tables and generated headers among them. The app reaches them only
through Firebase, they are developed elsewhere, and their core is cryptography and
wire formats, which say little as state machines of this size.

## 6. Plan

1. Done: `Authentification`, `Repo`, `App` (with `Capture`), `PhotoTimeline` (with
   `dividePhotosIntoSections`), `DurableStore` and `DBImpl` with proofs, both
   refinements included; `DBVersions`, compaction by single entries, with the proofs
   that nothing in use or visible is lost and that reads return the newest entry.
2. Snapshots whose outputs are never cut inside a key: the missing case of
   `GetReadsNewest`, if `DoCompactionWork` ended outputs between keys only.
3. `sortDateByMonth` by the same induction as `dividePhotosIntoSections`, with sorting
   given by its properties.
4. The record format of `log_writer.cc` and `log_reader.cc`, so that a torn record is
   read as the code reads it.
