-------------------------------- MODULE Repo --------------------------------
(***************************************************************************)
(* Repo: the singleton that saves photos to FirebaseStorage and            *)
(* FirebaseDatabase and fetches the records of the user's node.            *)
(*                                                                         *)
(* Saving is a chain of callbacks: upload the image under a fresh name, ask *)
(* for its download URL, write the record.  Several saves can be under way *)
(* and the process can be killed between any two links.  The database      *)
(* client keeps unacknowledged puts in order and sends them again after a  *)
(* reconnection, so a put can reach the server twice.  While a listen is   *)
(* unanswered it keeps the completions of answered puts back.              *)
(*                                                                         *)
(* A save is known by its number.  A record written by the app is the      *)
(* number of its save: title, timestamp and category, and no imageurl,     *)
(* latitude or longitude.  Records of other clients are in the node at the *)
(* start.                                                                  *)
(***************************************************************************)
EXTENDS Integers, Sequences, FiniteSets

CONSTANTS
  Users,          \* the uids of signed-in users
  NoUser,         \* Auth.currentUser == nil, whose uid is then ""
  Keys,           \* the keys of a user's node
  intForString,   \* FUtilities.intForString: a key's number, -1 if it has none
  NoId,           \* photo.id == nil
  PhotoIds,       \* the ids of the photos handed to savePhoto
  AutoKeys,       \* the keys childByAutoId can make
  ForeignKeys,    \* the keys under which other clients left something
  Complete,       \* a record with every field, of another client
  Scalar,         \* a child that is not a dictionary, of another client
  Absent,         \* no child
  Unset,          \* a lazy property not yet evaluated
  MaxSaves,       \* bound: saves
  MaxFetches,     \* bound: calls of getAllPhotos per launch
  MaxReconnects,  \* bound: losses of the database connection
  MaxLaunches     \* bound: launches of the app

ASSUME RepoAssumption ==
  /\ intForString \in [Keys -> Int]
  /\ PhotoIds \subseteq Keys \cup {NoId}
  /\ AutoKeys \subseteq Keys /\ ForeignKeys \subseteq Keys
  /\ MaxSaves \in Nat /\ MaxFetches \in Nat
  /\ MaxReconnects \in Nat /\ MaxLaunches \in Nat \ {0}
  /\ \A v \in {Complete, Scalar, Absent} : v \notin 1..MaxSaves

VARIABLES
  currentUser,        \* Auth.auth().currentUser
  process,            \* the app: running, or dead of a cast or of a path
  launches,           \* launches so far
  owner,              \* lazy Repo.currentUser, and with it both references
  saves,              \* every call of savePhoto
  images,             \* FirebaseStorage: the saves whose image is stored
  puts,               \* FPersistentConnection.outstandingPuts, in order
  issued,             \* history: the saves in the order of their setValue
  reconnects,         \* losses of the connection so far
  db,                 \* FirebaseDatabase: photos/<uid>/<key>
  fetches,            \* single-event listeners waiting
  fetchCount,         \* calls of getAllPhotos in this launch
  photosForDownload,  \* how often each key's photo was appended
  unackedListensCount,  \* FPersistentConnection: listens sent, not answered
  putsToAck           \* the saves answered whose completion is kept back

appVars == <<process, launches, owner>>
fetchVars == <<fetches, fetchCount, photosForDownload>>
listenVars == <<unackedListensCount, putsToAck>>
vars == <<currentUser, process, launches, owner, saves, images, puts, issued,
          reconnects, db, fetches, fetchCount, photosForDownload,
          unackedListensCount, putsToAck>>

----------------------------------------------------------------------------
Owners == Users \cup {NoUser}
SaveIds == 1..MaxSaves
Values == SaveIds \cup {Complete, Scalar, Absent}

Stages == {"uploading", "url", "put", "acked", "failed", "lost"}
Settled == {"acked", "failed", "lost"}
Saves == [id : PhotoIds, key : Keys \cup {NoId}, owner : Owners,
          stage : Stages]
Puts == [save : SaveIds, applied : BOOLEAN]

move(s, st) == saves' = [saves EXCEPT ![s].stage = st]

\* The lazy properties are evaluated once, at their first use.
lazyOwner == IF owner = Unset THEN currentUser ELSE owner

----------------------------------------------------------------------------
(* Saving. *)

savePhoto(id) ==
  /\ process = "running"
  /\ Len(saves) < MaxSaves
  /\ owner' = lazyOwner
  /\ saves' = Append(saves, [id |-> id, key |-> id, owner |-> lazyOwner,
                             stage |-> "uploading"])
  /\ UNCHANGED <<currentUser, process, launches, images, puts, issued,
                 reconnects, db, fetchVars, listenVars>>

\* The storage receives the image, whether the app hears of it or not.
StorageStores(s) ==
  /\ saves[s].stage = "uploading"
  /\ images' = images \cup {s}
  /\ UNCHANGED <<currentUser, appVars, saves, puts, issued, reconnects, db,
                 fetchVars, listenVars>>

\* putData ends, with or without an error: its block does not look at it and
\* asks for the download URL.
putDataEnds(s) ==
  /\ saves[s].stage = "uploading"
  /\ move(s, "url")
  /\ UNCHANGED <<currentUser, appVars, images, puts, issued, reconnects, db,
                 fetchVars, listenVars>>

\* childByAutoId: a key nobody uses.
freshKeys(u) ==
  {k \in AutoKeys : db[u][k] = Absent /\ \A t \in DOMAIN saves : saves[t].key # k}

\* FValidation: child: throws for an empty path, and the path is the owner's
\* uid, or "" without a user.
isValidPathString(u) == u # NoUser

\* The record goes into the outstanding puts at once.  An invalid path ends
\* the process.
uploaPhotodBean(s) ==
  IF ~isValidPathString(saves[s].owner)
  THEN /\ process' = "path"
       /\ UNCHANGED <<saves, puts, issued>>
  ELSE /\ \E k \in IF saves[s].id # NoId THEN {saves[s].id}
                   ELSE freshKeys(saves[s].owner) :
            saves' = [saves EXCEPT ![s] = [@ EXCEPT !.stage = "put", !.key = k]]
       /\ puts' = Append(puts, [save |-> s, applied |-> FALSE])
       /\ issued' = Append(issued, s)
       /\ UNCHANGED process

\* Faulty variant: the error of downloadURL is not looked at.
downloadURLFails_NoGuard(s) ==
  /\ saves[s].stage = "url"
  /\ uploaPhotodBean(s)
  /\ UNCHANGED <<currentUser, launches, owner, images, reconnects, db,
                 fetchVars, listenVars>>

\* downloadURL fails: there is no such image, or the server cannot be asked.
downloadURLFails(s) ==
  /\ saves[s].stage = "url"
  /\ move(s, "failed")
  /\ UNCHANGED <<currentUser, appVars, images, puts, issued, reconnects, db,
                 fetchVars, listenVars>>

\* downloadURL succeeds, which takes a stored image.
downloadURL(s) ==
  /\ saves[s].stage = "url"
  /\ s \in images
  /\ uploaPhotodBean(s)
  /\ UNCHANGED <<currentUser, launches, owner, images, reconnects, db,
                 fetchVars, listenVars>>

----------------------------------------------------------------------------
(* The database client and its server. *)

write(node, s) == [node EXCEPT ![saves[s].key] = s]

\* The server applies the first put it has not seen on this connection.
ServerApplies ==
  \E i \in DOMAIN puts :
    /\ ~puts[i].applied
    /\ \A j \in 1..i - 1 : puts[j].applied
    /\ LET s == puts[i].save IN
       db' = [db EXCEPT ![saves[s].owner] = write(@, s)]
    /\ puts' = [puts EXCEPT ![i].applied = TRUE]
    /\ UNCHANGED <<currentUser, appVars, saves, images, issued, reconnects,
                   fetchVars, listenVars>>

\* The oldest put is answered and no longer outstanding.  With a listen
\* unanswered its completion is kept back, and with it the client goes on
\* seeing the record it wrote.  Completion is all this is about: the block
\* Repo gives to setValue only changes a copy of the photo.
putAnswered ==
  /\ puts' = Tail(puts)
  /\ putsToAck' = IF unackedListensCount = 0 THEN putsToAck
                  ELSE Append(putsToAck, Head(puts).save)
  /\ UNCHANGED unackedListensCount

\* The server acknowledges the oldest put.
ServerAcks ==
  /\ puts # <<>>
  /\ Head(puts).applied
  /\ move(Head(puts).save, "acked")
  /\ putAnswered
  /\ UNCHANGED <<currentUser, appVars, images, issued, reconnects, db,
                 fetchVars>>

\* The server refuses the oldest put (security rules): it is taken back.
ServerRefuses ==
  /\ puts # <<>>
  /\ ~Head(puts).applied
  /\ move(Head(puts).save, "failed")
  /\ putAnswered
  /\ UNCHANGED <<currentUser, appVars, images, issued, reconnects, db,
                 fetchVars>>

\* Faulty variant: outstanding puts are not restored.
Reconnect_Forgets ==
  /\ process = "running"
  /\ reconnects < MaxReconnects
  /\ puts # <<>>
  /\ puts' = <<>>
  /\ reconnects' = reconnects + 1
  /\ UNCHANGED <<currentUser, appVars, saves, images, issued, db, fetchVars,
                 listenVars>>

\* Faulty variant: the dictionary's keys are not sorted before resending.
Reconnect_Unsorted ==
  /\ process = "running"
  /\ reconnects < MaxReconnects
  /\ puts # <<>>
  /\ puts' = [i \in DOMAIN puts |->
                [puts[Len(puts) + 1 - i] EXCEPT !.applied = FALSE]]
  /\ reconnects' = reconnects + 1
  /\ UNCHANGED <<currentUser, appVars, saves, images, issued, db, fetchVars,
                 listenVars>>

\* The connection is lost with its answers; restoreState sends the listen of
\* waiting listeners and every outstanding put again, in order, whether the
\* server had it or not.  onDisconnect starts the count of listens anew and
\* leaves the completions that are kept back where they are.
Reconnect ==
  /\ process = "running"
  /\ reconnects < MaxReconnects
  /\ puts # <<>> \/ unackedListensCount > 0
  /\ puts' = [i \in DOMAIN puts |-> [puts[i] EXCEPT !.applied = FALSE]]
  /\ unackedListensCount' = IF fetches > 0 THEN 1 ELSE 0
  /\ reconnects' = reconnects + 1
  /\ UNCHANGED <<currentUser, appVars, saves, images, issued, db, fetchVars,
                 putsToAck>>

----------------------------------------------------------------------------
(* Fetching. *)

\* Here too an invalid path ends the process.  Listeners of the one node
\* share a listen: only the first sends it.
getAllPhotos ==
  /\ process = "running"
  /\ fetchCount < MaxFetches
  /\ owner' = lazyOwner
  /\ fetchCount' = fetchCount + 1
  /\ IF ~isValidPathString(lazyOwner)
     THEN process' = "path" /\ UNCHANGED <<fetches, unackedListensCount>>
     ELSE /\ fetches' = fetches + 1
          /\ unackedListensCount' = IF fetches = 0 THEN unackedListensCount + 1
                                    ELSE unackedListensCount
          /\ UNCHANGED process
  /\ UNCHANGED <<currentUser, launches, saves, images, puts, issued,
                 reconnects, db, photosForDownload, putsToAck>>

\* The owner's node as the client sees it: the server's data under the
\* records of the puts whose completion has not run, the latest on top.
view ==
  LET pending == putsToAck \o [i \in DOMAIN puts |-> puts[i].save] IN
  [k \in Keys |->
     LET mine == {i \in DOMAIN pending : saves[pending[i]].key = k} IN
     IF mine = {} THEN db[owner][k]
     ELSE pending[CHOOSE i \in mine : \A j \in mine : j <= i]]

children(node) == {k \in Keys : node[k] # Absent}

\* FChildrenNode.valForExport makes an array of a node whose keys are numbers
\* and dense enough, null of an empty one, and a dictionary of any other.
isDictionary(node) ==
  LET ks == children(node) IN
  /\ ks # {}
  /\ \/ \E k \in ks : intForString[k] < 0
     \/ \E k \in ks : intForString[k] >= 2 * Cardinality(ks)

\* Faulty variant: the listener stays registered.
SnapshotArrives_KeepsListening ==
  /\ process = "running"
  /\ fetches > 0
  /\ IF ~isDictionary(view)
     THEN UNCHANGED <<process, photosForDownload>>
     ELSE IF \E k \in Keys : view[k] \in SaveIds
     THEN process' = "cast" /\ UNCHANGED photosForDownload
     ELSE /\ photosForDownload' =
               [k \in Keys |-> IF view[k] = Complete
                               THEN photosForDownload[k] + 1
                               ELSE photosForDownload[k]]
          /\ UNCHANGED process
  /\ UNCHANGED <<currentUser, launches, owner, saves, images, puts, issued,
                 reconnects, db, fetches, fetchCount, listenVars>>

\* The node's value arrives.  Anything but a dictionary counts as null;
\* getPhotoFromSnapShot skips a child that is no dictionary and traps, with
\* its forced casts, on a record that lacks a field.
SnapshotArrives ==
  /\ process = "running"
  /\ fetches > 0
  /\ fetches' = fetches - 1
  /\ IF ~isDictionary(view)
     THEN UNCHANGED <<process, photosForDownload>>
     ELSE IF \E k \in Keys : view[k] \in SaveIds
     THEN process' = "cast" /\ UNCHANGED photosForDownload
     ELSE /\ photosForDownload' =
               [k \in Keys |-> IF view[k] = Complete
                               THEN photosForDownload[k] + 1
                               ELSE photosForDownload[k]]
          /\ UNCHANGED process
  /\ UNCHANGED <<currentUser, launches, owner, saves, images, puts, issued,
                 reconnects, db, fetchCount, listenVars>>

\* Faulty variant: a refusal is heard by listeners that are gone.
ListenRefused_Gone ==
  /\ process = "running"
  /\ fetches' = fetches - 1
  /\ UNCHANGED <<currentUser, appVars, saves, images, puts, issued,
                 reconnects, db, fetchCount, photosForDownload, listenVars>>

\* Faulty variant: the completions wait for another answer.
listenAnswered_NoAckPuts ==
  /\ unackedListensCount > 0
  /\ unackedListensCount' = unackedListensCount - 1
  /\ UNCHANGED putsToAck

\* A listen is answered; with none left unanswered, ackPuts runs the
\* completions that were kept back.
listenAnswered ==
  /\ unackedListensCount > 0
  /\ unackedListensCount' = unackedListensCount - 1
  /\ putsToAck' = IF unackedListensCount = 1 THEN <<>> ELSE putsToAck

\* The server accepts a listen, or answers one that was given up.
ListenResponse ==
  /\ process = "running"
  /\ listenAnswered
  /\ UNCHANGED <<currentUser, appVars, saves, images, puts, issued,
                 reconnects, db, fetchVars>>

\* The server refuses the listen of the waiting listeners: they are taken
\* away, and no cancel block is given.
ListenRefused ==
  /\ process = "running"
  /\ fetches > 0
  /\ fetches' = 0
  /\ listenAnswered
  /\ UNCHANGED <<currentUser, appVars, saves, images, puts, issued,
                 reconnects, db, fetchCount, photosForDownload>>

----------------------------------------------------------------------------
(* The process. *)

\* Faulty variant: Repo.currentUser is read when the singleton is made.
Relaunch_EagerOwner ==
  /\ launches < MaxLaunches
  /\ launches' = launches + 1
  /\ process' = "running"
  /\ owner' = currentUser
  /\ saves' = [s \in DOMAIN saves |->
                 IF saves[s].stage \in Settled THEN saves[s]
                 ELSE [saves[s] EXCEPT !.stage = "lost"]]
  /\ puts' = <<>>
  /\ fetches' = 0
  /\ fetchCount' = 0
  /\ photosForDownload' = [k \in Keys |-> 0]
  /\ unackedListensCount' = 0
  /\ putsToAck' = <<>>
  /\ UNCHANGED <<currentUser, images, issued, reconnects, db>>

\* The app is killed, or started after a trap.  The client keeps nothing on
\* disk: callbacks, listeners and outstanding puts are gone.
Relaunch ==
  /\ launches < MaxLaunches
  /\ launches' = launches + 1
  /\ process' = "running"
  /\ owner' = Unset
  /\ saves' = [s \in DOMAIN saves |->
                 IF saves[s].stage \in Settled THEN saves[s]
                 ELSE [saves[s] EXCEPT !.stage = "lost"]]
  /\ puts' = <<>>
  /\ fetches' = 0
  /\ fetchCount' = 0
  /\ photosForDownload' = [k \in Keys |-> 0]
  /\ unackedListensCount' = 0
  /\ putsToAck' = <<>>
  /\ UNCHANGED <<currentUser, images, issued, reconnects, db>>

\* FIRAuth changes the signed-in user, at any time.
AuthChanges(u) ==
  /\ process = "running"
  /\ currentUser' = u
  /\ UNCHANGED <<appVars, saves, images, puts, issued, reconnects, db,
                 fetchVars, listenVars>>

----------------------------------------------------------------------------
Init ==
  /\ currentUser \in Owners
  /\ process = "running"
  /\ launches = 1
  /\ owner = Unset
  /\ saves = <<>>
  /\ images = {}
  /\ puts = <<>>
  /\ issued = <<>>
  /\ reconnects = 0
  /\ db \in [Users -> [Keys -> {Complete, Scalar, Absent}]]
  /\ \A u \in Users, k \in Keys \ ForeignKeys : db[u][k] = Absent
  /\ fetches = 0
  /\ fetchCount = 0
  /\ photosForDownload = [k \in Keys |-> 0]
  /\ unackedListensCount = 0
  /\ putsToAck = <<>>

\* A callback runs in a process that has not trapped.
Callback(s) ==
  /\ process = "running"
  /\ putDataEnds(s) \/ downloadURLFails(s) \/ downloadURL(s)

\* What was sent is applied even if the app has died; its answer needs the app.
Server ==
  \/ ServerApplies
  \/ process = "running" /\ (ServerAcks \/ ServerRefuses)
  \/ ListenResponse

Next ==
  \/ \E id \in PhotoIds : savePhoto(id)
  \/ \E s \in DOMAIN saves : StorageStores(s) \/ Callback(s)
  \/ Server
  \/ Reconnect
  \/ getAllPhotos
  \/ SnapshotArrives
  \/ ListenRefused
  \/ Relaunch
  \/ \E u \in Owners : AuthChanges(u)

Spec == Init /\ [][Next]_vars

\* Storage calls end (they time out); a connected server answers.
Fairness ==
  /\ \A s \in SaveIds : WF_vars(s \in DOMAIN saves /\ Callback(s))
  /\ WF_vars(Server)

FairSpec == Spec /\ Fairness

----------------------------------------------------------------------------
(* Properties. *)

\* The types of Repo's properties, of the client's queue of puts and of the
\* two servers' data; no listener is counted twice.
TypeOK ==
  /\ currentUser \in Owners
  /\ process \in {"running", "cast", "path"}
  /\ launches \in 1..MaxLaunches
  /\ owner \in Owners \cup {Unset}
  /\ saves \in Seq(Saves) /\ Len(saves) <= MaxSaves
  /\ images \subseteq SaveIds
  /\ puts \in Seq(Puts)
  /\ issued \in Seq(SaveIds)
  /\ reconnects \in 0..MaxReconnects
  /\ db \in [Users -> [Keys -> Values]]
  /\ fetches \in 0..MaxFetches
  /\ fetchCount \in 0..MaxFetches
  /\ photosForDownload \in [Keys -> Nat]
  /\ unackedListensCount \in 0..MaxFetches
  /\ putsToAck \in Seq(SaveIds)

\* A record on the server, or on its way there, has its image in the storage:
\* also when putData reported an error, the app was killed in between, or the
\* put was sent twice.
ImageBeforeRecord ==
  /\ \A u \in Users, k \in Keys : db[u][k] \in SaveIds => db[u][k] \in images
  /\ \A i \in DOMAIN puts : puts[i].save \in images

\* The client holds exactly one put for every record it still owes the
\* server, in the order of the setValue calls, through every reconnection.
PutsMatchSaves ==
  /\ \A s \in DOMAIN saves :
       saves[s].stage = "put" <=> \E i \in DOMAIN puts : puts[i].save = s
  /\ \A i, j \in DOMAIN puts :
       i < j => \E m, n \in DOMAIN issued :
                  m < n /\ issued[m] = puts[i].save /\ issued[n] = puts[j].save

\* The place of save s in the order of the setValue calls.
place(s) == CHOOSE i \in DOMAIN issued : issued[i] = s

\* An acknowledged record stays until a record written later replaces it:
\* resending older puts does not bring an older record back.
AckedDurable ==
  \A s \in DOMAIN saves :
    saves[s].stage = "acked" =>
      LET v == db[saves[s].owner][saves[s].key] IN
      v \in SaveIds /\ place(v) >= place(s)

\* No key's photo is appended more often than there were fetches that ended.
OncePerFetch ==
  \A k \in Keys : photosForDownload[k] + fetches <= fetchCount

\* A completion is kept back only for a listen that is on its way, so that
\* the answer to come runs it; after a lost connection, which takes the
\* answers along, that is no longer so.
DeferredAwaitsListen ==
  putsToAck # <<>> => unackedListensCount > 0 \/ reconnects > 0

\* Every save ends: its record is acknowledged, an error stopped it, or the
\* process died.
SavesSettle ==
  \A s \in SaveIds :
    (s \in DOMAIN saves) ~>
      (s \in DOMAIN saves /\ (saves[s].stage \in Settled \/ process # "running"))

----------------------------------------------------------------------------
(* What the repository says of this code and the code does not do. *)

\* The forced casts of getPhotoFromSnapShot assert that every record of the
\* node has the fields; the records Repo itself writes lack three of them.  A
\* node that holds nothing but the app's record, under "1", is exported as an
\* array and never reaches the casts; beside a child with another key it does.
CastsSucceed == process # "cast"
=============================================================================
