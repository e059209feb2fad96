-------------------------------- MODULE App ---------------------------------
(***************************************************************************)
(* The app: the login screen, FIRAuth, the map that a successful request   *)
(* opens, the photos captured on it, and Repo, which the map makes read    *)
(* Auth.currentUser.                                                       *)
(*                                                                         *)
(* Authentification and Repo share currentUser; Capture's doneButton calls *)
(* Repo.savePhoto.  The keychain keeps the user over launches, and every   *)
(* launch starts at the login screen.                                      *)
(***************************************************************************)
EXTENDS Integers, Sequences, FiniteSets

CONSTANTS
  \* of Authentification
  Texts, Empty, count, EmailInputs, PasswordInputs, PasswordText, ConfirmText,
  NoUser, NoPassword, MinPassword, MaxRequests,
  \* of Repo
  Keys, intForString, NoId, PhotoIds, AutoKeys, ForeignKeys, Complete, Scalar,
  Absent, Unset, MaxSaves, MaxFetches, MaxReconnects, MaxLaunches,
  \* of Capture
  Titles, Categories, DefaultCategory, SampleTitle, NoPhoto, MaxPicks

\* The texts of the login screen; "no user" and "unset" are none of them.
ASSUME AppAssumption ==
  /\ {Empty, PasswordText, ConfirmText} \cup EmailInputs \cup PasswordInputs
        \subseteq Texts
  /\ NoUser \notin Texts /\ Unset \notin Texts

VARIABLES
  \* of Authentification
  segment, text, focus, signEnabled, indicator, controller, requests,
  mainQueue, accounts,
  \* shared
  currentUser,
  \* of Repo
  process, launches, owner, saves, images, puts, issued, reconnects, db,
  fetches, fetchCount, photosForDownload, unackedListensCount, putsToAck,
  \* of Capture
  screen, picks, photo, editTextView, categoryViewText, detailPhoto,
  savedPhoto,
  \* the map
  mapsToLoad,   \* tab bar controllers made root whose map has not loaded yet
  mapLoaded     \* the viewDidLoad of the root's map has run

authVars == <<segment, text, focus, signEnabled, indicator, controller,
              requests, mainQueue, accounts>>
repoVars == <<process, launches, owner, saves, images, puts, issued,
              reconnects, db, fetches, fetchCount, photosForDownload,
              unackedListensCount, putsToAck>>
captureVars == <<screen, picks, photo, editTextView, categoryViewText,
                 detailPhoto, savedPhoto>>
mapVars == <<mapsToLoad, mapLoaded>>
vars == <<authVars, currentUser, repoVars, captureVars, mapVars>>

\* A user is known by the email of the account.
Users == EmailInputs \ {Empty}

A == INSTANCE Authentification
R == INSTANCE Repo
C == INSTANCE Capture

----------------------------------------------------------------------------
Init ==
  /\ A!Init
  /\ R!Init
  /\ C!Init
  /\ mapsToLoad = 0
  /\ mapLoaded = FALSE

\* The login screen and FIRAuth go on as long as the process does.
Login ==
  /\ process = "running"
  /\ \/ A!User
     \/ \E i \in DOMAIN requests : A!FIRAuth(i)
     \/ A!Deinit
  /\ UNCHANGED <<repoVars, captureVars, mapVars>>

\* The screens over a map are gone with it.
captureEnds ==
  /\ screen' = "map"
  /\ picks' = 0
  /\ photo' = NoPhoto
  /\ editTextView' = SampleTitle
  /\ categoryViewText' = DefaultCategory
  /\ detailPhoto' = NoPhoto
  /\ savedPhoto' = NoPhoto

\* A completion block.  Without an error, and if the login screen is still
\* there to do it, a new tab bar controller becomes the root: a map that is
\* already open is replaced, with what is being edited over it.
LoginCompletes ==
  /\ process = "running"
  /\ A!Completion
  /\ IF Head(mainQueue).error \/ controller = "gone"
     THEN UNCHANGED <<mapVars, captureVars>>
     ELSE /\ mapsToLoad' = mapsToLoad + 1
          /\ mapLoaded' = FALSE
          /\ captureEnds
  /\ UNCHANGED repoVars

\* Faulty variant: each map makes Repo look at the signed-in user again.
MapLoads_NewOwner ==
  /\ mapsToLoad > 0
  /\ process = "running"
  /\ fetchCount < MaxFetches
  /\ owner' = currentUser
  /\ fetches' = fetches + 1
  /\ fetchCount' = fetchCount + 1
  /\ mapsToLoad' = mapsToLoad - 1
  /\ mapLoaded' = TRUE
  /\ UNCHANGED <<authVars, captureVars, currentUser, process, launches, saves,
                 images, puts, issued, reconnects, db, photosForDownload,
                 unackedListensCount, putsToAck>>

\* MapViewController.viewDidLoad calls SAMPLE_FUNC, which fetches.
MapLoads ==
  /\ mapsToLoad > 0
  /\ R!getAllPhotos
  /\ mapsToLoad' = mapsToLoad - 1
  /\ mapLoaded' = TRUE
  /\ UNCHANGED <<authVars, captureVars>>

\* The screens over the map.
Browse ==
  /\ process = "running"
  /\ mapLoaded
  /\ C!Browse
  /\ UNCHANGED <<authVars, currentUser, repoVars, mapVars>>

\* doneButton saves the photo; the id is the same for every one picked.
PhotoSaved ==
  /\ mapLoaded
  /\ C!doneButton
  /\ \E id \in PhotoIds : R!savePhoto(id)
  /\ UNCHANGED <<authVars, mapVars>>

\* Callbacks, the servers and the connection.
Background ==
  /\ \/ \E s \in DOMAIN saves : R!StorageStores(s) \/ R!Callback(s)
     \/ R!Server
     \/ R!Reconnect
     \/ R!SnapshotArrives
     \/ R!ListenRefused
  /\ UNCHANGED <<authVars, captureVars, mapVars>>

\* The process starts again, at the login screen; accounts and the keychain's
\* user stay.
Relaunch ==
  /\ R!Relaunch
  /\ segment' = A!SignUp
  /\ text' = A!storyboardText
  /\ focus' = A!NoField
  /\ signEnabled' = TRUE
  /\ indicator' = FALSE
  /\ controller' = "shown"
  /\ requests' = <<>>
  /\ mainQueue' = <<>>
  /\ mapsToLoad' = 0
  /\ mapLoaded' = FALSE
  /\ captureEnds
  /\ UNCHANGED accounts

Next ==
  \/ Login
  \/ LoginCompletes
  \/ MapLoads
  \/ Browse
  \/ PhotoSaved
  \/ Background
  \/ Relaunch

Spec == Init /\ [][Next]_vars

----------------------------------------------------------------------------
(* Properties. *)

\* Repo works for a user who was named by a request of this launch, never for
\* one the keychain kept from an earlier launch.
OwnerSignedIn ==
  owner \in Users =>
    \E i \in DOMAIN requests : requests[i].email = owner

\* Repo's owner differs from the signed-in user only if a second request was
\* submitted before the map opened: the lazy property is read late enough.
StaleOwnerNeedsOverlap ==
  (owner # Unset /\ owner # currentUser) => Len(requests) > 1

\* The app uses Repo only as the stand-alone Repo allows, so what is shown of
\* Repo holds in the app.
RefinesRepo == R!Spec

\* The new-photo screen saves what it shows, with the rest of the app going on
\* underneath: late answers of the login, fetches, traps and restarts.
SavedAsShown == C!SavedAsShown

\* So does the full-screen view opened from it.
DetailShowsEdited == C!DetailShowsEdited

----------------------------------------------------------------------------
(* What the repository says of this code and the code does not do. *)

\* FValidation: a path given to child: "Must be a non-empty string".
PathsNonEmpty == process # "path"
=============================================================================
