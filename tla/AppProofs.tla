----------------------------- MODULE AppProofs ------------------------------
(***************************************************************************)
(* Proofs about the composition: what the login, the maps and Repo's lazy  *)
(* user have to do with each other, what the screens show and save, and    *)
(* that the app uses Repo as Repo allows.  They hold for all texts and     *)
(* users and any number of requests, saves, fetches and launches.          *)
(***************************************************************************)
EXTENDS App, SequenceTheorems, TLAPS

----------------------------------------------------------------------------
(* The inductive invariant. *)

\* The screen's fields, and a queue of answers to requests that were made.
LoginTypes ==
  /\ segment \in {A!SignUp, A!SignIn}
  /\ text \in [A!Fields -> Texts]
  /\ focus \in A!Fields \cup {A!NoField}
  /\ requests \in Seq(A!Requests)
  /\ mainQueue \in Seq(A!Answers)
  /\ \A k \in DOMAIN mainQueue : mainQueue[k].request \in DOMAIN requests
  /\ DOMAIN accounts = Users
  /\ mapsToLoad \in Nat

\* Only requests for an account of the server get as far as its look-up.
AccountsKnown ==
  \A i \in DOMAIN requests :
    requests[i].stage = "account" => requests[i].email \in Users

\* A map was opened in this launch; its answer may still be waiting.
MapOpened == mapsToLoad > 0 \/ mapLoaded \/ owner # Unset
SuccessWaits == \E k \in DOMAIN mainQueue : ~mainQueue[k].error

\* The signed-in user, if any, is one a request of this launch named.
UserNamed ==
  \/ currentUser = NoUser
  \/ \E i \in DOMAIN requests : requests[i].email = currentUser

UserInv == MapOpened \/ SuccessWaits => UserNamed

\* No map opens before a request is over.
DoneInv == MapOpened => \E i \in DOMAIN requests : requests[i].stage = "done"

LoginInv ==
  /\ LoginTypes /\ AccountsKnown /\ UserInv /\ DoneInv
  /\ OwnerSignedIn /\ StaleOwnerNeedsOverlap

\* The copies of the photo are equal to the fields while they are shown.
EditInv ==
  /\ screen \in {"newPhoto", "detail"} => photo = C!shown
  /\ screen = "detail" => detailPhoto = photo

----------------------------------------------------------------------------
(* Steps of the login. *)

\* Moving request i to another stage changes nothing else of any request.
LEMMA StageUpdate ==
  ASSUME NEW rs \in Seq(A!Requests), NEW i \in DOMAIN rs, NEW st \in A!Stages,
         NEW q, q = [rs EXCEPT ![i].stage = st]
  PROVE  /\ q \in Seq(A!Requests)
         /\ Len(q) = Len(rs)
         /\ DOMAIN q = DOMAIN rs
         /\ \A j \in DOMAIN rs :
              /\ q[j].email = rs[j].email
              /\ q[j].stage = IF j = i THEN st ELSE rs[j].stage
<1> DEFINE e == [rs[i] EXCEPT !.stage = st]
<1>1. DOMAIN rs = 1..Len(rs) /\ \A j \in 1..Len(rs) : rs[j] \in A!Requests
  BY ElementOfSeq, LenProperties
<1>2. e \in A!Requests
  BY <1>1 DEF A!Requests
<1>3. q = [rs EXCEPT ![i] = e]
  OBVIOUS
<1>4. /\ q \in Seq(A!Requests)
      /\ Len(q) = Len(rs)
      /\ \A j \in 1..Len(rs) : q[j] = IF j = i THEN e ELSE rs[j]
  BY <1>1, <1>2, <1>3, ExceptSeq
<1>5. DOMAIN q = DOMAIN rs
  OBVIOUS
<1>6. ASSUME NEW j \in DOMAIN rs
      PROVE  /\ q[j].email = rs[j].email
             /\ q[j].stage = IF j = i THEN st ELSE rs[j].stage
  BY <1>1, <1>4 DEF A!Requests
<1> QED
  BY <1>4, <1>5, <1>6

\* An answer at the end of the queue.
LEMMA AppendedAnswer ==
  ASSUME NEW q \in Seq(A!Answers), NEW a \in A!Answers
  PROVE  /\ Append(q, a) \in Seq(A!Answers)
         /\ DOMAIN q = 1..Len(q) /\ Len(q) \in Nat
         /\ DOMAIN Append(q, a) = 1..(Len(q) + 1)
         /\ \A k \in DOMAIN q : Append(q, a)[k] = q[k]
         /\ Append(q, a)[Len(q) + 1] = a
  BY AppendProperties, LenProperties

\* Request i has moved on to stage st, whatever its email.
Advances(i, st) ==
  /\ requests' \in Seq(A!Requests)
  /\ Len(requests') = Len(requests) /\ DOMAIN requests' = DOMAIN requests
  /\ \A j \in DOMAIN requests :
       /\ requests'[j].email = requests[j].email
       /\ requests'[j].stage = IF j = i THEN st ELSE requests[j].stage

\* FIRAuth or a completion block sets the stage of one request.
LEMMA MovesOn ==
  ASSUME LoginTypes, NEW i \in DOMAIN requests, NEW st \in A!Stages,
         requests' = [requests EXCEPT ![i].stage = st]
  PROVE  Advances(i, st)
<1>1. requests \in Seq(A!Requests)
  BY DEF LoginTypes
<1> QED
  BY <1>1, StageUpdate DEF Advances

\* A request is handed to FIRAuth.
Submitted ==
  /\ requests' \in Seq(A!Requests)
  /\ Len(requests') = Len(requests) + 1
  /\ DOMAIN requests' = DOMAIN requests \cup {Len(requests) + 1}
  /\ \A j \in DOMAIN requests : requests'[j] = requests[j]
  /\ requests'[Len(requests) + 1].stage = "submitted"

\* What a step of the screen does to the types and the requests.
LEMMA UserStep ==
  ASSUME LoginTypes, A!User
  PROVE  /\ segment' \in {A!SignUp, A!SignIn}
         /\ text' \in [A!Fields -> Texts]
         /\ focus' \in A!Fields \cup {A!NoField}
         /\ UNCHANGED <<mainQueue, accounts, currentUser>>
         /\ UNCHANGED requests \/ Submitted
<1>1. CASE \E f \in A!Fields : A!Focus(f)
  BY <1>1, AppAssumption DEF LoginTypes, A!Focus, A!EditBegan, A!Fields
<1>2. CASE \E t \in EmailInputs \cup PasswordInputs : A!Type(t)
  BY <1>2, AppAssumption DEF LoginTypes, A!Type, A!Fields
<1>3. CASE A!didSingMethodChange
  BY <1>3, AppAssumption DEF LoginTypes, A!didSingMethodChange, A!clearFields,
     A!SignUp, A!SignIn
<1>4. CASE A!didSignButtonClicked
  <2>1. /\ UNCHANGED <<segment, text, focus, mainQueue, accounts, currentUser>>
        /\ UNCHANGED requests \/ A!submit(A!SignUp) \/ A!submit(A!SignIn)
    BY <1>4 DEF A!didSignButtonClicked, A!didSignUpClick, A!didSignInClick,
       A!screenVars
  <2>2. ASSUME NEW kind \in {A!SignUp, A!SignIn}, A!submit(kind)
        PROVE  Submitted
    <3> DEFINE r == [kind |-> kind, email |-> text["email"],
                     password |-> text["password"], stage |-> "submitted"]
    <3>1. r \in A!Requests
      BY DEF LoginTypes, A!Requests, A!Stages, A!Fields
    <3>2. requests' = Append(requests, r) /\ requests \in Seq(A!Requests)
      BY <2>2 DEF A!submit, LoginTypes
    <3>3. r.stage = "submitted"
      OBVIOUS
    <3> HIDE DEF r
    <3>4. /\ requests' \in Seq(A!Requests)
          /\ Len(requests') = Len(requests) + 1
          /\ \A j \in 1..Len(requests) : requests'[j] = requests[j]
          /\ requests'[Len(requests) + 1] = r
      BY <3>1, <3>2, AppendProperties
    <3>5. /\ DOMAIN requests = 1..Len(requests) /\ Len(requests) \in Nat
          /\ DOMAIN requests' = 1..(Len(requests) + 1)
      BY <3>2, <3>4, LenProperties
    <3>6. DOMAIN requests' = DOMAIN requests \cup {Len(requests) + 1}
      BY <3>5
    <3> QED
      BY <3>3, <3>4, <3>5, <3>6 DEF Submitted
  <2> QED
    BY <2>1, <2>2 DEF LoginTypes
<1> QED
  BY <1>1, <1>2, <1>3, <1>4 DEF A!User

\* A step of FIRAuth on request i: the request moves on, to the look-up only
\* with an account, and the signed-in user changes only with a success.
Answered(i) ==
  \E b \in BOOLEAN :
    /\ mainQueue' = Append(mainQueue, [request |-> i, error |-> b])
    /\ \/ UNCHANGED currentUser
       \/ requests[i].stage = "account" /\ ~b
    /\ ~b => /\ currentUser' \in {NoUser, requests[i].email}
             /\ requests[i].stage = "account"

\* Each step of FIRAuth on a request is of this kind.
LEMMA FIRAuthStep ==
  ASSUME LoginTypes, NEW i \in DOMAIN requests, A!FIRAuth(i)
  PROVE  /\ requests[i].stage \in {"submitted", "account"}
         /\ UNCHANGED <<segment, text, focus>>
         /\ DOMAIN accounts' = Users
         /\ \/ /\ Advances(i, "account") /\ requests[i].email \in Users
               /\ UNCHANGED <<mainQueue, currentUser>>
            \/ Advances(i, "queued") /\ Answered(i)
<1> DEFINE moved(st) == requests' = [requests EXCEPT ![i].stage = st]
<1>1. /\ moved("account") => Advances(i, "account")
      /\ moved("queued") => Advances(i, "queued")
  <2>1. "account" \in A!Stages /\ "queued" \in A!Stages
    BY DEF A!Stages
  <2> QED
    BY <2>1, MovesOn
<1>2. ASSUME NEW b \in BOOLEAN, A!enqueue(i, b), b \/ requests[i].stage = "account",
             \/ UNCHANGED currentUser /\ b
             \/ ~b /\ currentUser' \in {NoUser, requests[i].email}
      PROVE  Advances(i, "queued") /\ Answered(i)
  BY <1>1, <1>2 DEF A!enqueue, Answered
<1> HIDE DEF moved
<1>3. CASE A!Refuse(i)
  BY <1>2, <1>3 DEF A!Refuse, A!screenVars, LoginTypes
<1>4. CASE A!CreateAccount(i)
  <2>1. /\ requests[i].stage = "submitted" /\ requests[i].email \in Users
        /\ DOMAIN accounts' = Users
        /\ UNCHANGED <<segment, text, focus, currentUser>>
        /\ \/ moved("account") /\ UNCHANGED mainQueue
           \/ A!enqueue(i, TRUE)
    BY <1>4 DEF A!CreateAccount, A!screenVars, LoginTypes, moved
  <2> QED
    BY <1>1, <1>2, <2>1
<1>5. CASE A!VerifyPassword(i)
  <2>1. /\ requests[i].stage = "submitted" /\ requests[i].email \in Users
        /\ DOMAIN accounts' = Users
        /\ UNCHANGED <<segment, text, focus, currentUser, mainQueue>>
        /\ moved("account")
    BY <1>5 DEF A!VerifyPassword, A!screenVars, LoginTypes, moved
  <2> QED
    BY <1>1, <2>1
<1>6. CASE A!ServerError(i)
  BY <1>2, <1>6 DEF A!ServerError, A!screenVars, LoginTypes
<1>7. CASE A!RetrieveUser(i)
  BY <1>2, <1>7 DEF A!RetrieveUser, A!updateCurrentUser, A!screenVars, LoginTypes
<1>8. CASE A!RetrieveUserFails(i)
  BY <1>2, <1>8 DEF A!RetrieveUserFails, A!updateCurrentUser, A!screenVars,
     LoginTypes
<1> QED
  BY <1>3, <1>4, <1>5, <1>6, <1>7, <1>8 DEF A!FIRAuth

\* The completion block at the head of the queue ends its request.
LEMMA CompletionStep ==
  ASSUME LoginTypes, A!Completion
  PROVE  /\ UNCHANGED <<segment, text, focus, accounts, currentUser>>
         /\ \E i \in DOMAIN requests : Advances(i, "done")
         /\ mainQueue' \in Seq(A!Answers)
         /\ \A k \in DOMAIN mainQueue' : \E m \in DOMAIN mainQueue :
              mainQueue'[k] = mainQueue[m]
         /\ ~Head(mainQueue).error => SuccessWaits
<1>1. mainQueue \in Seq(A!Answers) /\ mainQueue # <<>>
  BY DEF LoginTypes, A!Completion
<1>2. /\ mainQueue' = Tail(mainQueue)
      /\ requests' = [requests EXCEPT ![Head(mainQueue).request].stage = "done"]
      /\ UNCHANGED <<segment, text, focus, accounts, currentUser>>
  BY DEF A!Completion, A!screenVars
<1>3. /\ DOMAIN mainQueue = 1..Len(mainQueue) /\ Len(mainQueue) \in Nat \ {0}
      /\ Head(mainQueue) = mainQueue[1] /\ 1 \in DOMAIN mainQueue
  BY <1>1, LenProperties, EmptySeq
<1>4. /\ mainQueue' \in Seq(A!Answers)
      /\ Len(mainQueue') = Len(mainQueue) - 1
      /\ \A k \in 1..Len(mainQueue') : mainQueue'[k] = mainQueue[k + 1]
  BY <1>1, <1>2, HeadTailProperties
<1>5. DOMAIN mainQueue' = 1..Len(mainQueue')
  BY <1>4, LenProperties
<1>6. Head(mainQueue).request \in DOMAIN requests
  BY <1>3 DEF LoginTypes
<1>7. Advances(Head(mainQueue).request, "done")
  <2>1. "done" \in A!Stages
    BY DEF A!Stages
  <2> QED
    BY <1>2, <1>6, <2>1, MovesOn
<1>8. ASSUME NEW k \in DOMAIN mainQueue'
      PROVE  k + 1 \in DOMAIN mainQueue /\ mainQueue'[k] = mainQueue[k + 1]
  BY <1>3, <1>4, <1>5
<1> QED
  BY <1>2, <1>3, <1>4, <1>6, <1>7, <1>8 DEF SuccessWaits

----------------------------------------------------------------------------
(* The login invariant, action by action. *)

\* Nothing is asked for or opened at the start.
LEMMA InvStart == Init => LoginInv
<1> SUFFICES ASSUME Init PROVE LoginInv
  OBVIOUS
<1>1. /\ segment = A!SignUp /\ text = A!storyboardText /\ focus = A!NoField
      /\ requests = <<>> /\ mainQueue = <<>>
      /\ DOMAIN accounts = Users
      /\ mapsToLoad = 0 /\ mapLoaded = FALSE /\ owner = Unset
  BY DEF Init, A!Init, A!ScreenInit, R!Init, Users
<1>2. LoginTypes
  BY <1>1, AppAssumption DEF LoginTypes, A!storyboardText, A!Fields
<1>3. DOMAIN requests = {} /\ DOMAIN mainQueue = {}
  BY <1>1
<1>4. ~MapOpened /\ ~SuccessWaits
  BY <1>1, <1>3 DEF MapOpened, SuccessWaits
<1>5. AccountsKnown /\ UserInv /\ DoneInv
  BY <1>3, <1>4 DEF AccountsKnown, UserInv, DoneInv
<1>6. Unset \notin Users
  BY AppAssumption DEF Users
<1> QED
  BY <1>1, <1>2, <1>5, <1>6 DEF LoginInv, OwnerSignedIn, StaleOwnerNeedsOverlap

\* The screen, its fields and its taps; FIRAuth; the release of the screen.
LEMMA LoginKeeps ==
  ASSUME LoginInv, Login
  PROVE  LoginInv'
<1> USE DEF LoginInv
<1>1. /\ UNCHANGED <<mapsToLoad, mapLoaded, owner>>
      /\ MapOpened' = MapOpened
  BY DEF Login, mapVars, repoVars, MapOpened
<1>2. /\ DOMAIN requests = 1..Len(requests) /\ Len(requests) \in Nat
      /\ DOMAIN mainQueue = 1..Len(mainQueue) /\ Len(mainQueue) \in Nat
  BY LenProperties DEF LoginTypes
<1>3. ASSUME /\ segment' \in {A!SignUp, A!SignIn}
             /\ text' \in [A!Fields -> Texts]
             /\ focus' \in A!Fields \cup {A!NoField}
             /\ UNCHANGED <<mainQueue, accounts, currentUser>>
             /\ UNCHANGED requests \/ Submitted
      PROVE  LoginInv'
  <2>1. /\ requests' \in Seq(A!Requests)
        /\ DOMAIN requests \subseteq DOMAIN requests'
        /\ \A j \in DOMAIN requests : requests'[j] = requests[j]
        /\ \A j \in DOMAIN requests' :
             j \in DOMAIN requests \/ requests'[j].stage = "submitted"
        /\ Len(requests') >= Len(requests) /\ Len(requests') \in Nat
    BY <1>2, <1>3 DEF LoginTypes, Submitted
  <2>2. LoginTypes'
    BY <1>1, <1>3, <2>1 DEF LoginTypes
  <2>3. AccountsKnown'
    BY <2>1 DEF AccountsKnown
  <2>4. UserInv'
    BY <1>1, <1>3, <2>1 DEF UserInv, UserNamed, SuccessWaits
  <2>5. DoneInv'
    BY <1>1, <2>1 DEF DoneInv
  <2>6. OwnerSignedIn'
    BY <1>1, <2>1 DEF OwnerSignedIn, Users
  <2>7. StaleOwnerNeedsOverlap'
    BY <1>1, <1>2, <1>3, <2>1 DEF StaleOwnerNeedsOverlap
  <2> QED
    BY <2>2, <2>3, <2>4, <2>5, <2>6, <2>7
<1>4. CASE A!User
  BY <1>3, <1>4, UserStep
<1>5. CASE A!Deinit
  <2>1. UNCHANGED <<segment, text, focus, mainQueue, accounts, currentUser, requests>>
    BY <1>5 DEF A!Deinit, A!screenVars
  <2> QED
    BY <1>3, <2>1 DEF LoginTypes
<1>6. ASSUME NEW i \in DOMAIN requests, A!FIRAuth(i)
      PROVE  LoginInv'
  <2>1. /\ requests[i].stage \in {"submitted", "account"}
        /\ UNCHANGED <<segment, text, focus>>
        /\ DOMAIN accounts' = Users
    BY <1>6, FIRAuthStep
  <2>2. CASE /\ Advances(i, "account") /\ requests[i].email \in Users
             /\ UNCHANGED <<mainQueue, currentUser>>
    <3>1. LoginTypes'
      BY <1>1, <2>1, <2>2 DEF LoginTypes, Advances
    <3>2. AccountsKnown'
      BY <2>2 DEF AccountsKnown, Advances
    <3>3. UserInv' /\ DoneInv' /\ OwnerSignedIn' /\ StaleOwnerNeedsOverlap'
      BY <1>1, <2>1, <2>2 DEF UserInv, UserNamed, SuccessWaits, DoneInv,
         OwnerSignedIn, StaleOwnerNeedsOverlap, Advances, Users
    <3> QED
      BY <3>1, <3>2, <3>3
  <2>3. CASE Advances(i, "queued") /\ Answered(i)
    <3>1. PICK b \in BOOLEAN :
            /\ mainQueue' = Append(mainQueue, [request |-> i, error |-> b])
            /\ \/ UNCHANGED currentUser
               \/ requests[i].stage = "account" /\ ~b
            /\ ~b => /\ currentUser' \in {NoUser, requests[i].email}
                     /\ requests[i].stage = "account"
      BY <2>3 DEF Answered
    <3>2. PICK a : a = [request |-> i, error |-> b]
      OBVIOUS
    <3>3. a \in A!Answers /\ a.request = i /\ a.error = b
      BY <1>2, <3>2 DEF A!Answers
    <3>4. /\ mainQueue' \in Seq(A!Answers)
          /\ DOMAIN mainQueue' = 1..(Len(mainQueue) + 1)
          /\ \A k \in DOMAIN mainQueue : mainQueue'[k] = mainQueue[k]
          /\ mainQueue'[Len(mainQueue) + 1] = a
      BY <3>1, <3>2, <3>3, AppendedAnswer DEF LoginTypes
    <3>5. \A k \in DOMAIN mainQueue' :
            k \in DOMAIN mainQueue \/ mainQueue'[k] = a
      BY <1>2, <3>4
    <3>6. LoginTypes'
      BY <1>1, <2>1, <2>3, <3>3, <3>4, <3>5 DEF LoginTypes, Advances
    <3>7. AccountsKnown'
      BY <2>3 DEF AccountsKnown, Advances
    <3>8. UserNamed => UserNamed' \/ currentUser' # currentUser
      BY <2>3 DEF UserNamed, Advances
    <3>9. ~b => UserNamed'
      BY <2>3, <3>1 DEF UserNamed, Advances
    <3>10. UserInv'
      BY <1>1, <3>1, <3>3, <3>4, <3>5, <3>8, <3>9 DEF UserInv, SuccessWaits
    <3>11. DoneInv'
      BY <1>1, <2>1, <2>3 DEF DoneInv, Advances
    <3>12. OwnerSignedIn'
      BY <1>1, <2>3 DEF OwnerSignedIn, Advances, Users
    <3>13. ASSUME owner # Unset, currentUser' # currentUser
           PROVE  Len(requests) > 1
      <4>1. PICK j \in DOMAIN requests : requests[j].stage = "done"
        BY <3>13 DEF DoneInv, MapOpened
      <4> QED
        BY <1>2, <2>1, <4>1
    <3>14. StaleOwnerNeedsOverlap'
      BY <1>1, <2>3, <3>13 DEF StaleOwnerNeedsOverlap, Advances
    <3> QED
      BY <3>6, <3>7, <3>10, <3>11, <3>12, <3>14
  <2> QED
    BY <1>6, <2>2, <2>3, FIRAuthStep
<1> QED
  BY <1>4, <1>5, <1>6 DEF Login

\* A completion block, and the map it opens.
LEMMA CompletionKeeps ==
  ASSUME LoginInv, LoginCompletes
  PROVE  LoginInv'
<1> USE DEF LoginInv
<1>1. A!Completion /\ UNCHANGED owner
  BY DEF LoginCompletes, repoVars
<1>2. /\ UNCHANGED <<segment, text, focus, accounts, currentUser>>
      /\ mainQueue' \in Seq(A!Answers)
      /\ \A k \in DOMAIN mainQueue' : \E m \in DOMAIN mainQueue :
           mainQueue'[k] = mainQueue[m]
      /\ ~Head(mainQueue).error => SuccessWaits
  BY <1>1, CompletionStep
<1>3. PICK i \in DOMAIN requests : Advances(i, "done")
  BY <1>1, CompletionStep
<1>4. /\ mapsToLoad' \in Nat
      /\ MapOpened' => MapOpened \/ ~Head(mainQueue).error
  BY <1>1 DEF LoginCompletes, mapVars, MapOpened, LoginTypes
<1>5. SuccessWaits' => SuccessWaits
  BY <1>2 DEF SuccessWaits
<1>6. LoginTypes'
  BY <1>2, <1>3, <1>4 DEF LoginTypes, Advances
<1>7. AccountsKnown'
  BY <1>3 DEF AccountsKnown, Advances
<1>8. UserNamed' = UserNamed
  BY <1>2, <1>3 DEF UserNamed, Advances
<1>9. UserInv' /\ DoneInv'
  BY <1>2, <1>3, <1>4, <1>5, <1>8 DEF UserInv, DoneInv, Advances
<1>10. OwnerSignedIn' /\ StaleOwnerNeedsOverlap'
  BY <1>1, <1>2, <1>3 DEF OwnerSignedIn, StaleOwnerNeedsOverlap, Advances, Users
<1> QED
  BY <1>6, <1>7, <1>9, <1>10

\* Repo looks at the user when a map is open, and keeps it.
LEMMA OwnerKeeps ==
  ASSUME LoginInv, UNCHANGED authVars, UNCHANGED currentUser,
         mapsToLoad' \in Nat, MapOpened, owner' = R!lazyOwner
  PROVE  LoginInv'
<1> USE DEF LoginInv
<1>1. UNCHANGED <<segment, text, focus, requests, mainQueue, accounts>>
  BY DEF authVars
<1>2. LoginTypes' /\ AccountsKnown'
  BY <1>1 DEF LoginTypes, AccountsKnown
<1>3. UserNamed' = UserNamed /\ SuccessWaits' = SuccessWaits
  BY <1>1 DEF UserNamed, SuccessWaits
<1>4. UserInv' /\ DoneInv'
  BY <1>1, <1>3 DEF UserInv, DoneInv
<1>5. OwnerSignedIn'
  <2>1. NoUser \notin Users
    BY AppAssumption DEF Users
  <2>2. UserNamed
    BY DEF UserInv
  <2> QED
    BY <1>1, <2>1, <2>2 DEF OwnerSignedIn, UserNamed, R!lazyOwner, Users
<1>6. StaleOwnerNeedsOverlap'
  BY <1>1 DEF StaleOwnerNeedsOverlap, R!lazyOwner
<1> QED
  BY <1>2, <1>4, <1>5, <1>6

\* Steps that touch neither the login nor Repo's user nor the maps.
LEMMA OtherKeeps ==
  ASSUME LoginInv, UNCHANGED <<authVars, currentUser, owner, mapVars>>
  PROVE  LoginInv'
<1>1. UNCHANGED <<segment, text, focus, requests, mainQueue, accounts, currentUser,
                  owner, mapsToLoad, mapLoaded>>
  BY DEF authVars, mapVars
<1> QED
  BY <1>1 DEF LoginInv, LoginTypes, AccountsKnown, UserInv, DoneInv, UserNamed,
     SuccessWaits, MapOpened, OwnerSignedIn, StaleOwnerNeedsOverlap, Users

\* A launch forgets requests, maps and Repo's user together.
LEMMA RelaunchKeeps ==
  ASSUME LoginInv, Relaunch
  PROVE  LoginInv'
<1>1. /\ segment' = A!SignUp /\ text' = A!storyboardText /\ focus' = A!NoField
      /\ requests' = <<>> /\ mainQueue' = <<>> /\ accounts' = accounts
      /\ mapsToLoad' = 0 /\ mapLoaded' = FALSE /\ owner' = Unset
  BY DEF Relaunch, R!Relaunch
<1>2. DOMAIN requests' = {} /\ DOMAIN mainQueue' = {}
  BY <1>1
<1>3. LoginTypes'
  BY <1>1, AppAssumption DEF LoginInv, LoginTypes, A!storyboardText, A!Fields
<1>4. ~MapOpened' /\ ~SuccessWaits'
  BY <1>1, <1>2 DEF MapOpened, SuccessWaits
<1>5. AccountsKnown' /\ UserInv' /\ DoneInv'
  BY <1>2, <1>4 DEF AccountsKnown, UserInv, DoneInv
<1>6. Unset \notin Users
  BY AppAssumption DEF Users
<1> QED
  BY <1>1, <1>3, <1>5, <1>6 DEF LoginInv, OwnerSignedIn, StaleOwnerNeedsOverlap, Users

\* Every step of the app keeps the invariant.
LEMMA LoginInvStep == LoginInv /\ [Next]_vars => LoginInv'
<1> SUFFICES ASSUME LoginInv, [Next]_vars PROVE LoginInv'
  OBVIOUS
<1>1. CASE UNCHANGED vars
  BY <1>1, OtherKeeps DEF vars, repoVars
<1>2. CASE Login
  BY <1>2, LoginKeeps
<1>3. CASE LoginCompletes
  BY <1>3, CompletionKeeps
<1>4. CASE MapLoads
  <2>1. /\ mapsToLoad > 0 /\ mapsToLoad' = mapsToLoad - 1 /\ UNCHANGED authVars
        /\ owner' = R!lazyOwner /\ UNCHANGED currentUser
    BY <1>4 DEF MapLoads, R!getAllPhotos
  <2> QED
    BY <2>1, OwnerKeeps DEF LoginInv, LoginTypes, MapOpened
<1>5. CASE Browse
  BY <1>5, OtherKeeps DEF Browse, repoVars
<1>6. CASE PhotoSaved
  <2>1. /\ mapLoaded /\ UNCHANGED <<authVars, mapVars>>
        /\ owner' = R!lazyOwner /\ UNCHANGED currentUser
    BY <1>6 DEF PhotoSaved, R!savePhoto
  <2> QED
    BY <2>1, OwnerKeeps DEF LoginInv, LoginTypes, MapOpened, mapVars
<1>7. CASE Background
  <2>1. UNCHANGED <<currentUser, owner>>
    <3>1. ASSUME NEW s \in DOMAIN saves, R!StorageStores(s) \/ R!Callback(s)
          PROVE  UNCHANGED <<currentUser, owner>>
      BY <3>1 DEF R!StorageStores, R!Callback, R!putDataEnds, R!downloadURLFails,
         R!downloadURL, R!appVars
    <3>2. R!Server \/ R!Reconnect => UNCHANGED <<currentUser, owner>>
      BY DEF R!Server, R!ServerApplies, R!ServerAcks, R!ServerRefuses,
         R!ListenResponse, R!Reconnect, R!appVars
    <3>3. R!SnapshotArrives \/ R!ListenRefused => UNCHANGED <<currentUser, owner>>
      BY DEF R!SnapshotArrives, R!ListenRefused, R!appVars
    <3> QED
      BY <1>7, <3>1, <3>2, <3>3 DEF Background
  <2> QED
    BY <1>7, <2>1, OtherKeeps DEF Background
<1>8. CASE Relaunch
  BY <1>8, RelaunchKeeps
<1> QED
  BY <1>1, <1>2, <1>3, <1>4, <1>5, <1>6, <1>7, <1>8 DEF Next

\* For every number of requests, launches and maps, Repo works for a user who
\* was named by a request of this launch (Repo.currentUser is lazy, and the map
\* that first uses it is opened by a completion block of this launch).
THEOREM OwnerFromThisLaunch == Spec => []OwnerSignedIn
<1>1. LoginInv => OwnerSignedIn
  BY DEF LoginInv
<1> QED
  BY <1>1, InvStart, LoginInvStep, PTL DEF Spec

\* Repo's lazy user and Auth.currentUser differ only after a second request.
THEOREM OwnerStaleByOverlap == Spec => []StaleOwnerNeedsOverlap
<1>1. LoginInv => StaleOwnerNeedsOverlap
  BY DEF LoginInv
<1> QED
  BY <1>1, InvStart, LoginInvStep, PTL DEF Spec

----------------------------------------------------------------------------
(* What the screens show and save. *)

\* The screens over a map, doneButton included.
LEMMA CaptureKeeps == EditInv /\ C!Next => EditInv'
<1> SUFFICES ASSUME EditInv, C!Next PROVE EditInv'
  OBVIOUS
<1> USE DEF EditInv, C!show, C!editorVars
<1>1. CASE \/ C!categoryOnClick \/ C!didDoneButtonClick \/ C!showPictureOption
           \/ C!startCamera \/ C!getImageFromLibrary \/ C!Cancelled
  <2>1. screen' \notin {"newPhoto", "detail"}
    BY <1>1 DEF C!categoryOnClick, C!didDoneButtonClick, C!showPictureOption,
       C!startCamera, C!getImageFromLibrary, C!Cancelled
  <2> QED
    BY <2>1
<1>2. CASE C!imagePickerController
  BY <1>2 DEF C!imagePickerController, C!viewDidLoad, C!pickedPhoto, C!shown
<1>3. CASE \E title \in Titles : C!textViewDidChange(title)
  BY <1>3 DEF C!textViewDidChange, C!shown
<1>4. CASE \E category \in Categories : C!didSelectRow(category)
  BY <1>4 DEF C!didSelectRow, C!update, C!shown
<1>5. CASE C!didClickImage \/ C!backButtonPressed
  BY <1>5 DEF C!didClickImage, C!backButtonPressed, C!shown
<1>6. CASE C!cancelButton \/ C!doneButton
  BY <1>6 DEF C!cancelButton, C!doneButton, C!dismiss
<1> QED
  BY <1>1, <1>2, <1>3, <1>4, <1>5, <1>6 DEF C!Next, C!Browse

\* What a step of the app does to the screens: a step of Capture, the end of
\* the screens with their map, or nothing.
LEMMA CaptureSteps ==
  ASSUME [Next]_vars
  PROVE  \/ C!Browse \/ C!doneButton
         \/ captureEnds
         \/ UNCHANGED captureVars
<1>1. CASE Login \/ MapLoads \/ Background \/ UNCHANGED vars
  BY <1>1 DEF Login, MapLoads, Background, vars
<1>2. CASE LoginCompletes \/ Relaunch
  BY <1>2 DEF LoginCompletes, Relaunch
<1>3. CASE Browse \/ PhotoSaved
  BY <1>3 DEF Browse, PhotoSaved
<1> QED
  BY <1>1, <1>2, <1>3 DEF Next

\* No photo is edited at the start.
LEMMA EditStart == Init => EditInv
  BY DEF Init, C!Init, EditInv

\* Every step of the app keeps the copies equal to the fields.
LEMMA EditStep == EditInv /\ [Next]_vars => EditInv'
<1> SUFFICES ASSUME EditInv, [Next]_vars PROVE EditInv'
  OBVIOUS
<1>1. CASE C!Browse \/ C!doneButton
  BY <1>1, CaptureKeeps DEF C!Next
<1>2. CASE captureEnds
  BY <1>2 DEF captureEnds, EditInv
<1>3. CASE UNCHANGED captureVars
  BY <1>3 DEF captureVars, EditInv, C!shown
<1> QED
  BY <1>1, <1>2, <1>3, CaptureSteps

\* DetailPhotoViewController, opened from the new-photo screen, shows the edits
\* made so far, whatever titles, categories and other steps of the app.
THEOREM DetailIsEdited == Spec => []DetailShowsEdited
<1>1. EditInv => DetailShowsEdited
  BY DEF EditInv, DetailShowsEdited, C!DetailShowsEdited
<1> QED
  BY <1>1, EditStart, EditStep, PTL DEF Spec

\* doneButton hands Repo.savePhoto the title and the category on the screen.
THEOREM SavedIsShown == Spec => SavedAsShown
<1> DEFINE Saves == savedPhoto' # savedPhoto /\ savedPhoto' # NoPhoto =>
                      savedPhoto' = C!shown
<1>1. ASSUME EditInv, [Next]_vars PROVE Saves
  <2>1. CASE C!Browse
    BY <2>1 DEF C!Browse, C!categoryOnClick, C!didDoneButtonClick,
       C!showPictureOption, C!startCamera, C!getImageFromLibrary, C!Cancelled,
       C!imagePickerController, C!textViewDidChange, C!didSelectRow,
       C!didClickImage, C!backButtonPressed, C!cancelButton, C!editorVars
  <2>2. CASE C!doneButton
    BY <1>1, <2>2 DEF C!doneButton, C!dismiss, C!show, EditInv, C!shown
  <2>3. CASE captureEnds \/ UNCHANGED captureVars
    BY <2>3 DEF captureEnds, captureVars
  <2> QED
    BY <1>1, <2>1, <2>2, <2>3, CaptureSteps
<1> HIDE DEF Saves
<1>2. EditInv /\ [Next]_vars => [Saves]_(C!vars)
  BY <1>1
<1>3. Spec => [][Saves]_(C!vars)
  BY <1>2, EditStart, EditStep, PTL DEF Spec
<1> QED
  BY <1>3 DEF SavedAsShown, C!SavedAsShown, Saves

----------------------------------------------------------------------------
(* The composition and Repo's own specification. *)

\* Every step of the app is a step of Repo, a change of the signed-in user to
\* one with an account or to none, or nothing to Repo.
LEMMA RepoSteps ==
  ASSUME LoginInv, [Next]_vars
  PROVE  [R!Next]_(R!vars)
<1> DEFINE Rest == UNCHANGED <<process, launches, owner, saves, images, puts, issued,
                               reconnects, db, fetches, fetchCount, photosForDownload,
                               unackedListensCount, putsToAck>>
<1>1. ASSUME Rest, UNCHANGED currentUser
      PROVE  UNCHANGED R!vars
  BY <1>1 DEF R!vars
<1>2. CASE UNCHANGED vars
  BY <1>1, <1>2 DEF vars, repoVars
<1>3. CASE Login
  <2>1. Rest /\ process = "running"
    BY <1>3 DEF Login, repoVars
  <2>2. ASSUME NEW u \in Users \cup {NoUser}, currentUser' = u
        PROVE  R!Next
    <3>1. R!AuthChanges(u)
      BY <2>1, <2>2 DEF R!AuthChanges, R!appVars, R!fetchVars, R!listenVars
    <3> QED
      BY <3>1 DEF R!Next, R!Owners, Users, R!AuthChanges
  <2> HIDE DEF Rest
  <2>3. CASE A!User \/ A!Deinit
    <3>1. UNCHANGED currentUser
      BY <2>3, UserStep DEF A!Deinit, LoginInv
    <3> QED
      BY <1>1, <2>1, <3>1
  <2>4. ASSUME NEW i \in DOMAIN requests, A!FIRAuth(i)
        PROVE  [R!Next]_(R!vars)
    <3>1. \/ UNCHANGED currentUser
          \/ Answered(i)
      BY <2>4, FIRAuthStep DEF LoginInv
    <3>2. Answered(i) => \/ UNCHANGED currentUser
                         \/ /\ requests[i].stage = "account"
                            /\ currentUser' \in {NoUser, requests[i].email}
      BY DEF Answered
    <3>3. requests[i].stage = "account" => requests[i].email \in Users
      BY DEF LoginInv, AccountsKnown
    <3> QED
      BY <1>1, <2>1, <2>2, <3>1, <3>2, <3>3
  <2> QED
    BY <1>3, <2>3, <2>4 DEF Login
<1>4. CASE LoginCompletes
  <2>1. Rest /\ UNCHANGED currentUser
    BY <1>4 DEF LoginCompletes, repoVars, A!Completion
  <2> QED
    BY <1>1, <2>1
<1>5. CASE MapLoads
  BY <1>5 DEF MapLoads, R!Next
<1>6. CASE Browse
  BY <1>1, <1>6 DEF Browse, repoVars
<1>7. CASE PhotoSaved
  BY <1>7 DEF PhotoSaved, R!Next
<1>8. CASE Background
  BY <1>8 DEF Background, R!Next
<1>9. CASE Relaunch
  BY <1>9 DEF Relaunch, R!Next
<1> QED
  BY <1>2, <1>3, <1>4, <1>5, <1>6, <1>7, <1>8, <1>9 DEF Next

\* The app, with FIRAuth, the login screen and the maps in place of Repo's
\* free environment, uses Repo only as Repo's specification allows.
THEOREM AppUsesRepo == Spec => RefinesRepo
<1>1. Init => R!Init
  BY DEF Init
<1>2. LoginInv /\ [Next]_vars => [R!Next]_(R!vars)
  BY RepoSteps
<1> QED
  BY <1>1, <1>2, InvStart, LoginInvStep, PTL DEF Spec, RefinesRepo, R!Spec
=============================================================================
