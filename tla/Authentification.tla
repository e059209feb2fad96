-------------------------- MODULE Authentification --------------------------
(***************************************************************************)
(* The login screen (AuthentificationViewController) together with the     *)
(* part of FirebaseAuth (FIRAuth, FIRUser) that it drives.                  *)
(*                                                                         *)
(* The screen runs on the main thread.  A tap on the sign button submits a *)
(* request to FIRAuth, whose work queue talks to the server and at the end *)
(* changes currentUser and puts the completion block on the main queue.    *)
(* Nothing disables the button meanwhile, so several requests can be under *)
(* way, and the text the button was enabled for may have changed when it   *)
(* is tapped.                                                              *)
(*                                                                         *)
(* A string is a member of Texts; only its length (count) and equality     *)
(* matter to the code.  An account is known by its email.                  *)
(***************************************************************************)
EXTENDS Integers, Sequences

CONSTANTS
  Texts,            \* the strings a text field can hold
  Empty,            \* ""
  count,            \* String.count
  EmailInputs,      \* what the user types into the email field
  PasswordInputs,   \* what the user types into a password field
  PasswordText,     \* the storyboard's text of the password field
  ConfirmText,      \* the storyboard's text of the confirmation field
  NoUser,           \* Auth.currentUser == nil
  NoPassword,       \* "not registered", on the server
  MinPassword,      \* the length isPasswordValid asks for (6)
  MaxRequests       \* bound: taps of the button that submit a request

ASSUME TextsAssumption ==
  /\ count \in [Texts -> Nat]
  /\ \A t \in Texts : count[t] = 0 <=> t = Empty
  /\ {Empty, PasswordText, ConfirmText} \cup EmailInputs \cup PasswordInputs
        \subseteq Texts

ASSUME PasswordAssumption ==
  /\ MinPassword \in Nat \ {0}
  /\ count[PasswordText] >= MinPassword
  /\ count[ConfirmText] >= MinPassword

ASSUME BoundAssumption ==
  /\ MaxRequests \in Nat
  /\ NoUser \notin Texts
  /\ NoPassword \notin Texts

VARIABLES
  segment,      \* signInControl.selectedSegmentIndex
  text,         \* the text of the three fields
  focus,        \* the first responder
  signEnabled,  \* signInButton.isEnabled
  indicator,    \* activityIndicator is animating
  controller,   \* the view controller: on screen, replaced, deallocated
  requests,     \* every request handed to FIRAuth
  mainQueue,    \* completion blocks waiting on the main queue
  currentUser,  \* Auth.auth().currentUser, kept in the keychain
  accounts      \* the server's accounts: email -> password

screenVars == <<segment, text, focus, signEnabled>>
vars == <<segment, text, focus, signEnabled, indicator, controller,
          requests, mainQueue, currentUser, accounts>>

----------------------------------------------------------------------------
SignUp == 0
SignIn == 1
Fields == {"email", "password", "confirm"}
NoField == "none"

Stages == {"submitted", "account", "queued", "done"}
Requests == [kind : {SignUp, SignIn}, email : Texts, password : Texts,
             stage : Stages]

\* What FIRAuth hands to the app: the request answered and whether it failed.
Answers == [request : Nat, error : BOOLEAN]

----------------------------------------------------------------------------
(* The screen. *)

isEmailValid(t) == t["email"] # Empty

isPasswordValid(s) == s # Empty /\ count[s] >= MinPassword

\* Faulty variant: the confirmation field is forgotten.
isInputFieldsValid_NoConfirm(t, seg) ==
  isEmailValid(t) /\ isPasswordValid(t["password"])

isInputFieldsValid(t, seg) ==
  /\ isEmailValid(t)
  /\ isPasswordValid(t["password"])
  /\ seg = SignUp => isPasswordValid(t["confirm"])

\* What the editingDidEnd handler of field f leaves in signInButton.isEnabled.
EditEnd(f) ==
  CASE f = "email"    -> isEmailValid(text) /\ isInputFieldsValid(text, segment)
    [] f = "password" -> /\ isPasswordValid(text["password"])
                         /\ isInputFieldsValid(text, segment)
    [] f = "confirm"  -> /\ isPasswordValid(text["confirm"])
                         /\ isInputFieldsValid(text, segment)
    [] OTHER          -> signEnabled

\* What the editingDidBegin handler of field f leaves in the fields: both
\* password fields are emptied, the email is kept.
EditBegan(f) ==
  IF f = "email" THEN text ELSE [text EXCEPT ![f] = Empty]

\* The user taps another field: its predecessor resigns first.
Focus(f) ==
  /\ controller = "shown"
  /\ f # focus
  /\ f = "confirm" => segment = SignUp        \* hidden while signing in
  /\ signEnabled' = EditEnd(focus)
  /\ text' = EditBegan(f)
  /\ focus' = f
  /\ UNCHANGED <<segment, indicator, controller, requests, mainQueue,
                 currentUser, accounts>>

\* The user replaces the text of the field being edited.
Type(t) ==
  /\ controller = "shown"
  /\ focus # NoField
  /\ t \in IF focus = "email" THEN EmailInputs ELSE PasswordInputs
  /\ text' = [text EXCEPT ![focus] = t]
  /\ UNCHANGED <<segment, focus, signEnabled, indicator, controller, requests,
                 mainQueue, currentUser, accounts>>

\* Faulty variant: the confirmation field is forgotten.
clearFields_NoConfirm == [f \in {"email", "password"} |-> Empty]

clearFields == [f \in Fields |-> Empty]

\* Faulty variant: changing the method leaves the button as it was.
didSingMethodChange_StaysEnabled ==
  /\ controller = "shown"
  /\ segment' = 1 - segment
  /\ text' = IF segment' = SignUp THEN clearFields ELSE text
  /\ UNCHANGED <<focus, signEnabled, indicator, controller, requests,
                 mainQueue, currentUser, accounts>>

\* Both ways disable the button; only signing up empties the fields.
didSingMethodChange ==
  /\ controller = "shown"
  /\ segment' = 1 - segment
  /\ text' = IF segment' = SignUp THEN clearFields ELSE text
  /\ signEnabled' = FALSE
  /\ UNCHANGED <<focus, indicator, controller, requests, mainQueue,
                 currentUser, accounts>>

submit(kind) ==
  /\ requests' = Append(requests,
                    [kind |-> kind, email |-> text["email"],
                     password |-> text["password"], stage |-> "submitted"])
  /\ indicator' = TRUE

didSignUpClick ==
  IF text["password"] = text["confirm"]
  THEN submit(SignUp)
  ELSE UNCHANGED <<requests, indicator>>

didSignInClick == submit(SignIn)

didSignButtonClicked ==
  /\ controller = "shown"
  /\ signEnabled
  /\ Len(requests) < MaxRequests
  /\ IF segment = SignUp THEN didSignUpClick ELSE didSignInClick
  /\ UNCHANGED <<screenVars, controller, mainQueue, currentUser, accounts>>

----------------------------------------------------------------------------
(* FIRAuth. *)

\* Request i moves to the main queue, with or without an error.
enqueue(i, error) ==
  /\ requests' = [requests EXCEPT ![i].stage = "queued"]
  /\ mainQueue' = Append(mainQueue, [request |-> i, error |-> error])

\* Arguments FIRAuth refuses without asking the server.
refused(r) ==
  \/ r.password = Empty
  \/ r.kind = SignUp /\ r.email = Empty

Refuse(i) ==
  /\ requests[i].stage = "submitted"
  /\ refused(requests[i])
  /\ enqueue(i, TRUE)
  /\ UNCHANGED <<screenVars, indicator, controller, currentUser, accounts>>

\* The server creates the account; the answer may be lost on the way back.
CreateAccount(i) ==
  LET r == requests[i] IN
  /\ r.stage = "submitted"
  /\ r.kind = SignUp
  /\ ~refused(r)
  /\ r.email \in DOMAIN accounts
  /\ accounts[r.email] = NoPassword
  /\ count[r.password] >= MinPassword
  /\ accounts' = [accounts EXCEPT ![r.email] = r.password]
  /\ \/ /\ requests' = [requests EXCEPT ![i].stage = "account"]
        /\ UNCHANGED mainQueue
     \/ enqueue(i, TRUE)
  /\ UNCHANGED <<screenVars, indicator, controller, currentUser>>

VerifyPassword(i) ==
  LET r == requests[i] IN
  /\ r.stage = "submitted"
  /\ r.kind = SignIn
  /\ ~refused(r)
  /\ r.email \in DOMAIN accounts
  /\ accounts[r.email] = r.password
  /\ requests' = [requests EXCEPT ![i].stage = "account"]
  /\ UNCHANGED <<screenVars, indicator, controller, mainQueue, currentUser,
                 accounts>>

\* The server refuses the request, or it cannot be reached in time.
ServerError(i) ==
  /\ requests[i].stage = "submitted"
  /\ ~refused(requests[i])
  /\ enqueue(i, TRUE)
  /\ UNCHANGED <<screenVars, indicator, controller, currentUser, accounts>>

\* The decorated callback: currentUser first, then the main queue.  A user
\* that cannot be saved in the keychain is an error; nil twice is no change.
updateCurrentUser(i, user) ==
  \/ /\ currentUser' = user
     /\ enqueue(i, FALSE)
  \/ /\ user # NoUser \/ currentUser # NoUser
     /\ UNCHANGED currentUser
     /\ enqueue(i, TRUE)

\* retrieveUserWithAuth: the account's data arrive.
RetrieveUser(i) ==
  /\ requests[i].stage = "account"
  /\ updateCurrentUser(i, requests[i].email)
  /\ UNCHANGED <<screenVars, indicator, controller, accounts>>

\* Faulty variant: signing in ignores the error as createUser does.
RetrieveUserFails_Ignored(i) ==
  /\ requests[i].stage = "account"
  /\ updateCurrentUser(i, NoUser)
  /\ UNCHANGED <<screenVars, indicator, controller, accounts>>

\* retrieveUserWithAuth fails: signing in reports the error, createUser's
\* block does not look at it and goes on with a nil user.
RetrieveUserFails(i) ==
  /\ requests[i].stage = "account"
  /\ IF requests[i].kind = SignUp
     THEN updateCurrentUser(i, NoUser)
     ELSE enqueue(i, TRUE) /\ UNCHANGED currentUser
  /\ UNCHANGED <<screenVars, indicator, controller, accounts>>

----------------------------------------------------------------------------
(* The completion block on the main thread, and the end of the screen. *)

openMapStoryBoard == controller' = "replaced"

\* Faulty variant: the indicator is only stopped when the map opens.
Completion_StopOnSuccess ==
  /\ mainQueue # <<>>
  /\ LET a == Head(mainQueue) IN
     /\ requests' = [requests EXCEPT ![a.request].stage = "done"]
     /\ IF controller = "gone" \/ a.error
        THEN UNCHANGED <<indicator, controller>>
        ELSE indicator' = FALSE /\ openMapStoryBoard
  /\ mainQueue' = Tail(mainQueue)
  /\ UNCHANGED <<screenVars, currentUser, accounts>>

\* Faulty variant: an answer is taken for stale once the indicator stopped.
Completion_IgnoreLate ==
  /\ mainQueue # <<>>
  /\ LET a == Head(mainQueue) IN
     /\ requests' = [requests EXCEPT ![a.request].stage = "done"]
     /\ IF controller = "gone"
        THEN UNCHANGED <<indicator, controller>>
        ELSE /\ indicator' = FALSE
             /\ IF a.error \/ ~indicator
                THEN UNCHANGED controller ELSE openMapStoryBoard
  /\ mainQueue' = Tail(mainQueue)
  /\ UNCHANGED <<screenVars, currentUser, accounts>>

\* [weak self]: nothing happens once the controller is gone.
Completion ==
  /\ mainQueue # <<>>
  /\ LET a == Head(mainQueue) IN
     /\ requests' = [requests EXCEPT ![a.request].stage = "done"]
     /\ IF controller = "gone"
        THEN UNCHANGED <<indicator, controller>>
        ELSE /\ indicator' = FALSE
             /\ IF a.error THEN UNCHANGED controller ELSE openMapStoryBoard
  /\ mainQueue' = Tail(mainQueue)
  /\ UNCHANGED <<screenVars, currentUser, accounts>>

\* The replaced root view controller is released some time later.
Deinit ==
  /\ controller = "replaced"
  /\ controller' = "gone"
  /\ UNCHANGED <<screenVars, indicator, requests, mainQueue, currentUser,
                 accounts>>

----------------------------------------------------------------------------
storyboardText == [email |-> Empty, password |-> PasswordText,
                   confirm |-> ConfirmText]

\* A launch shows the storyboard's screen: the button enabled, nothing typed.
ScreenInit ==
  /\ segment = SignUp
  /\ text = storyboardText
  /\ focus = NoField
  /\ signEnabled = TRUE
  /\ indicator = FALSE
  /\ controller = "shown"
  /\ requests = <<>>
  /\ mainQueue = <<>>

Init ==
  /\ ScreenInit
  /\ accounts \in [EmailInputs \ {Empty} -> PasswordInputs \cup {NoPassword}]
  /\ \A e \in DOMAIN accounts :
        accounts[e] # NoPassword => count[accounts[e]] >= MinPassword
  /\ currentUser \in {NoUser} \cup
        {e \in DOMAIN accounts : accounts[e] # NoPassword}

User ==
  \/ \E f \in Fields : Focus(f)
  \/ \E t \in EmailInputs \cup PasswordInputs : Type(t)
  \/ didSingMethodChange
  \/ didSignButtonClicked

FIRAuth(i) ==
  \/ Refuse(i)
  \/ CreateAccount(i)
  \/ VerifyPassword(i)
  \/ ServerError(i)
  \/ RetrieveUser(i)
  \/ RetrieveUserFails(i)

Next ==
  \/ User
  \/ \E i \in DOMAIN requests : FIRAuth(i)
  \/ Completion
  \/ Deinit

Spec == Init /\ [][Next]_vars

\* Every network call of FIRAuth ends (its fetcher times out), the work queue
\* and the main queue are drained.  The user and the release of the controller
\* are not obliged to anything.
Fairness ==
  /\ \A i \in 1..MaxRequests : WF_vars(i \in DOMAIN requests /\ FIRAuth(i))
  /\ WF_vars(Completion)

FairSpec == Spec /\ Fairness

----------------------------------------------------------------------------
(* Properties. *)

\* Every variable holds a value of its kind.
TypeOK ==
  /\ segment \in {SignUp, SignIn}
  /\ text \in [Fields -> Texts]
  /\ focus \in Fields \cup {NoField}
  /\ signEnabled \in BOOLEAN
  /\ indicator \in BOOLEAN
  /\ controller \in {"shown", "replaced", "gone"}
  /\ requests \in Seq(Requests)
  /\ mainQueue \in Seq(Answers)
  /\ currentUser \in Texts \cup {NoUser}
  /\ accounts \in [EmailInputs \ {Empty} -> Texts \cup {NoPassword}]

\* The fields the chosen way of signing asks a password in.
passwordFields == IF segment = SignUp THEN {"password", "confirm"} ELSE {"password"}

\* An enabled button vouches for every password field that is not being
\* edited: an editingDidEnd handler checked it and nothing changed it since.
\* (The email is not vouched for: the storyboard's button starts enabled.)
EnabledMeansChecked ==
  signEnabled => \A f \in passwordFields \ {focus} : isPasswordValid(text[f])

\* No createUser request carries a password shorter than Firebase's limit,
\* although didSignUpClick checks no length and the field being edited is
\* unchecked: its confirmation was checked and is equal to it.
SignUpPasswordLongEnough ==
  \A i \in DOMAIN requests :
    requests[i].kind = SignUp => count[requests[i].password] >= MinPassword

\* The indicator turns only while the newest request is unanswered, and never
\* on a screen that has been left.
IndicatorMeansWaiting ==
  indicator => /\ requests # <<>>
               /\ requests[Len(requests)].stage # "done"
               /\ controller = "shown"

\* A map opened when every request was a sign-in belongs to a user one of
\* them named with the right password, however many were under way.
SignInOpensForItsUser ==
  (/\ controller # "shown"
   /\ \A i \in DOMAIN requests : requests[i].kind = SignIn)
  => \E i \in DOMAIN requests :
       /\ currentUser = requests[i].email
       /\ accounts[currentUser] = requests[i].password

\* The indicator does not turn for ever.
IndicatorStops == indicator ~> ~indicator

\* A request that succeeded takes the user to the map, also when an older
\* request is answered by an error around it.
SuccessOpensMap ==
  (\E k \in DOMAIN mainQueue : ~mainQueue[k].error) ~> (controller # "shown")
=============================================================================
