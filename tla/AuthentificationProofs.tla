----------------------- MODULE AuthentificationProofs -----------------------
(***************************************************************************)
(* Proofs about Authentification, for every set of texts and every number  *)
(* of requests.                                                            *)
(***************************************************************************)
EXTENDS Authentification, SequenceTheorems, TLAPS

\* Moving request i to another stage changes nothing else of any request.
LEMMA StageUpdate ==
  ASSUME NEW rs \in Seq(Requests), NEW i \in DOMAIN rs, NEW st \in Stages
  PROVE  /\ [rs EXCEPT ![i].stage = st] \in Seq(Requests)
         /\ Len([rs EXCEPT ![i].stage = st]) = Len(rs)
         /\ DOMAIN [rs EXCEPT ![i].stage = st] = DOMAIN rs
         /\ \A j \in DOMAIN rs :
              LET r == [rs EXCEPT ![i].stage = st][j] IN
              /\ r.kind = rs[j].kind
              /\ r.email = rs[j].email
              /\ r.password = rs[j].password
              /\ r.stage = IF j = i THEN st ELSE rs[j].stage
<1> DEFINE q == [rs EXCEPT ![i].stage = st]
           e == [rs[i] EXCEPT !.stage = st]
<1>1. DOMAIN rs = 1..Len(rs) /\ \A j \in 1..Len(rs) : rs[j] \in Requests
  BY ElementOfSeq, LenProperties
<1>2. e \in Requests
  BY <1>1 DEF Requests
<1>3. q = [rs EXCEPT ![i] = e]
  OBVIOUS
<1>4. /\ q \in Seq(Requests)
      /\ Len(q) = Len(rs)
      /\ \A j \in 1..Len(rs) : q[j] = IF j = i THEN e ELSE rs[j]
  BY <1>1, <1>2, <1>3, ExceptSeq
<1>5. DOMAIN q = DOMAIN rs
  OBVIOUS
<1> HIDE DEF q
<1>6. ASSUME NEW j \in DOMAIN rs
      PROVE  /\ q[j].kind = rs[j].kind
             /\ q[j].email = rs[j].email
             /\ q[j].password = rs[j].password
             /\ q[j].stage = IF j = i THEN st ELSE rs[j].stage
  BY <1>1, <1>4 DEF Requests
<1> QED
  BY <1>4, <1>5, <1>6 DEF q

\* The components of a request.
LEMMA RequestTypes ==
  ASSUME NEW rs \in Seq(Requests), NEW i \in DOMAIN rs
  PROVE  /\ rs[i] \in Requests
         /\ rs[i].kind \in {SignUp, SignIn}
         /\ rs[i].email \in Texts
         /\ rs[i].password \in Texts
<1>1. rs[i] \in Requests
  BY ElementOfSeq, LenProperties
<1> QED
  BY <1>1 DEF Requests

----------------------------------------------------------------------------
\* A completion block on the main queue answers a request of this screen.
AnswersNameRequests ==
  \A k \in DOMAIN mainQueue : mainQueue[k].request \in DOMAIN requests

\* What every step of FIRAuth on request i does to requests and mainQueue.
LEMMA FIRAuthShape ==
  ASSUME NEW i \in DOMAIN requests, FIRAuth(i)
  PROVE  /\ \E st \in {"account", "queued"} :
              /\ requests' = [requests EXCEPT ![i].stage = st]
              /\ st = "account" => VerifyPassword(i) \/ CreateAccount(i)
         /\ \/ UNCHANGED mainQueue
            \/ \E b \in BOOLEAN :
                 mainQueue' = Append(mainQueue, [request |-> i, error |-> b])
         /\ UNCHANGED <<screenVars, indicator, controller>>
  BY DEF FIRAuth, Refuse, CreateAccount, VerifyPassword, ServerError,
         RetrieveUser, RetrieveUserFails, updateCurrentUser, enqueue

TypeInv == TypeOK /\ AnswersNameRequests

\* The answer at the head of the main queue, and the queue behind it.
LEMMA CompletionAnswers ==
  ASSUME TypeInv, mainQueue # <<>>
  PROVE  /\ Head(mainQueue) \in Answers
         /\ Head(mainQueue) = mainQueue[1]
         /\ 1 \in DOMAIN mainQueue
         /\ Head(mainQueue).request \in DOMAIN requests
         /\ Tail(mainQueue) \in Seq(Answers)
         /\ \A k \in DOMAIN Tail(mainQueue) :
              /\ k + 1 \in DOMAIN mainQueue
              /\ Tail(mainQueue)[k] = mainQueue[k + 1]
<1>1. mainQueue \in Seq(Answers)
  BY DEF TypeInv, TypeOK
<1>2. /\ Head(mainQueue) \in Answers
      /\ Tail(mainQueue) \in Seq(Answers)
      /\ Len(Tail(mainQueue)) = Len(mainQueue) - 1
      /\ \A k \in 1..Len(Tail(mainQueue)) : Tail(mainQueue)[k] = mainQueue[k + 1]
  BY <1>1, HeadTailProperties
<1>3. /\ DOMAIN mainQueue = 1..Len(mainQueue)
      /\ DOMAIN Tail(mainQueue) = 1..Len(Tail(mainQueue))
      /\ Len(mainQueue) \in Nat \ {0}
  BY <1>1, <1>2, LenProperties, EmptySeq
<1>4. 1 \in DOMAIN mainQueue /\ Head(mainQueue) = mainQueue[1]
  BY <1>1, <1>3
<1>5. mainQueue[1].request \in DOMAIN requests
  BY <1>4 DEF TypeInv, AnswersNameRequests
<1> QED
  BY <1>2, <1>3, <1>4, <1>5

\* A tap either submits nothing or appends one request made of the fields.
LEMMA ClickShape ==
  ASSUME TypeOK, didSignButtonClicked
  PROVE  \/ UNCHANGED <<requests, indicator>>
         \/ /\ indicator' \in BOOLEAN
            /\ requests' \in Seq(Requests)
            /\ Len(requests') = Len(requests) + 1
            /\ Len(requests) \in Nat
            /\ DOMAIN requests = 1..Len(requests)
            /\ DOMAIN requests' = 1..(Len(requests) + 1)
            /\ \A j \in 1..Len(requests) : requests'[j] = requests[j]
            /\ requests'[Len(requests) + 1] =
                 [kind |-> segment, email |-> text["email"],
                  password |-> text["password"], stage |-> "submitted"]
            /\ segment = SignUp => text["password"] = text["confirm"]
<1>1. CASE segment = SignUp /\ text["password"] # text["confirm"]
  BY <1>1 DEF didSignButtonClicked, didSignUpClick
<1>2. CASE segment = SignIn \/ text["password"] = text["confirm"]
  <2> DEFINE r == [kind |-> segment, email |-> text["email"],
                   password |-> text["password"], stage |-> "submitted"]
  <2>1. r \in Requests
    BY DEF TypeOK, Requests, Stages, Fields
  <2>2. submit(segment)
    BY <1>2 DEF didSignButtonClicked, didSignUpClick, didSignInClick, TypeOK,
       SignUp, SignIn
  <2>3. requests' = Append(requests, r) /\ indicator' \in BOOLEAN
    BY <2>2 DEF submit
  <2>4. segment = SignUp => text["password"] = text["confirm"]
    BY <1>2 DEF SignUp, SignIn
  <2>5. requests \in Seq(Requests)
    BY DEF TypeOK
  <2> HIDE DEF r
  <2>6. /\ requests' \in Seq(Requests)
        /\ Len(requests') = Len(requests) + 1
        /\ \A j \in 1..Len(requests) : requests'[j] = requests[j]
        /\ requests'[Len(requests) + 1] = r
    BY <2>1, <2>3, <2>5, AppendProperties
  <2>7. /\ DOMAIN requests' = 1..(Len(requests) + 1)
        /\ DOMAIN requests = 1..Len(requests)
        /\ Len(requests) \in Nat
    BY <2>5, <2>6, LenProperties
  <2> QED
    BY <2>3, <2>4, <2>6, <2>7 DEF r
<1> QED
  BY <1>1, <1>2 DEF TypeOK

\* The screen as the storyboard and viewDidLoad leave it has the right types.
LEMMA TypeInit == Init => TypeInv
<1> SUFFICES ASSUME Init PROVE TypeInv
  OBVIOUS
<1>1. text \in [Fields -> Texts]
  BY TextsAssumption DEF Init, ScreenInit, storyboardText, Fields
<1>2. requests \in Seq(Requests) /\ mainQueue \in Seq(Answers)
  BY EmptySeq DEF Init, ScreenInit, storyboardText
<1>3. accounts \in [EmailInputs \ {Empty} -> Texts \cup {NoPassword}]
  BY TextsAssumption DEF Init, ScreenInit, storyboardText
<1>4. currentUser \in Texts \cup {NoUser}
  BY TextsAssumption DEF Init, ScreenInit, storyboardText
<1>5. AnswersNameRequests
  BY DEF Init, ScreenInit, storyboardText, AnswersNameRequests
<1> QED
  BY <1>1, <1>2, <1>3, <1>4, <1>5 DEF Init, ScreenInit, storyboardText, TypeInv, TypeOK

\* Every handler, every step of FIRAuth and every completion block keeps the
\* types, and an answer on the main queue names a request that was made.
LEMMA TypeStep == TypeInv /\ [Next]_vars => TypeInv'
<1> SUFFICES ASSUME TypeInv, [Next]_vars PROVE TypeInv'
  OBVIOUS
<1> USE DEF TypeInv
<1>1. CASE User
  <2>1. CASE \E f \in Fields : Focus(f)
    <3>1. EditEnd(focus) \in BOOLEAN
      BY DEF EditEnd, TypeOK, isEmailValid, isInputFieldsValid,
             isPasswordValid, Fields, NoField
    <3>2. \A f \in Fields : EditBegan(f) \in [Fields -> Texts]
      BY TextsAssumption DEF EditBegan, TypeOK
    <3> QED
      BY <2>1, <3>1, <3>2 DEF Focus, TypeOK, AnswersNameRequests
  <2>2. CASE \E t \in EmailInputs \cup PasswordInputs : Type(t)
    BY <2>2, TextsAssumption DEF Type, TypeOK, AnswersNameRequests, Fields
  <2>3. CASE didSingMethodChange
    <3>1. clearFields \in [Fields -> Texts]
      BY TextsAssumption DEF clearFields
    <3>2. segment' \in {SignUp, SignIn}
      BY <2>3 DEF didSingMethodChange, TypeOK, SignUp, SignIn
    <3>3. text' \in [Fields -> Texts]
      BY <2>3, <3>1 DEF didSingMethodChange, TypeOK
    <3> QED
      BY <2>3, <3>2, <3>3 DEF didSingMethodChange, TypeOK, AnswersNameRequests
  <2>4. CASE didSignButtonClicked
    <3>1. /\ requests' \in Seq(Requests)
          /\ DOMAIN requests \subseteq DOMAIN requests'
          /\ indicator' \in BOOLEAN
      <4>1. CASE UNCHANGED <<requests, indicator>>
        BY <4>1 DEF TypeOK
      <4>2. CASE ~UNCHANGED <<requests, indicator>>
        BY <2>4, <4>2, ClickShape
      <4> QED
        BY <4>1, <4>2
    <3> QED
      BY <2>4, <3>1
         DEF didSignButtonClicked, screenVars, TypeOK, AnswersNameRequests
  <2> QED
    BY <1>1, <2>1, <2>2, <2>3, <2>4 DEF User
<1>2. ASSUME NEW i \in DOMAIN requests, FIRAuth(i) PROVE TypeInv'
  <2>1. requests' \in Seq(Requests) /\ DOMAIN requests' = DOMAIN requests
    <3>1. PICK st \in {"account", "queued"} :
            requests' = [requests EXCEPT ![i].stage = st]
      BY <1>2, FIRAuthShape
    <3>2. st \in Stages /\ requests \in Seq(Requests)
      BY DEF Stages, TypeOK
    <3> QED
      BY <3>1, <3>2, StageUpdate
  <2>2. mainQueue' \in Seq(Answers) /\ AnswersNameRequests'
    <3>1. CASE UNCHANGED mainQueue
      BY <2>1, <3>1 DEF TypeOK, AnswersNameRequests
    <3>2. ASSUME NEW b \in BOOLEAN,
                 mainQueue' = Append(mainQueue, [request |-> i, error |-> b])
          PROVE  mainQueue' \in Seq(Answers) /\ AnswersNameRequests'
      <4> DEFINE a == [request |-> i, error |-> b]
      <4>1. a \in Answers
        BY LenProperties DEF TypeOK, Answers
      <4>2. a.request = i
        OBVIOUS
      <4>3. mainQueue' = Append(mainQueue, a)
        BY <3>2
      <4> HIDE DEF a
      <4>4. mainQueue \in Seq(Answers)
        BY DEF TypeOK
      <4>5. /\ mainQueue' \in Seq(Answers)
            /\ Len(mainQueue') = Len(mainQueue) + 1
            /\ \A k \in 1..Len(mainQueue) : mainQueue'[k] = mainQueue[k]
            /\ mainQueue'[Len(mainQueue) + 1] = a
        BY <4>1, <4>3, <4>4, AppendProperties
      <4>6. DOMAIN mainQueue' = 1..Len(mainQueue) + 1
            /\ DOMAIN mainQueue = 1..Len(mainQueue)
            /\ Len(mainQueue) \in Nat
        BY <4>4, <4>5, LenProperties
      <4> QED
        BY <2>1, <4>2, <4>5, <4>6 DEF AnswersNameRequests
    <3> QED
      BY <1>2, <3>1, <3>2, FIRAuthShape
  <2>3. requests[i].email \in Texts /\ requests[i].password \in Texts
    BY RequestTypes DEF TypeOK
  <2>4. currentUser' \in Texts \cup {NoUser}
    BY <1>2, <2>3 DEF TypeOK, FIRAuth, Refuse, CreateAccount,
       VerifyPassword, ServerError, RetrieveUser, RetrieveUserFails,
       updateCurrentUser
  <2>5. accounts' \in [EmailInputs \ {Empty} -> Texts \cup {NoPassword}]
    BY <1>2, <2>3 DEF TypeOK, FIRAuth, Refuse, CreateAccount,
       VerifyPassword, ServerError, RetrieveUser, RetrieveUserFails
  <2>6. UNCHANGED <<screenVars, indicator, controller>>
    BY <1>2, FIRAuthShape
  <2> QED
    BY <2>1, <2>2, <2>4, <2>5, <2>6 DEF TypeOK, screenVars
<1>3. CASE Completion
  <2>1. /\ Head(mainQueue).request \in DOMAIN requests
        /\ mainQueue' \in Seq(Answers)
    BY <1>3, CompletionAnswers DEF Completion
  <2>2. requests' \in Seq(Requests) /\ DOMAIN requests' = DOMAIN requests
    BY <1>3, <2>1, StageUpdate DEF Completion, TypeOK, Stages
  <2>3. AnswersNameRequests'
    BY <1>3, <2>2, CompletionAnswers DEF Completion, AnswersNameRequests
  <2> QED
    BY <1>3, <2>1, <2>2, <2>3
       DEF Completion, TypeOK, openMapStoryBoard, screenVars
<1>4. CASE Deinit
  BY <1>4 DEF Deinit, TypeOK, AnswersNameRequests, screenVars
<1>5. CASE UNCHANGED vars
  BY <1>5 DEF vars, TypeOK, AnswersNameRequests
<1> QED
  BY <1>1, <1>2, <1>3, <1>4, <1>5 DEF Next

\* The types hold throughout every run of the login screen.
LEMMA TypeInvariant == Spec => []TypeInv
  BY TypeInit, TypeStep, PTL DEF Spec

\* Every variable keeps its type, whatever the number of requests.
THEOREM TypeCorrect == Spec => []TypeOK
<1>1. TypeInv => TypeOK
  BY DEF TypeInv
<1> QED
  BY <1>1, TypeInvariant, PTL

----------------------------------------------------------------------------
(* What is submitted.  The button's check, EnabledMeansChecked, is what makes *)
(* the length of submitted passwords inductive: the tap itself checks only   *)
(* that password and confirmation are equal.                                 *)

PasswordInv == EnabledMeansChecked /\ SignUpPasswordLongEnough

\* didSignUpClick: the field being edited is unchecked, but it equals its
\* confirmation, and one of the two was checked when its editing ended.
LEMMA ClickSubmitsLongPassword ==
  ASSUME TypeOK, EnabledMeansChecked, signEnabled, segment = SignUp,
         text["password"] = text["confirm"]
  PROVE  count[text["password"]] >= MinPassword
<1>1. CASE focus # "password"
  BY <1>1 DEF EnabledMeansChecked, passwordFields, isPasswordValid
<1>2. CASE focus = "password"
  BY <1>2 DEF EnabledMeansChecked, passwordFields, isPasswordValid
<1> QED
  BY <1>1, <1>2

\* The storyboard's button starts enabled over the storyboard's texts, which
\* are long enough, and nothing has been submitted.
LEMMA PasswordInit == Init => PasswordInv
<1> SUFFICES ASSUME Init PROVE PasswordInv
  OBVIOUS
<1>1. SignUpPasswordLongEnough
  BY DEF Init, ScreenInit, storyboardText, SignUpPasswordLongEnough
<1>2. PasswordText # Empty /\ ConfirmText # Empty
  BY TextsAssumption, PasswordAssumption
<1>3. EnabledMeansChecked
  BY <1>2, PasswordAssumption
     DEF Init, ScreenInit, storyboardText, EnabledMeansChecked, passwordFields, isPasswordValid, SignUp
<1> QED
  BY <1>1, <1>3 DEF PasswordInv

\* No handler leaves the button enabled over a short password, and no tap
\* submits one to createUser.
LEMMA PasswordStep == TypeInv /\ PasswordInv /\ [Next]_vars => PasswordInv'
<1> SUFFICES ASSUME TypeInv, PasswordInv, [Next]_vars PROVE PasswordInv'
  OBVIOUS
<1> USE DEF TypeInv, PasswordInv
<1>1. CASE User
  <2>1. ASSUME NEW f \in Fields, Focus(f) PROVE PasswordInv'
    <3>1. SignUpPasswordLongEnough'
      BY <2>1 DEF Focus, SignUpPasswordLongEnough
    <3>2. \A g \in Fields \ {f} : text'[g] = text[g]
      BY <2>1 DEF Focus, EditBegan, TypeOK
    <3>3. passwordFields' = passwordFields /\ passwordFields \subseteq Fields
      BY <2>1 DEF Focus, passwordFields, Fields
    <3>4. CASE focus = NoField
      <4>1. signEnabled' = signEnabled
        BY <2>1, <3>4 DEF Focus, EditEnd, NoField
      <4>2. focus \notin Fields
        BY <3>4 DEF NoField, Fields
      <4> QED
        BY <2>1, <3>1, <3>2, <3>3, <4>1, <4>2
           DEF Focus, EnabledMeansChecked, isPasswordValid
    <3>5. CASE focus \in Fields
      <4>1. signEnabled' => isInputFieldsValid(text, segment)
        BY <2>1, <3>5 DEF Focus, EditEnd, Fields
      <4>2. signEnabled' => \A g \in passwordFields : isPasswordValid(text[g])
        BY <4>1 DEF isInputFieldsValid, passwordFields
      <4> QED
        BY <2>1, <3>1, <3>2, <3>3, <4>2
           DEF Focus, EnabledMeansChecked, isPasswordValid
    <3> QED
      BY <3>4, <3>5 DEF TypeOK
  <2>2. ASSUME NEW t \in EmailInputs \cup PasswordInputs, Type(t)
        PROVE  PasswordInv'
    BY <2>2 DEF Type, TypeOK, EnabledMeansChecked, SignUpPasswordLongEnough,
                passwordFields, isPasswordValid, Fields
  <2>3. CASE didSingMethodChange
    BY <2>3 DEF didSingMethodChange, EnabledMeansChecked,
                SignUpPasswordLongEnough
  <2>4. CASE didSignButtonClicked
    <3>1. EnabledMeansChecked'
      BY <2>4 DEF didSignButtonClicked, screenVars, EnabledMeansChecked,
                  passwordFields, isPasswordValid
    <3>2. signEnabled
      BY <2>4 DEF didSignButtonClicked
    <3>3. SignUpPasswordLongEnough'
      BY <2>4, <3>2, ClickShape, ClickSubmitsLongPassword
         DEF SignUpPasswordLongEnough
    <3> QED
      BY <3>1, <3>3
  <2> QED
    BY <1>1, <2>1, <2>2, <2>3, <2>4 DEF User
<1>2. ASSUME NEW i \in DOMAIN requests, FIRAuth(i) PROVE PasswordInv'
  <2>1. PICK st \in {"account", "queued"} :
          requests' = [requests EXCEPT ![i].stage = st]
    BY <1>2, FIRAuthShape
  <2>2. st \in Stages /\ requests \in Seq(Requests)
    BY DEF Stages, TypeOK
  <2>3. SignUpPasswordLongEnough'
    BY <2>1, <2>2, StageUpdate DEF SignUpPasswordLongEnough
  <2> QED
    BY <1>2, <2>3, FIRAuthShape
       DEF screenVars, EnabledMeansChecked, passwordFields, isPasswordValid
<1>3. CASE Completion
  <2>1. Head(mainQueue).request \in DOMAIN requests
    BY <1>3, CompletionAnswers DEF Completion
  <2>2. SignUpPasswordLongEnough'
    BY <1>3, <2>1, StageUpdate
       DEF Completion, SignUpPasswordLongEnough, TypeOK, Stages
  <2> QED
    BY <1>3, <2>2 DEF Completion, screenVars, EnabledMeansChecked,
                      passwordFields, isPasswordValid
<1>4. CASE Deinit
  BY <1>4 DEF Deinit, screenVars, EnabledMeansChecked,
              SignUpPasswordLongEnough, passwordFields, isPasswordValid
<1>5. CASE UNCHANGED vars
  BY <1>5 DEF vars, EnabledMeansChecked, SignUpPasswordLongEnough,
              passwordFields, isPasswordValid
<1> QED
  BY <1>1, <1>2, <1>3, <1>4, <1>5 DEF Next

\* Both hold throughout every run.
LEMMA PasswordInvariant == Spec => []PasswordInv
  BY PasswordInit, PasswordStep, TypeInvariant, PTL DEF Spec

\* An enabled button always vouches for the password fields not being edited.
THEOREM ButtonVouches == Spec => []EnabledMeansChecked
<1>1. PasswordInv => EnabledMeansChecked
  BY DEF PasswordInv
<1> QED
  BY <1>1, PasswordInvariant, PTL

\* createUser is never asked for a password below Firebase's limit.
THEOREM SignUpPasswords == Spec => []SignUpPasswordLongEnough
<1>1. PasswordInv => SignUpPasswordLongEnough
  BY DEF PasswordInv
<1> QED
  BY <1>1, PasswordInvariant, PTL

----------------------------------------------------------------------------
(* The indicator. *)

\* A request starts the indicator, and the answers that finish it stop it.
LEMMA IndicatorStep ==
  TypeInv /\ IndicatorMeansWaiting /\ [Next]_vars => IndicatorMeansWaiting'
<1> SUFFICES ASSUME TypeInv, IndicatorMeansWaiting, [Next]_vars
             PROVE  IndicatorMeansWaiting'
  OBVIOUS
<1> USE DEF TypeInv
<1>1. CASE User
  <2>1. CASE UNCHANGED <<indicator, requests, controller>>
    BY <2>1 DEF IndicatorMeansWaiting
  <2>2. CASE didSignButtonClicked
    <3>1. controller' = "shown"
      BY <2>2 DEF didSignButtonClicked
    <3>2. CASE UNCHANGED <<requests, indicator>>
      BY <3>1, <3>2 DEF IndicatorMeansWaiting
    <3>3. CASE ~UNCHANGED <<requests, indicator>>
      <4>1. /\ requests' \in Seq(Requests)
            /\ Len(requests') = Len(requests) + 1
            /\ Len(requests) \in Nat
            /\ requests'[Len(requests')].stage = "submitted"
        BY <2>2, <3>3, ClickShape
      <4>2. requests' # <<>>
        BY <4>1, EmptySeq
      <4> QED
        BY <3>1, <4>1, <4>2 DEF IndicatorMeansWaiting
    <3> QED
      BY <3>2, <3>3
  <2> QED
    BY <1>1, <2>1, <2>2 DEF User, Focus, Type, didSingMethodChange
<1>2. ASSUME NEW i \in DOMAIN requests, FIRAuth(i)
      PROVE  IndicatorMeansWaiting'
  <2>1. PICK st \in {"account", "queued"} :
          requests' = [requests EXCEPT ![i].stage = st]
    BY <1>2, FIRAuthShape
  <2>2. st \in Stages /\ st # "done" /\ requests \in Seq(Requests)
    BY DEF Stages, TypeOK
  <2>3. /\ requests' \in Seq(Requests)
        /\ Len(requests') = Len(requests)
        /\ \A j \in DOMAIN requests :
             requests'[j].stage = IF j = i THEN st ELSE requests[j].stage
    BY <2>1, <2>2, StageUpdate
  <2>4. DOMAIN requests = 1..Len(requests) /\ Len(requests) \in Nat
    BY <2>2, LenProperties
  <2>5. requests # <<>> => requests' # <<>> /\ Len(requests) \in DOMAIN requests
    BY <2>2, <2>3, <2>4, EmptySeq
  <2>6. UNCHANGED <<indicator, controller>>
    BY <1>2, FIRAuthShape
  <2> QED
    BY <2>2, <2>3, <2>5, <2>6 DEF IndicatorMeansWaiting
<1>3. CASE Completion
  BY <1>3 DEF Completion, IndicatorMeansWaiting
<1>4. CASE Deinit
  BY <1>4 DEF Deinit, IndicatorMeansWaiting
<1>5. CASE UNCHANGED vars
  BY <1>5 DEF vars, IndicatorMeansWaiting
<1> QED
  BY <1>1, <1>2, <1>3, <1>4, <1>5 DEF Next

\* The indicator turns only while the newest request is unanswered, on a
\* screen that is still shown.
THEOREM IndicatorWaits == Spec => []IndicatorMeansWaiting
<1>1. Init => IndicatorMeansWaiting
  BY DEF Init, ScreenInit, storyboardText, IndicatorMeansWaiting
<1> QED
  BY <1>1, IndicatorStep, TypeInvariant, PTL DEF Spec

----------------------------------------------------------------------------
(* Whose map opens.  The strengthening follows a sign-in through FIRAuth: a  *)
(* verified request matches the server's account, and once a success waits   *)
(* on the main queue currentUser is the user of some verified request.       *)

Names(i) ==
  /\ currentUser = requests[i].email
  /\ accounts[currentUser] = requests[i].password

OnlySignIns == \A i \in DOMAIN requests : requests[i].kind = SignIn

VerifiedMatchAccounts ==
  \A i \in DOMAIN requests :
    requests[i].kind = SignIn /\ requests[i].stage = "account"
      => accounts[requests[i].email] = requests[i].password

SuccessHasUser ==
  (/\ OnlySignIns
   /\ \/ controller # "shown"
      \/ \E k \in DOMAIN mainQueue : ~mainQueue[k].error)
  => \E i \in DOMAIN requests : Names(i)

UserInv == VerifiedMatchAccounts /\ SuccessHasUser

\* An account's password is set once: by the request that creates it.
LEMMA AccountsKept ==
  ASSUME TypeInv, NEW i \in DOMAIN requests, FIRAuth(i),
         NEW e, NEW p \in Texts, accounts[e] = p
  PROVE  accounts'[e] = p
<1>1. CASE UNCHANGED accounts
  BY <1>1
<1>2. CASE CreateAccount(i)
  BY <1>2, BoundAssumption DEF CreateAccount, TypeInv, TypeOK
<1> QED
  BY <1>1, <1>2 DEF FIRAuth, Refuse, VerifyPassword, ServerError,
     RetrieveUser, RetrieveUserFails

\* An error on the main queue adds no success to it.
LEMMA AppendError ==
  ASSUME TypeInv, NEW i \in DOMAIN requests,
         NEW k \in DOMAIN Append(mainQueue, [request |-> i, error |-> TRUE]),
         ~Append(mainQueue, [request |-> i, error |-> TRUE])[k].error
  PROVE  k \in DOMAIN mainQueue /\ ~mainQueue[k].error
<1> DEFINE a == [request |-> i, error |-> TRUE]
<1>1. mainQueue \in Seq(Answers) /\ a \in Answers /\ a.error
  BY LenProperties DEF TypeInv, TypeOK, Answers
<1> HIDE DEF a
<1>2. /\ Append(mainQueue, a) \in Seq(Answers)
      /\ Len(Append(mainQueue, a)) = Len(mainQueue) + 1
      /\ \A j \in 1..Len(mainQueue) : Append(mainQueue, a)[j] = mainQueue[j]
      /\ Append(mainQueue, a)[Len(mainQueue) + 1] = a
  BY <1>1, AppendProperties
<1>3. /\ DOMAIN Append(mainQueue, a) = 1..(Len(mainQueue) + 1)
      /\ DOMAIN mainQueue = 1..Len(mainQueue)
      /\ Len(mainQueue) \in Nat
  BY <1>1, <1>2, LenProperties
<1>4. k \in 1..(Len(mainQueue) + 1) /\ ~Append(mainQueue, a)[k].error
  BY <1>3 DEF a
<1> QED
  BY <1>1, <1>2, <1>3, <1>4

\* A verified sign-in still matches its account, and a success on the main
\* queue has a current user whom a sign-in named, after every step.
LEMMA UserStep == TypeInv /\ UserInv /\ [Next]_vars => UserInv'
<1> SUFFICES ASSUME TypeInv, UserInv, [Next]_vars PROVE UserInv'
  OBVIOUS
<1> USE DEF TypeInv, UserInv
<1>1. CASE User
  <2>1. CASE UNCHANGED <<requests, controller, mainQueue, currentUser, accounts>>
    BY <2>1 DEF VerifiedMatchAccounts, SuccessHasUser, OnlySignIns, Names
  <2>2. CASE didSignButtonClicked
    <3>1. UNCHANGED <<controller, mainQueue, currentUser, accounts>>
      BY <2>2 DEF didSignButtonClicked
    <3>2. CASE UNCHANGED requests
      BY <2>1, <3>1, <3>2
    <3>3. CASE ~UNCHANGED requests
      <4>1. /\ Len(requests) \in Nat
            /\ DOMAIN requests = 1..Len(requests)
            /\ DOMAIN requests' = 1..(Len(requests) + 1)
            /\ \A j \in 1..Len(requests) : requests'[j] = requests[j]
            /\ requests'[Len(requests) + 1].stage = "submitted"
        BY <2>2, <3>3, ClickShape
      <4>2. VerifiedMatchAccounts'
        BY <3>1, <4>1 DEF VerifiedMatchAccounts
      <4>3. /\ OnlySignIns' => OnlySignIns
            /\ \A j \in DOMAIN requests : Names(j) => j \in DOMAIN requests' /\ Names(j)'
        BY <3>1, <4>1 DEF OnlySignIns, Names
      <4> QED
        BY <3>1, <4>2, <4>3 DEF SuccessHasUser
    <3> QED
      BY <3>2, <3>3
  <2> QED
    BY <1>1, <2>1, <2>2 DEF User, Focus, Type, didSingMethodChange
<1>2. ASSUME NEW i \in DOMAIN requests, FIRAuth(i) PROVE UserInv'
  <2>1. PICK st \in {"account", "queued"} :
          /\ requests' = [requests EXCEPT ![i].stage = st]
          /\ st = "account" => VerifyPassword(i) \/ CreateAccount(i)
    BY <1>2, FIRAuthShape
  <2>2. st \in Stages /\ requests \in Seq(Requests)
    BY DEF Stages, TypeOK
  <2>3. /\ DOMAIN requests' = DOMAIN requests
        /\ \A j \in DOMAIN requests :
             /\ requests'[j].kind = requests[j].kind
             /\ requests'[j].email = requests[j].email
             /\ requests'[j].password = requests[j].password
             /\ requests'[j].stage = IF j = i THEN st ELSE requests[j].stage
    BY <2>1, <2>2, StageUpdate
  <2>4. \A j \in DOMAIN requests :
          requests[j].email \in Texts /\ requests[j].password \in Texts
    BY <2>2, RequestTypes
  <2>5. \A j \in DOMAIN requests :
          accounts[requests[j].email] = requests[j].password
            => accounts'[requests[j].email] = requests[j].password
    BY <1>2, <2>4, AccountsKept
  <2>6. (st = "account" /\ requests[i].kind = SignIn)
          => accounts[requests[i].email] = requests[i].password
    BY <2>1 DEF VerifyPassword, CreateAccount, SignUp, SignIn
  <2>7. VerifiedMatchAccounts'
    BY <2>3, <2>5, <2>6 DEF VerifiedMatchAccounts
  <2>8. OnlySignIns' => OnlySignIns
    BY <2>3 DEF OnlySignIns
  <2>9. UNCHANGED controller
    BY <1>2, FIRAuthShape
  <2>10. SuccessHasUser'
    <3>1. CASE UNCHANGED currentUser /\ UNCHANGED mainQueue
      <4>1. \A j \in DOMAIN requests : Names(j) => Names(j)'
        BY <2>3, <2>5, <3>1 DEF Names
      <4> QED
        BY <2>3, <2>8, <2>9, <3>1, <4>1 DEF SuccessHasUser
    <3>2. CASE UNCHANGED currentUser
               /\ mainQueue' = Append(mainQueue, [request |-> i, error |-> TRUE])
      <4>1. \A j \in DOMAIN requests : Names(j) => Names(j)'
        BY <2>3, <2>5, <3>2 DEF Names
      <4>2. (\E k \in DOMAIN mainQueue' : ~mainQueue'[k].error)
              => \E k \in DOMAIN mainQueue : ~mainQueue[k].error
        BY <3>2, AppendError
      <4> QED
        BY <2>3, <2>8, <2>9, <4>1, <4>2 DEF SuccessHasUser
    <3>3. CASE RetrieveUser(i) /\ currentUser' = requests[i].email
      <4>1. requests[i].kind = SignIn => Names(i)'
        BY <2>3, <2>5, <3>3 DEF RetrieveUser, Names, VerifiedMatchAccounts
      <4> QED
        BY <2>3, <2>8, <4>1 DEF SuccessHasUser, OnlySignIns
    <3>4. CASE RetrieveUserFails(i) /\ requests[i].kind = SignUp
      BY <2>3, <3>4 DEF SuccessHasUser, OnlySignIns, SignUp, SignIn
    <3> QED
      BY <1>2, <3>1, <3>2, <3>3, <3>4 DEF FIRAuth, Refuse, CreateAccount,
         VerifyPassword, ServerError, RetrieveUser, RetrieveUserFails,
         updateCurrentUser, enqueue
  <2> QED
    BY <2>7, <2>10
<1>3. CASE Completion
  <2> DEFINE a == Head(mainQueue)
  <2>1. /\ a.request \in DOMAIN requests
        /\ a = mainQueue[1] /\ 1 \in DOMAIN mainQueue
        /\ \A k \in DOMAIN mainQueue' :
             k + 1 \in DOMAIN mainQueue /\ mainQueue'[k] = mainQueue[k + 1]
    BY <1>3, CompletionAnswers DEF Completion
  <2>2. requests' = [requests EXCEPT ![a.request].stage = "done"]
    BY <1>3 DEF Completion
  <2> HIDE DEF a
  <2>3. requests \in Seq(Requests) /\ "done" \in Stages
    BY DEF TypeOK, Stages
  <2>4. /\ DOMAIN requests' = DOMAIN requests
        /\ \A j \in DOMAIN requests :
             /\ requests'[j].kind = requests[j].kind
             /\ requests'[j].email = requests[j].email
             /\ requests'[j].password = requests[j].password
             /\ requests'[j].stage
                  = IF j = a.request THEN "done" ELSE requests[j].stage
    BY <2>1, <2>2, <2>3, StageUpdate
  <2>5. UNCHANGED <<currentUser, accounts>>
    BY <1>3 DEF Completion
  <2>6. VerifiedMatchAccounts'
    BY <2>4, <2>5 DEF VerifiedMatchAccounts
  <2>7. controller' # "shown" => controller # "shown" \/ ~mainQueue[1].error
    BY <1>3, <2>1 DEF Completion, a
  <2>8. \A j \in DOMAIN requests : Names(j) => Names(j)'
    BY <2>4, <2>5 DEF Names
  <2>9. SuccessHasUser'
    BY <2>1, <2>4, <2>7, <2>8 DEF SuccessHasUser, OnlySignIns
  <2> QED
    BY <2>6, <2>9
<1>4. CASE Deinit
  BY <1>4 DEF Deinit, VerifiedMatchAccounts, SuccessHasUser, OnlySignIns, Names
<1>5. CASE UNCHANGED vars
  BY <1>5 DEF vars, VerifiedMatchAccounts, SuccessHasUser, OnlySignIns, Names
<1> QED
  BY <1>1, <1>2, <1>3, <1>4, <1>5 DEF Next

\* A map that only sign-ins led to belongs to a user one of them named with
\* the password the server knows.
THEOREM SignInOpens == Spec => []SignInOpensForItsUser
<1>1. Init => UserInv
  BY DEF Init, ScreenInit, storyboardText, UserInv, VerifiedMatchAccounts, SuccessHasUser
<1>2. UserInv => SignInOpensForItsUser
  BY DEF UserInv, SuccessHasUser, OnlySignIns, Names, SignInOpensForItsUser
<1> QED
  BY <1>1, <1>2, UserStep, TypeInvariant, PTL DEF Spec
=============================================================================
