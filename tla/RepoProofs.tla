----------------------------- MODULE RepoProofs -----------------------------
(***************************************************************************)
(* Proofs about Repo, for every set of users, keys and photo ids and any   *)
(* number of saves, fetches, reconnections and launches.                   *)
(***************************************************************************)
EXTENDS Repo, SequenceTheorems, TLAPS

----------------------------------------------------------------------------
(* The inductive invariant. *)

\* Save s has called setValue; it did so before save t; not after it.
InHistory(s) == \E m \in DOMAIN issued : issued[m] = s

Before(s, t) ==
  \E m, n \in DOMAIN issued : m < n /\ issued[m] = s /\ issued[n] = t

NoLater(s, t) ==
  \E m, n \in DOMAIN issued : m <= n /\ issued[m] = s /\ issued[n] = t

\* The record of save s, or of a save that called setValue later.
Held(s) == NoLater(s, db[saves[s].owner][saves[s].key])

\* setValue is called once by a save, after its image was stored.
IssuedOnce == \A m, n \in DOMAIN issued : issued[m] = issued[n] => m = n

IssuedStored ==
  \A m \in DOMAIN issued :
    /\ issued[m] \in DOMAIN saves
    /\ issued[m] \in images
    /\ saves[issued[m]].owner \in Users
    /\ saves[issued[m]].key \in Keys
    /\ saves[issued[m]].stage \notin {"uploading", "url"}

\* What the stages, the client and the server know has called setValue.
AllIssued ==
  /\ \A s \in DOMAIN saves : saves[s].stage \in {"put", "acked"} => InHistory(s)
  /\ \A i \in DOMAIN puts : InHistory(puts[i].save)
  /\ \A u \in Users, k \in Keys : db[u][k] \in SaveIds => InHistory(db[u][k])

\* The server applies the puts from the first one on.
AppliedPrefix ==
  \A i, j \in DOMAIN puts : i < j /\ puts[j].applied => puts[i].applied

\* What was applied on this connection, or acknowledged, is on the server or
\* was replaced by a later record.
AppliedHeld == \A i \in DOMAIN puts : puts[i].applied => Held(puts[i].save)

AckedHeld == \A s \in DOMAIN saves : saves[s].stage = "acked" => Held(s)

\* An acknowledged save is older than every outstanding put.
AckedFirst ==
  \A s \in DOMAIN saves : saves[s].stage = "acked" =>
    \A i \in DOMAIN puts : Before(s, puts[i].save)

SaveInv ==
  /\ IssuedOnce /\ IssuedStored /\ AllIssued /\ PutsMatchSaves
  /\ AppliedPrefix /\ AppliedHeld /\ AckedHeld /\ AckedFirst

\* Every listener and every listen is of a call of getAllPhotos.
FetchInv ==
  /\ fetches <= fetchCount
  /\ unackedListensCount <= fetchCount
  /\ OncePerFetch
  /\ DeferredAwaitsListen

IInv == TypeOK /\ FetchInv /\ SaveInv

----------------------------------------------------------------------------
(* The shapes of what an action leaves. *)

\* The components of a save, of a put and of the history.
LEMMA ElementTypes ==
  ASSUME TypeOK
  PROVE  /\ DOMAIN saves = 1..Len(saves) /\ Len(saves) \in Nat
         /\ DOMAIN saves \subseteq SaveIds
         /\ \A s \in DOMAIN saves :
              /\ saves[s] \in Saves
              /\ saves[s].id \in PhotoIds
              /\ saves[s].key \in Keys \cup {NoId}
              /\ saves[s].owner \in Owners
              /\ saves[s].stage \in Stages
         /\ DOMAIN puts = 1..Len(puts) /\ Len(puts) \in Nat
         /\ \A i \in DOMAIN puts :
              /\ puts[i] \in Puts
              /\ puts[i].save \in SaveIds
              /\ puts[i].applied \in BOOLEAN
         /\ DOMAIN issued = 1..Len(issued) /\ Len(issued) \in Nat
         /\ \A m \in DOMAIN issued : issued[m] \in SaveIds
<1>1. saves \in Seq(Saves) /\ puts \in Seq(Puts) /\ issued \in Seq(SaveIds)
  BY DEF TypeOK
<1>2. /\ DOMAIN saves = 1..Len(saves) /\ Len(saves) \in Nat
      /\ DOMAIN puts = 1..Len(puts) /\ Len(puts) \in Nat
      /\ DOMAIN issued = 1..Len(issued) /\ Len(issued) \in Nat
  BY <1>1, LenProperties
<1>3. /\ \A s \in DOMAIN saves : saves[s] \in Saves
      /\ \A i \in DOMAIN puts : puts[i] \in Puts
      /\ \A m \in DOMAIN issued : issued[m] \in SaveIds
  BY <1>1, <1>2, ElementOfSeq
<1>4. DOMAIN saves \subseteq SaveIds
  BY <1>2, RepoAssumption DEF TypeOK, SaveIds
<1> QED
  BY <1>2, <1>3, <1>4 DEF Saves, Puts

\* Moving save s to another stage changes nothing else of any save.
LEMMA MoveShape ==
  ASSUME TypeOK, NEW s \in DOMAIN saves, NEW st \in Stages, move(s, st)
  PROVE  /\ saves' \in Seq(Saves)
         /\ Len(saves') = Len(saves)
         /\ DOMAIN saves' = DOMAIN saves
         /\ \A t \in DOMAIN saves :
              /\ saves'[t].key = saves[t].key
              /\ saves'[t].owner = saves[t].owner
              /\ saves'[t].stage = IF t = s THEN st ELSE saves[t].stage
<1> DEFINE e == [saves[s] EXCEPT !.stage = st]
<1>1. e \in Saves
  BY ElementTypes DEF Saves
<1>2. saves' = [saves EXCEPT ![s] = e]
  BY DEF move
<1>3. /\ saves' \in Seq(Saves)
      /\ Len(saves') = Len(saves)
      /\ \A t \in 1..Len(saves) : saves'[t] = IF t = s THEN e ELSE saves[t]
  BY <1>1, <1>2, ElementTypes, ExceptSeq DEF TypeOK
<1>4. DOMAIN saves' = DOMAIN saves
  BY <1>2
<1>5. ASSUME NEW t \in DOMAIN saves
      PROVE  /\ saves'[t].key = saves[t].key
             /\ saves'[t].owner = saves[t].owner
             /\ saves'[t].stage = IF t = s THEN st ELSE saves[t].stage
  BY <1>3, ElementTypes DEF Saves
<1> QED
  BY <1>3, <1>4, <1>5

\* Issuing the put of save s gives it its key and stage.
LEMMA IssueShape ==
  ASSUME TypeOK, NEW s \in DOMAIN saves, NEW k \in Keys,
         saves' = [saves EXCEPT ![s] = [@ EXCEPT !.stage = "put", !.key = k]]
  PROVE  /\ saves' \in Seq(Saves)
         /\ Len(saves') = Len(saves)
         /\ DOMAIN saves' = DOMAIN saves
         /\ \A t \in DOMAIN saves :
              /\ saves'[t].key = IF t = s THEN k ELSE saves[t].key
              /\ saves'[t].owner = saves[t].owner
              /\ saves'[t].stage = IF t = s THEN "put" ELSE saves[t].stage
<1> DEFINE e == [saves[s] EXCEPT !.stage = "put", !.key = k]
<1>1. e \in Saves
  BY ElementTypes DEF Saves, Stages
<1>2. saves' = [saves EXCEPT ![s] = e]
  OBVIOUS
<1>3. /\ saves' \in Seq(Saves)
      /\ Len(saves') = Len(saves)
      /\ \A t \in 1..Len(saves) : saves'[t] = IF t = s THEN e ELSE saves[t]
  BY <1>1, <1>2, ElementTypes, ExceptSeq DEF TypeOK
<1>4. DOMAIN saves' = DOMAIN saves
  BY <1>2
<1>5. ASSUME NEW t \in DOMAIN saves
      PROVE  /\ saves'[t].key = IF t = s THEN k ELSE saves[t].key
             /\ saves'[t].owner = saves[t].owner
             /\ saves'[t].stage = IF t = s THEN "put" ELSE saves[t].stage
  BY <1>3, ElementTypes DEF Saves
<1> QED
  BY <1>3, <1>4, <1>5

\* The oldest put, and the puts behind it.
LEMMA HeadOfPuts ==
  ASSUME TypeOK, puts # <<>>, NEW q, q = Tail(puts)
  PROVE  /\ 1 \in DOMAIN puts /\ Head(puts) = puts[1]
         /\ q \in Seq(Puts)
         /\ DOMAIN q = 1..(Len(puts) - 1)
         /\ \A i \in DOMAIN q : i + 1 \in DOMAIN puts /\ q[i] = puts[i + 1]
<1>1. puts \in Seq(Puts)
  BY DEF TypeOK
<1>2. /\ q \in Seq(Puts) /\ Len(q) = Len(puts) - 1
      /\ \A i \in 1..Len(q) : q[i] = puts[i + 1]
      /\ Len(puts) \in Nat \ {0}
  BY <1>1, HeadTailProperties, EmptySeq
<1>3. DOMAIN q = 1..Len(q) /\ DOMAIN puts = 1..Len(puts)
  BY <1>1, <1>2, LenProperties
<1> QED
  BY <1>1, <1>2, <1>3

\* A put is behind the ones already outstanding.
LEMMA AppendedPut ==
  ASSUME TypeOK, NEW p \in Puts, NEW q, q = Append(puts, p)
  PROVE  /\ q \in Seq(Puts)
         /\ DOMAIN q = 1..(Len(puts) + 1)
         /\ q[Len(puts) + 1] = p
         /\ \A i \in DOMAIN puts : i \in DOMAIN q /\ q[i] = puts[i]
         /\ \A i \in DOMAIN q : i \in DOMAIN puts \/ i = Len(puts) + 1
<1>1. puts \in Seq(Puts)
  BY DEF TypeOK
<1>2. /\ q \in Seq(Puts) /\ Len(q) = Len(puts) + 1
      /\ q[Len(puts) + 1] = p
      /\ \A i \in 1..Len(puts) : q[i] = puts[i]
  BY <1>1, AppendProperties
<1>3. DOMAIN q = 1..Len(q) /\ DOMAIN puts = 1..Len(puts) /\ Len(puts) \in Nat
  BY <1>1, <1>2, LenProperties
<1> QED
  BY <1>2, <1>3

\* The history only grows at its end.
LEMMA AppendedSave ==
  ASSUME TypeOK, NEW s \in SaveIds, issued' = Append(issued, s)
  PROVE  /\ issued' \in Seq(SaveIds)
         /\ DOMAIN issued' = 1..(Len(issued) + 1)
         /\ issued'[Len(issued) + 1] = s
         /\ \A m \in DOMAIN issued : m \in DOMAIN issued' /\ issued'[m] = issued[m]
         /\ \A m \in DOMAIN issued' : m \in DOMAIN issued \/ m = Len(issued) + 1
<1>1. issued \in Seq(SaveIds)
  BY DEF TypeOK
<1>2. /\ issued' \in Seq(SaveIds) /\ Len(issued') = Len(issued) + 1
      /\ issued'[Len(issued) + 1] = s
      /\ \A m \in 1..Len(issued) : issued'[m] = issued[m]
  BY <1>1, AppendProperties
<1>3. /\ DOMAIN issued' = 1..Len(issued')
      /\ DOMAIN issued = 1..Len(issued) /\ Len(issued) \in Nat
  BY <1>1, <1>2, LenProperties
<1> QED
  BY <1>2, <1>3

\* A new save is behind the ones there are and has not called setValue.
LEMMA AppendedPhoto ==
  ASSUME TypeOK, NEW id \in PhotoIds, savePhoto(id)
  PROVE  /\ saves' \in Seq(Saves) /\ Len(saves') <= MaxSaves
         /\ DOMAIN saves \subseteq DOMAIN saves'
         /\ \A t \in DOMAIN saves : saves'[t] = saves[t]
         /\ \A t \in DOMAIN saves' \ DOMAIN saves : saves'[t].stage = "uploading"
<1> DEFINE e == [id |-> id, key |-> id, owner |-> lazyOwner,
                 stage |-> "uploading"]
<1>1. lazyOwner \in Owners
  BY DEF TypeOK, lazyOwner
<1>2. e \in Saves
  BY <1>1, RepoAssumption DEF Saves, Stages
<1>3. saves' = Append(saves, e) /\ saves \in Seq(Saves) /\ Len(saves) < MaxSaves
  BY DEF savePhoto, TypeOK
<1>4. e.stage = "uploading"
  OBVIOUS
<1> HIDE DEF e
<1>5. /\ saves' \in Seq(Saves) /\ Len(saves') = Len(saves) + 1
      /\ saves'[Len(saves) + 1] = e
      /\ \A t \in 1..Len(saves) : saves'[t] = saves[t]
  BY <1>2, <1>3, AppendProperties
<1>6. /\ DOMAIN saves' = 1..Len(saves')
      /\ DOMAIN saves = 1..Len(saves) /\ Len(saves) \in Nat
  BY <1>3, <1>5, LenProperties
<1> QED
  BY <1>3, <1>4, <1>5, <1>6, RepoAssumption

\* The record of save s goes to its owner's node and to no other place.
LEMMA WriteShape ==
  ASSUME TypeOK, NEW s \in DOMAIN saves,
         saves[s].owner \in Users, saves[s].key \in Keys,
         db' = [db EXCEPT ![saves[s].owner] = write(@, s)]
  PROVE  /\ db' \in [Users -> [Keys -> Values]]
         /\ \A u \in Users, k \in Keys :
              db'[u][k] = IF u = saves[s].owner /\ k = saves[s].key
                          THEN s ELSE db[u][k]
<1>1. s \in Values
  BY ElementTypes DEF Values
<1> QED
  BY <1>1 DEF TypeOK, write

\* The client keeps its puts when the connection is lost, as not applied.
LEMMA ResentPuts ==
  ASSUME TypeOK,
         puts' = [i \in DOMAIN puts |-> [puts[i] EXCEPT !.applied = FALSE]]
  PROVE  /\ puts' \in Seq(Puts)
         /\ DOMAIN puts' = DOMAIN puts
         /\ \A i \in DOMAIN puts :
              puts'[i].save = puts[i].save /\ ~puts'[i].applied
<1>1. \A i \in DOMAIN puts : [puts[i] EXCEPT !.applied = FALSE] \in Puts
  BY ElementTypes DEF Puts
<1>2. puts' \in [1..Len(puts) -> Puts]
  BY <1>1, ElementTypes
<1>3. puts' \in Seq(Puts)
  BY <1>2, ElementTypes, SeqDef
<1>4. \A i \in DOMAIN puts :
        puts'[i].save = puts[i].save /\ ~puts'[i].applied
  BY ElementTypes DEF Puts
<1> QED
  BY <1>3, <1>4

\* Applying put i changes nothing else of the queue.
LEMMA AppliedPut ==
  ASSUME TypeOK, NEW i \in DOMAIN puts, puts' = [puts EXCEPT ![i].applied = TRUE]
  PROVE  /\ puts' \in Seq(Puts)
         /\ DOMAIN puts' = DOMAIN puts
         /\ \A j \in DOMAIN puts :
              /\ puts'[j].save = puts[j].save
              /\ puts'[j].applied = (j = i \/ puts[j].applied)
<1> DEFINE e == [puts[i] EXCEPT !.applied = TRUE]
<1>1. e \in Puts
  BY ElementTypes DEF Puts
<1>2. puts' = [puts EXCEPT ![i] = e]
  OBVIOUS
<1>3. /\ puts' \in Seq(Puts)
      /\ \A j \in 1..Len(puts) : puts'[j] = IF j = i THEN e ELSE puts[j]
  BY <1>1, <1>2, ElementTypes, ExceptSeq DEF TypeOK
<1>4. ASSUME NEW j \in DOMAIN puts
      PROVE  /\ puts'[j].save = puts[j].save
             /\ puts'[j].applied = (j = i \/ puts[j].applied)
  BY <1>3, ElementTypes DEF Puts
<1> QED
  BY <1>2, <1>3, <1>4

\* What dies with the process is lost; nothing else of a save changes.
LEMMA RelaunchShape ==
  ASSUME TypeOK, Relaunch
  PROVE  /\ saves' \in Seq(Saves)
         /\ Len(saves') = Len(saves)
         /\ DOMAIN saves' = DOMAIN saves
         /\ \A t \in DOMAIN saves :
              /\ saves'[t].key = saves[t].key
              /\ saves'[t].owner = saves[t].owner
              /\ saves'[t].stage = IF saves[t].stage \in Settled
                                   THEN saves[t].stage ELSE "lost"
<1> DEFINE g(t) == IF saves[t].stage \in Settled THEN saves[t]
                   ELSE [saves[t] EXCEPT !.stage = "lost"]
<1>1. saves' = [t \in DOMAIN saves |-> g(t)]
  BY DEF Relaunch
<1>2. \A t \in DOMAIN saves : g(t) \in Saves
  BY ElementTypes DEF Saves, Stages
<1>3. saves' \in [1..Len(saves) -> Saves]
  BY <1>1, <1>2, ElementTypes
<1>4. saves' \in Seq(Saves) /\ Len(saves') = Len(saves)
  BY <1>3, ElementTypes, SeqDef, LenProperties
<1>5. \A t \in DOMAIN saves :
        /\ saves'[t].key = saves[t].key
        /\ saves'[t].owner = saves[t].owner
        /\ saves'[t].stage = IF saves[t].stage \in Settled
                             THEN saves[t].stage ELSE "lost"
  BY <1>1, ElementTypes DEF Saves
<1> QED
  BY <1>1, <1>4, <1>5

----------------------------------------------------------------------------
(* Types, and the count of the listeners. *)

\* The first put belongs to a save whose owner and key are known.
LEMMA PutOwner ==
  ASSUME IInv, NEW i \in DOMAIN puts
  PROVE  /\ puts[i].save \in DOMAIN saves
         /\ saves[puts[i].save].owner \in Users
         /\ saves[puts[i].save].key \in Keys
BY DEF IInv, SaveInv, IssuedStored, AllIssued, InHistory

\* The completion of the answered put runs or is kept back for a listen.
LEMMA AnsweredPut ==
  ASSUME IInv, puts # <<>>, putAnswered
  PROVE  /\ UNCHANGED unackedListensCount
         /\ putsToAck' \in Seq(SaveIds)
         /\ putsToAck' # <<>> => putsToAck # <<>> \/ unackedListensCount > 0
<1>1. Head(puts).save \in SaveIds
  BY HeadOfPuts, ElementTypes DEF IInv
<1>2. /\ putsToAck \in Seq(SaveIds)
      /\ unackedListensCount \in Nat
  BY RepoAssumption DEF IInv, TypeOK
<1>3. Append(putsToAck, Head(puts).save) \in Seq(SaveIds)
  BY <1>1, <1>2, AppendProperties
<1> QED
  BY <1>2, <1>3 DEF putAnswered

\* The answer of a listen runs the completions kept back when it is the last
\* one that was missing.
LEMMA AnsweredListen ==
  ASSUME IInv, listenAnswered
  PROVE  /\ unackedListensCount' \in 0..MaxFetches
         /\ unackedListensCount' <= fetchCount
         /\ putsToAck' \in Seq(SaveIds)
         /\ putsToAck' # <<>> => unackedListensCount' > 0
<1>1. /\ putsToAck \in Seq(SaveIds) /\ <<>> \in Seq(SaveIds)
      /\ unackedListensCount \in 0..MaxFetches /\ fetchCount \in 0..MaxFetches
      /\ unackedListensCount <= fetchCount
  BY EmptySeq DEF IInv, TypeOK, FetchInv
<1> QED
  BY <1>1, RepoAssumption DEF listenAnswered

\* The key under which save s is written: its own, or a fresh one.
LEMMA IssuedKey ==
  ASSUME TypeOK, NEW s \in DOMAIN saves,
         NEW k \in IF saves[s].id # NoId THEN {saves[s].id}
                   ELSE freshKeys(saves[s].owner)
  PROVE  k \in Keys
BY ElementTypes, RepoAssumption DEF freshKeys

\* No step of Repo, of the two servers or of the process breaks the types or
\* makes a listener answer twice.
LEMMA TypeStep ==
  ASSUME IInv, [Next]_vars
  PROVE  TypeOK' /\ FetchInv'
<1> USE DEF FetchInv, OncePerFetch, DeferredAwaitsListen
<1>0. TypeOK /\ FetchInv
  BY DEF IInv
<1>1. ASSUME NEW id \in PhotoIds, savePhoto(id) PROVE TypeOK' /\ FetchInv'
  <2>1. lazyOwner \in Owners
    BY <1>0 DEF TypeOK, lazyOwner
  <2> QED
    BY <1>0, <1>1, <2>1, AppendedPhoto DEF savePhoto, TypeOK, fetchVars, listenVars
<1>2. ASSUME NEW s \in DOMAIN saves, StorageStores(s) PROVE TypeOK' /\ FetchInv'
  BY <1>0, <1>2, ElementTypes DEF StorageStores, TypeOK, appVars, fetchVars, listenVars
<1>3. ASSUME NEW s \in DOMAIN saves, putDataEnds(s) PROVE TypeOK' /\ FetchInv'
  <2>1. saves' \in Seq(Saves) /\ Len(saves') = Len(saves)
    BY <1>0, <1>3, MoveShape DEF putDataEnds, Stages
  <2> QED
    BY <1>0, <1>3, <2>1 DEF putDataEnds, TypeOK, appVars, fetchVars, listenVars
<1>4. ASSUME NEW s \in DOMAIN saves, downloadURLFails(s)
      PROVE  TypeOK' /\ FetchInv'
  <2>1. saves' \in Seq(Saves) /\ Len(saves') = Len(saves)
    BY <1>0, <1>4, MoveShape DEF downloadURLFails, Stages
  <2> QED
    BY <1>0, <1>4, <2>1 DEF downloadURLFails, TypeOK, appVars, fetchVars, listenVars
<1>5. ASSUME NEW s \in DOMAIN saves, downloadURL(s) PROVE TypeOK' /\ FetchInv'
  <2>1. CASE ~isValidPathString(saves[s].owner)
    BY <1>0, <1>5, <2>1
    DEF downloadURL, uploaPhotodBean, TypeOK, fetchVars, listenVars
  <2>2. CASE isValidPathString(saves[s].owner)
    <3>1. PICK k \in IF saves[s].id # NoId THEN {saves[s].id}
                     ELSE freshKeys(saves[s].owner) :
            saves' = [saves EXCEPT ![s] = [@ EXCEPT !.stage = "put", !.key = k]]
      BY <1>5, <2>2 DEF downloadURL, uploaPhotodBean
    <3>2. saves' \in Seq(Saves) /\ Len(saves') = Len(saves)
      BY <1>0, <3>1, IssuedKey, IssueShape
    <3>3. [save |-> s, applied |-> FALSE] \in Puts /\ s \in SaveIds
      BY <1>0, ElementTypes DEF Puts
    <3>4. puts' \in Seq(Puts) /\ issued' \in Seq(SaveIds)
      BY <1>0, <1>5, <2>2, <3>3, AppendedPut, AppendedSave
      DEF downloadURL, uploaPhotodBean
    <3> QED
      BY <1>0, <1>5, <2>2, <3>2, <3>4
      DEF downloadURL, uploaPhotodBean, TypeOK, fetchVars, listenVars
  <2> QED
    BY <2>1, <2>2
<1>6. CASE ServerApplies
  <2>1. PICK i \in DOMAIN puts :
          /\ db' = [db EXCEPT ![saves[puts[i].save].owner]
                      = write(@, puts[i].save)]
          /\ puts' = [puts EXCEPT ![i].applied = TRUE]
    BY <1>6 DEF ServerApplies
  <2>2. db' \in [Users -> [Keys -> Values]] /\ puts' \in Seq(Puts)
    BY <1>0, <2>1, PutOwner, WriteShape, AppliedPut
  <2> QED
    BY <1>0, <1>6, <2>2, SMTT(60) DEF ServerApplies, TypeOK, appVars, fetchVars, listenVars
<1>7. CASE ServerAcks
  <2>1. saves' \in Seq(Saves) /\ Len(saves') = Len(saves) /\ puts' \in Seq(Puts)
    BY <1>0, <1>7, HeadOfPuts, PutOwner, MoveShape
    DEF ServerAcks, putAnswered, Stages
  <2>2. UNCHANGED unackedListensCount /\ putsToAck' \in Seq(SaveIds)
        /\ (putsToAck' # <<>> => putsToAck # <<>> \/ unackedListensCount > 0)
    BY <1>0, <1>7, AnsweredPut DEF ServerAcks
  <2> QED
    BY <1>0, <1>7, <2>1, <2>2 DEF ServerAcks, TypeOK, appVars, fetchVars
<1>8. CASE ServerRefuses
  <2>1. saves' \in Seq(Saves) /\ Len(saves') = Len(saves) /\ puts' \in Seq(Puts)
    BY <1>0, <1>8, HeadOfPuts, PutOwner, MoveShape
    DEF ServerRefuses, putAnswered, Stages
  <2>2. UNCHANGED unackedListensCount /\ putsToAck' \in Seq(SaveIds)
        /\ (putsToAck' # <<>> => putsToAck # <<>> \/ unackedListensCount > 0)
    BY <1>0, <1>8, AnsweredPut DEF ServerRefuses
  <2> QED
    BY <1>0, <1>8, <2>1, <2>2 DEF ServerRefuses, TypeOK, appVars, fetchVars
<1>9. CASE Reconnect
  <2>1. puts' \in Seq(Puts)
    BY <1>0, <1>9, ResentPuts DEF Reconnect
  <2>2. reconnects' \in 0..MaxReconnects /\ reconnects' > 0
    BY <1>0, <1>9, RepoAssumption DEF Reconnect, TypeOK
  <2>3. unackedListensCount' \in 0..MaxFetches /\ unackedListensCount' <= fetchCount
    BY <1>0, <1>9, RepoAssumption DEF Reconnect, TypeOK
  <2> QED
    BY <1>0, <1>9, <2>1, <2>2, <2>3 DEF Reconnect, TypeOK, appVars, fetchVars
<1>10. CASE getAllPhotos
  <2>1. lazyOwner \in Owners
    BY <1>0 DEF TypeOK, lazyOwner
  <2>2. fetchCount' \in 0..MaxFetches /\ fetches' \in 0..MaxFetches
        /\ process' \in {"running", "cast", "path"} /\ FetchInv'
        /\ unackedListensCount' \in 0..MaxFetches
    BY <1>0, <1>10, RepoAssumption, SMTT(60) DEF getAllPhotos, TypeOK
  <2> QED
    BY <1>0, <1>10, <2>1, <2>2 DEF getAllPhotos, TypeOK
<1>11. CASE SnapshotArrives
  <2>1. /\ photosForDownload' \in [Keys -> Nat]
        /\ \A k \in Keys : photosForDownload'[k] <= photosForDownload[k] + 1
    <3> DEFINE complete(k) == view[k] = Complete
    <3>1. photosForDownload \in [Keys -> Nat]
      BY <1>0 DEF TypeOK
    <3>2. \/ photosForDownload' = photosForDownload
          \/ photosForDownload' =
               [k \in Keys |-> IF complete(k) THEN photosForDownload[k] + 1
                               ELSE photosForDownload[k]]
      BY <1>11 DEF SnapshotArrives
    <3> HIDE DEF complete
    <3> QED
      BY <3>1, <3>2
  <2>2. fetches' = fetches - 1 /\ fetches > 0 /\ fetchCount' = fetchCount
        /\ process' \in {"running", "cast", "path"}
    BY <1>0, <1>11 DEF SnapshotArrives, TypeOK
  <2>3. FetchInv' /\ fetches' \in 0..MaxFetches
    BY <1>0, <1>11, <2>1, <2>2, RepoAssumption
    DEF SnapshotArrives, TypeOK, listenVars
  <2> QED
    BY <1>0, <1>11, <2>1, <2>2, <2>3 DEF SnapshotArrives, TypeOK, listenVars
<1>12. CASE ListenRefused
  <2>1. /\ FetchInv' /\ fetches' \in 0..MaxFetches
        /\ unackedListensCount' \in 0..MaxFetches
        /\ putsToAck' \in Seq(SaveIds)
    BY <1>0, <1>12, AnsweredListen, RepoAssumption DEF ListenRefused, TypeOK
  <2> QED
    BY <1>0, <1>12, <2>1 DEF ListenRefused, TypeOK, appVars
<1>13. CASE Relaunch
  <2>1. saves' \in Seq(Saves) /\ Len(saves') = Len(saves)
    BY <1>0, <1>13, RelaunchShape
  <2>2. /\ FetchInv' /\ launches' \in 1..MaxLaunches
        /\ fetches' \in 0..MaxFetches /\ fetchCount' \in 0..MaxFetches
        /\ photosForDownload' \in [Keys -> Nat] /\ puts' \in Seq(Puts)
        /\ unackedListensCount' \in 0..MaxFetches /\ putsToAck' \in Seq(SaveIds)
    BY <1>0, <1>13, RepoAssumption, EmptySeq DEF Relaunch, TypeOK
  <2> QED
    BY <1>0, <1>13, <2>1, <2>2 DEF Relaunch, TypeOK
<1>14. ASSUME NEW u \in Owners, AuthChanges(u) PROVE TypeOK' /\ FetchInv'
  BY <1>0, <1>14 DEF AuthChanges, TypeOK, appVars, fetchVars, listenVars
<1>15. CASE UNCHANGED vars
  BY <1>0, <1>15 DEF TypeOK, vars
<1>16. CASE ListenResponse
  <2>1. /\ FetchInv' /\ unackedListensCount' \in 0..MaxFetches
        /\ putsToAck' \in Seq(SaveIds)
    BY <1>0, <1>16, AnsweredListen DEF ListenResponse, fetchVars
  <2> QED
    BY <1>0, <1>16, <2>1 DEF ListenResponse, TypeOK, appVars, fetchVars
<1> QED
  BY <1>1, <1>2, <1>3, <1>4, <1>5, <1>6, <1>7, <1>8, <1>9, <1>10, <1>11, <1>12,
     <1>13, <1>14, <1>15, <1>16 DEF Next, Server, Callback

----------------------------------------------------------------------------
(* The order of the records. *)

\* A step that only begins saves, stores images, or moves saves that have not
\* called setValue, disturbs nothing of what is known of the records.
LEMMA QuietStep ==
  ASSUME IInv, UNCHANGED <<puts, issued, db>>,
         images \subseteq images',
         DOMAIN saves \subseteq DOMAIN saves',
         \A t \in DOMAIN saves :
           /\ saves'[t].key = saves[t].key
           /\ saves'[t].owner = saves[t].owner
           /\ \/ saves'[t].stage = saves[t].stage
              \/ /\ saves[t].stage \in {"uploading", "url"}
                 /\ saves'[t].stage \in {"url", "failed"},
         \A t \in DOMAIN saves' \ DOMAIN saves : saves'[t].stage = "uploading"
  PROVE  SaveInv'
<1>0. SaveInv
  BY DEF IInv
<1>1. \A s, t : (Before(s, t) <=> Before(s, t)')
                /\ (NoLater(s, t) <=> NoLater(s, t)')
                /\ (InHistory(s) <=> InHistory(s)')
  BY DEF Before, NoLater, InHistory
<1>2. \A s : InHistory(s) => /\ s \in DOMAIN saves /\ s \in DOMAIN saves'
                             /\ saves'[s].key = saves[s].key
                             /\ saves'[s].owner = saves[s].owner
                             /\ saves'[s].stage = saves[s].stage
  BY <1>0 DEF SaveInv, IssuedStored, InHistory
<1>3. \A s : InHistory(s) => (Held(s) <=> Held(s)')
  BY <1>1, <1>2 DEF Held
<1>4. \A s \in DOMAIN saves' :
        /\ saves'[s].stage \in {"put", "acked"} => 
             s \in DOMAIN saves /\ saves[s].stage = saves'[s].stage
  OBVIOUS
<1>5. IssuedOnce' /\ AppliedPrefix'
  BY <1>0 DEF SaveInv, IssuedOnce, AppliedPrefix
<1>6. IssuedStored'
  BY <1>0, <1>2 DEF SaveInv, IssuedStored, InHistory
<1>7. AllIssued'
  BY <1>0, <1>1, <1>4 DEF SaveInv, AllIssued
<1>8. PutsMatchSaves'
  <2>1. \A s \in DOMAIN saves' :
          saves'[s].stage = "put" <=> \E i \in DOMAIN puts : puts[i].save = s
    BY <1>0, <1>2, <1>4 DEF SaveInv, AllIssued, PutsMatchSaves
  <2> QED
    BY <1>0, <2>1 DEF SaveInv, PutsMatchSaves
<1>9. AppliedHeld'
  BY <1>0, <1>3 DEF SaveInv, AppliedHeld, AllIssued
<1>10. AckedHeld'
  BY <1>0, <1>3, <1>4 DEF SaveInv, AckedHeld, AllIssued
<1>11. AckedFirst'
  BY <1>0, <1>1, <1>4 DEF SaveInv, AckedFirst
<1> QED
  BY <1>5, <1>6, <1>7, <1>8, <1>9, <1>10, <1>11 DEF SaveInv

\* The calls and answers before setValue are such steps.
LEMMA BeforeSetValue ==
  ASSUME IInv, NEW s \in DOMAIN saves,
         StorageStores(s) \/ putDataEnds(s) \/ downloadURLFails(s)
  PROVE  SaveInv'
<1>0. TypeOK
  BY DEF IInv
<1>1. CASE StorageStores(s)
  <2>1. UNCHANGED <<saves, puts, issued, db>> /\ images \subseteq images'
    BY <1>1 DEF StorageStores
  <2> QED
    BY <2>1, QuietStep
<1>2. CASE putDataEnds(s)
  <2>1. /\ UNCHANGED <<images, puts, issued, db>>
        /\ saves[s].stage = "uploading" /\ move(s, "url")
    BY <1>2 DEF putDataEnds
  <2>2. "url" \in Stages
    BY DEF Stages
  <2>3. /\ DOMAIN saves' = DOMAIN saves
        /\ \A t \in DOMAIN saves :
              /\ saves'[t].key = saves[t].key
              /\ saves'[t].owner = saves[t].owner
              /\ saves'[t].stage = IF t = s THEN "url" ELSE saves[t].stage
    BY <1>0, <2>1, <2>2, MoveShape
  <2> QED
    BY <2>1, <2>3, QuietStep
<1>3. CASE downloadURLFails(s)
  <2>1. /\ UNCHANGED <<images, puts, issued, db>>
        /\ saves[s].stage = "url" /\ move(s, "failed")
    BY <1>3 DEF downloadURLFails
  <2>2. "failed" \in Stages
    BY DEF Stages
  <2>3. /\ DOMAIN saves' = DOMAIN saves
        /\ \A t \in DOMAIN saves :
              /\ saves'[t].key = saves[t].key
              /\ saves'[t].owner = saves[t].owner
              /\ saves'[t].stage = IF t = s THEN "failed" ELSE saves[t].stage
    BY <1>0, <2>1, <2>2, MoveShape
  <2> QED
    BY <2>1, <2>3, QuietStep
<1> QED
  BY <1>1, <1>2, <1>3

\* setValue: the save joins the history and the outstanding puts at the end.
LEMMA SetValue ==
  ASSUME IInv, NEW s \in DOMAIN saves, downloadURL(s),
         isValidPathString(saves[s].owner)
  PROVE  SaveInv'
<1>0. TypeOK /\ SaveInv
  BY DEF IInv
<1>1. PICK k \in IF saves[s].id # NoId THEN {saves[s].id}
                 ELSE freshKeys(saves[s].owner) :
        saves' = [saves EXCEPT ![s] = [@ EXCEPT !.stage = "put", !.key = k]]
  BY DEF downloadURL, uploaPhotodBean
<1>2. k \in Keys
  BY <1>0, <1>1, IssuedKey
<1>3. /\ DOMAIN saves' = DOMAIN saves
      /\ \A t \in DOMAIN saves :
           /\ saves'[t].key = IF t = s THEN k ELSE saves[t].key
           /\ saves'[t].owner = saves[t].owner
           /\ saves'[t].stage = IF t = s THEN "put" ELSE saves[t].stage
  BY <1>0, <1>1, <1>2, IssueShape
<1>4. /\ saves[s].stage = "url" /\ s \in images /\ UNCHANGED <<images, db>>
      /\ puts' = Append(puts, [save |-> s, applied |-> FALSE])
      /\ issued' = Append(issued, s)
  BY DEF downloadURL, uploaPhotodBean
<1>5. saves[s].owner \in Users
  BY <1>0, ElementTypes DEF isValidPathString, Owners
<1>6. s \in SaveIds /\ [save |-> s, applied |-> FALSE] \in Puts
  BY <1>0, ElementTypes DEF Puts
<1>7. /\ DOMAIN issued' = 1..(Len(issued) + 1)
      /\ issued'[Len(issued) + 1] = s
      /\ \A m \in DOMAIN issued : m \in DOMAIN issued' /\ issued'[m] = issued[m]
      /\ \A m \in DOMAIN issued' : m \in DOMAIN issued \/ m = Len(issued) + 1
      /\ DOMAIN issued = 1..Len(issued) /\ Len(issued) \in Nat
  BY <1>0, <1>4, <1>6, AppendedSave, ElementTypes
<1>8. /\ Len(puts) + 1 \in DOMAIN puts'
      /\ puts'[Len(puts) + 1].save = s /\ ~puts'[Len(puts) + 1].applied
      /\ \A i \in DOMAIN puts : i \in DOMAIN puts' /\ puts'[i] = puts[i]
      /\ \A i \in DOMAIN puts' : i \in DOMAIN puts \/ i = Len(puts) + 1
      /\ DOMAIN puts = 1..Len(puts) /\ Len(puts) \in Nat
  BY <1>0, <1>4, <1>6, AppendedPut, ElementTypes
<1>9. ~InHistory(s)
  BY <1>0, <1>4 DEF SaveInv, IssuedStored, InHistory
<1>10. /\ InHistory(s)'
       /\ \A t : InHistory(t) => InHistory(t)' /\ Before(t, s)'
       /\ \A t, v : Before(t, v) => Before(t, v)'
       /\ \A t, v : NoLater(t, v) => NoLater(t, v)'
  BY <1>7 DEF InHistory, Before, NoLater
<1>11. \A t : InHistory(t) => /\ t \in DOMAIN saves /\ t # s
                              /\ (Held(t) => Held(t)')
  <2> SUFFICES ASSUME NEW t, InHistory(t)
               PROVE  t \in DOMAIN saves /\ t # s /\ (Held(t) => Held(t)')
    OBVIOUS
  <2>1. t \in DOMAIN saves /\ t # s
    BY <1>0, <1>9 DEF SaveInv, IssuedStored, InHistory
  <2>2. saves'[t].owner = saves[t].owner /\ saves'[t].key = saves[t].key
    BY <1>3, <2>1
  <2> QED
    BY <1>4, <1>10, <2>1, <2>2 DEF Held
<1>12. IssuedOnce'
  BY <1>0, <1>7, <1>9 DEF SaveInv, IssuedOnce, InHistory
<1>13. IssuedStored'
  <2> SUFFICES ASSUME NEW m \in DOMAIN issued'
               PROVE  /\ issued'[m] \in DOMAIN saves'
                      /\ issued'[m] \in images'
                      /\ saves'[issued'[m]].owner \in Users
                      /\ saves'[issued'[m]].key \in Keys
                      /\ saves'[issued'[m]].stage \notin {"uploading", "url"}
    BY DEF IssuedStored
  <2>1. CASE m \in DOMAIN issued
    BY <1>0, <1>2, <1>3, <1>4, <1>7, <2>1 DEF SaveInv, IssuedStored
  <2>2. CASE m = Len(issued) + 1
    BY <1>2, <1>3, <1>4, <1>5, <1>7, <2>2
  <2> QED
    BY <1>7, <2>1, <2>2
<1>14. AllIssued'
  <2>1. \A t \in DOMAIN saves' : saves'[t].stage \in {"put", "acked"}
                                   => InHistory(t)'
    BY <1>0, <1>3, <1>10 DEF SaveInv, AllIssued
  <2>2. \A i \in DOMAIN puts' : \E m \in DOMAIN issued' : issued'[m] = puts'[i].save
    <3> SUFFICES ASSUME NEW i \in DOMAIN puts'
                 PROVE  \E m \in DOMAIN issued' : issued'[m] = puts'[i].save
      OBVIOUS
    <3>1. CASE i \in DOMAIN puts
      <4>1. InHistory(puts[i].save)
        BY <1>0, <3>1 DEF SaveInv, AllIssued
      <4>2. puts'[i].save = puts[i].save
        BY <1>8, <3>1
      <4> QED
        BY <1>7, <4>1, <4>2 DEF InHistory
    <3>2. CASE i = Len(puts) + 1
      BY <1>7, <1>8, <3>2
    <3> QED
      BY <1>8, <3>1, <3>2
  <2>3. \A u \in Users, c \in Keys :
          db'[u][c] \in SaveIds =>
            \E m \in DOMAIN issued' : issued'[m] = db'[u][c]
    BY <1>0, <1>4, <1>7 DEF SaveInv, AllIssued, InHistory
  <2> QED
    BY <2>1, <2>2, <2>3 DEF AllIssued, InHistory
<1>15. PutsMatchSaves'
  <2>1. ASSUME NEW t \in DOMAIN saves'
        PROVE  saves'[t].stage = "put" <=> \E i \in DOMAIN puts' : puts'[i].save = t
    <3>1. CASE t = s
      BY <1>3, <1>8, <3>1
    <3>2. CASE t # s
      <4>1. saves'[t].stage = saves[t].stage
        BY <1>3, <3>2
      <4>2. (\E i \in DOMAIN puts' : puts'[i].save = t)
              <=> \E i \in DOMAIN puts : puts[i].save = t
        BY <1>8, <3>2
      <4> QED
        BY <1>0, <1>3, <4>1, <4>2 DEF SaveInv, PutsMatchSaves
    <3> QED
      BY <3>1, <3>2
  <2>2. ASSUME NEW i \in DOMAIN puts', NEW j \in DOMAIN puts', i < j
        PROVE  \E m, n \in DOMAIN issued' :
                 m < n /\ issued'[m] = puts'[i].save /\ issued'[n] = puts'[j].save
    <3>1. i \in DOMAIN puts
      BY <1>8, <2>2
    <3>2. CASE j \in DOMAIN puts
      <4>1. PICK m \in DOMAIN issued, n \in DOMAIN issued :
              m < n /\ issued[m] = puts[i].save /\ issued[n] = puts[j].save
        BY <1>0, <2>2, <3>1, <3>2 DEF SaveInv, PutsMatchSaves
      <4> QED
        BY <1>7, <1>8, <3>1, <3>2, <4>1
    <3>3. CASE j = Len(puts) + 1
      <4>1. PICK m \in DOMAIN issued : issued[m] = puts[i].save
        BY <1>0, <3>1 DEF SaveInv, AllIssued, InHistory
      <4> QED
        BY <1>7, <1>8, <3>1, <3>3, <4>1
    <3> QED
      BY <1>8, <3>2, <3>3
  <2> QED
    BY <2>1, <2>2 DEF PutsMatchSaves
<1>16. AppliedPrefix'
  BY <1>0, <1>8 DEF SaveInv, AppliedPrefix
<1>17. AppliedHeld'
  <2> SUFFICES ASSUME NEW i \in DOMAIN puts', puts'[i].applied,
                      NEW t, t = puts'[i].save
               PROVE  Held(t)'
    BY DEF AppliedHeld, Held, NoLater
  <2>1. i \in DOMAIN puts /\ puts'[i] = puts[i]
    BY <1>8
  <2>2. InHistory(t) /\ Held(t)
    BY <1>0, <2>1 DEF SaveInv, AllIssued, AppliedHeld
  <2> QED
    BY <1>11, <2>2
<1>18. AckedHeld'
  <2> SUFFICES ASSUME NEW t \in DOMAIN saves', saves'[t].stage = "acked"
               PROVE  Held(t)'
    BY DEF AckedHeld
  <2>1. t \in DOMAIN saves /\ saves[t].stage = "acked"
    BY <1>3
  <2> QED
    BY <1>0, <1>11, <2>1 DEF SaveInv, AllIssued, AckedHeld
<1>19. AckedFirst'
  <2> SUFFICES ASSUME NEW t \in DOMAIN saves', saves'[t].stage = "acked",
                      NEW i \in DOMAIN puts'
               PROVE  \E m, n \in DOMAIN issued' :
                        m < n /\ issued'[m] = t /\ issued'[n] = puts'[i].save
    BY DEF AckedFirst, Before
  <2>1. t \in DOMAIN saves /\ saves[t].stage = "acked"
    BY <1>3
  <2>2. CASE i \in DOMAIN puts
    <3>1. PICK m \in DOMAIN issued, n \in DOMAIN issued :
            m < n /\ issued[m] = t /\ issued[n] = puts[i].save
      BY <1>0, <2>1, <2>2 DEF SaveInv, AckedFirst, Before
    <3> QED
      BY <1>7, <1>8, <2>2, <3>1
  <2>3. CASE i = Len(puts) + 1
    <3>1. PICK m \in DOMAIN issued : issued[m] = t
      BY <1>0, <2>1 DEF SaveInv, AllIssued, InHistory
    <3> QED
      BY <1>7, <1>8, <2>3, <3>1
  <2> QED
    BY <1>8, <2>2, <2>3
<1> QED
  BY <1>12, <1>13, <1>14, <1>15, <1>16, <1>17, <1>18, <1>19 DEF SaveInv

\* The server applies the first put it has not seen: what it replaces is older,
\* for the acknowledged saves and the puts before it are.
LEMMA ApplyStep ==
  ASSUME IInv, ServerApplies
  PROVE  SaveInv'
<1>0. TypeOK /\ SaveInv
  BY DEF IInv
<1>1. PICK i \in DOMAIN puts :
        /\ ~puts[i].applied
        /\ \A j \in 1..i - 1 : puts[j].applied
        /\ db' = [db EXCEPT ![saves[puts[i].save].owner] = write(@, puts[i].save)]
        /\ puts' = [puts EXCEPT ![i].applied = TRUE]
        /\ UNCHANGED <<saves, images, issued>>
  BY DEF ServerApplies
<1> DEFINE s == puts[i].save
<1>2. /\ s \in DOMAIN saves /\ saves[s].owner \in Users /\ saves[s].key \in Keys
  BY PutOwner
<1>3. \A u \in Users, k \in Keys :
        db'[u][k] = IF u = saves[s].owner /\ k = saves[s].key THEN s ELSE db[u][k]
  BY <1>0, <1>1, <1>2, WriteShape
<1>4. /\ DOMAIN puts' = DOMAIN puts
      /\ \A j \in DOMAIN puts :
           /\ puts'[j].save = puts[j].save
           /\ puts'[j].applied = (j = i \/ puts[j].applied)
  BY <1>0, <1>1, AppliedPut
<1>5. InHistory(s)
  BY <1>0 DEF SaveInv, AllIssued
<1>6. /\ DOMAIN puts = 1..Len(puts) /\ Len(puts) \in Nat
      /\ DOMAIN issued = 1..Len(issued) /\ Len(issued) \in Nat
  BY <1>0, ElementTypes
<1>7. \A j \in DOMAIN puts : puts'[j].applied => j <= i
  BY <1>0, <1>1, <1>4, <1>6 DEF SaveInv, AppliedPrefix
<1>8. \A t : InHistory(t) => /\ t \in DOMAIN saves
                             /\ saves[t].owner \in Users /\ saves[t].key \in Keys
  BY <1>0 DEF SaveInv, IssuedStored, InHistory
<1> HIDE DEF s
\* What is held stays held if it is not newer than s.
<1>9. ASSUME NEW t, InHistory(t), NoLater(t, s), Held(t) \/ t = s
      PROVE  Held(t)'
  <2>1. db'[saves[t].owner][saves[t].key] \in {s, db[saves[t].owner][saves[t].key]}
    BY <1>3, <1>8, <1>9
  <2>2. CASE t = s
    <3>1. db'[saves[t].owner][saves[t].key] = s
      BY <1>2, <1>3, <2>2
    <3> QED
      BY <1>1, <1>9, <3>1 DEF Held, NoLater
  <2>3. CASE Held(t)
    BY <1>1, <1>9, <2>1, <2>3 DEF Held, NoLater
  <2> QED
    BY <1>9, <2>2, <2>3
<1>10. IssuedOnce' /\ IssuedStored'
  BY <1>0, <1>1 DEF SaveInv, IssuedOnce, IssuedStored
<1>11. AllIssued'
  <2>1. \A u \in Users, k \in Keys : db'[u][k] \in SaveIds =>
          \E m \in DOMAIN issued : issued[m] = db'[u][k]
    BY <1>0, <1>3, <1>5 DEF SaveInv, AllIssued, InHistory
  <2> QED
    BY <1>0, <1>1, <1>4, <2>1 DEF SaveInv, AllIssued, InHistory
<1>12. PutsMatchSaves'
  BY <1>0, <1>1, <1>4 DEF SaveInv, PutsMatchSaves
<1>13. AppliedPrefix'
  <2> SUFFICES ASSUME NEW j \in DOMAIN puts, NEW l \in DOMAIN puts,
                      j < l, puts'[l].applied
               PROVE  puts'[j].applied
    BY <1>4 DEF AppliedPrefix
  <2>1. j \in 1..i - 1
    BY <1>6, <1>7
  <2> QED
    BY <1>1, <1>4, <2>1
<1>14. AppliedHeld'
  <2> SUFFICES ASSUME NEW j \in DOMAIN puts, puts'[j].applied,
                      NEW t, t = puts'[j].save
               PROVE  Held(t)'
    BY <1>4 DEF AppliedHeld, Held, NoLater
  <2>1. t = puts[j].save /\ j <= i
    BY <1>4, <1>7
  <2>2. InHistory(t)
    BY <1>0, <2>1 DEF SaveInv, AllIssued
  <2>3. CASE j = i
    <3>1. t = s
      BY <2>1, <2>3 DEF s
    <3>2. NoLater(t, s)
      BY <1>5, <1>6, <3>1 DEF InHistory, NoLater
    <3> QED
      BY <1>9, <2>2, <3>1, <3>2
  <2>4. CASE j < i
    <3>1. puts[j].applied
      BY <1>1, <1>6, <2>4
    <3>2. Held(t)
      BY <1>0, <2>1, <3>1 DEF SaveInv, AppliedHeld
    <3>3. NoLater(t, s)
      <4>1. PICK m \in DOMAIN issued, n \in DOMAIN issued :
              m < n /\ issued[m] = t /\ issued[n] = s
        BY <1>0, <2>1, <2>4 DEF SaveInv, PutsMatchSaves, s
      <4> QED
        BY <1>6, <4>1 DEF NoLater
    <3> QED
      BY <1>9, <2>2, <3>2, <3>3
  <2> QED
    BY <1>6, <2>1, <2>3, <2>4
<1>15. AckedHeld'
  <2> SUFFICES ASSUME NEW t \in DOMAIN saves, saves[t].stage = "acked"
               PROVE  Held(t)'
    BY <1>1 DEF AckedHeld
  <2>1. InHistory(t) /\ Held(t)
    BY <1>0 DEF SaveInv, AllIssued, AckedHeld
  <2>2. PICK m \in DOMAIN issued, n \in DOMAIN issued :
          m < n /\ issued[m] = t /\ issued[n] = s
    BY <1>0 DEF SaveInv, AckedFirst, Before, s
  <2>3. NoLater(t, s)
    BY <1>6, <2>2 DEF NoLater
  <2> QED
    BY <1>9, <2>1, <2>3
<1>16. AckedFirst'
  BY <1>0, <1>1, <1>4 DEF SaveInv, AckedFirst, Before
<1> QED
  BY <1>10, <1>11, <1>12, <1>13, <1>14, <1>15, <1>16 DEF SaveInv

\* The oldest put is answered, by an acknowledgement if it was applied, by a
\* refusal if not.
LEMMA AnswerStep ==
  ASSUME IInv, ServerAcks \/ ServerRefuses
  PROVE  SaveInv'
<1>0. TypeOK /\ SaveInv
  BY DEF IInv
<1>1. /\ puts # <<>> /\ puts' = Tail(puts) /\ UNCHANGED <<images, issued, db>>
  BY DEF ServerAcks, ServerRefuses, putAnswered
<1>2. /\ 1 \in DOMAIN puts /\ Head(puts) = puts[1]
      /\ DOMAIN puts' = 1..(Len(puts) - 1)
      /\ \A i \in DOMAIN puts' : i + 1 \in DOMAIN puts /\ puts'[i] = puts[i + 1]
  BY <1>0, <1>1, HeadOfPuts
<1> DEFINE s == puts[1].save
<1>3. s \in DOMAIN saves
  BY <1>2, PutOwner
<1>4. PICK st \in {"acked", "failed"} :
        /\ move(s, st)
        /\ st = "acked" => puts[1].applied
  BY <1>2 DEF ServerAcks, ServerRefuses
<1>5. /\ DOMAIN saves' = DOMAIN saves
      /\ \A t \in DOMAIN saves :
           /\ saves'[t].key = saves[t].key
           /\ saves'[t].owner = saves[t].owner
           /\ saves'[t].stage = IF t = s THEN st ELSE saves[t].stage
  BY <1>0, <1>3, <1>4, MoveShape DEF Stages
<1>6. /\ DOMAIN puts = 1..Len(puts) /\ Len(puts) \in Nat
      /\ DOMAIN issued = 1..Len(issued) /\ Len(issued) \in Nat
  BY <1>0, ElementTypes
<1>7. InHistory(s)
  BY <1>0, <1>2 DEF SaveInv, AllIssued
<1>8. \A i \in DOMAIN puts' : Before(s, puts'[i].save)
  <2> SUFFICES ASSUME NEW i \in DOMAIN puts' PROVE Before(s, puts'[i].save)
    OBVIOUS
  <2>1. i + 1 \in DOMAIN puts /\ 1 < i + 1 /\ puts'[i] = puts[i + 1]
    BY <1>2, <1>6
  <2> QED
    BY <1>0, <1>2, <2>1 DEF SaveInv, PutsMatchSaves, Before
<1>9. \A i \in DOMAIN puts' : puts'[i].save # s
  BY <1>0, <1>6, <1>8 DEF SaveInv, IssuedOnce, Before
<1>10. \A t \in DOMAIN saves : Held(t) => Held(t)'
  BY <1>1, <1>5 DEF Held, NoLater
<1> HIDE DEF s
<1>11. IssuedOnce' /\ IssuedStored'
  BY <1>0, <1>1, <1>4, <1>5 DEF SaveInv, IssuedOnce, IssuedStored
<1>12. AllIssued'
  <2>1. \A t \in DOMAIN saves' : saves'[t].stage \in {"put", "acked"} => InHistory(t)
    BY <1>0, <1>5, <1>7 DEF SaveInv, AllIssued
  <2>2. \A i \in DOMAIN puts' : InHistory(puts'[i].save)
    BY <1>0, <1>2 DEF SaveInv, AllIssued
  <2> QED
    BY <1>0, <1>1, <2>1, <2>2 DEF SaveInv, AllIssued, InHistory
<1>13. PutsMatchSaves'
  <2>1. ASSUME NEW t \in DOMAIN saves
        PROVE  saves'[t].stage = "put" <=> \E i \in DOMAIN puts' : puts'[i].save = t
    <3>1. CASE t = s
      BY <1>4, <1>5, <1>9, <3>1
    <3>2. CASE t # s
      <4>1. saves[t].stage = "put" <=> \E i \in DOMAIN puts : puts[i].save = t
        BY <1>0 DEF SaveInv, PutsMatchSaves
      <4>2. ASSUME NEW i \in DOMAIN puts, puts[i].save = t
            PROVE  \E j \in DOMAIN puts' : puts'[j].save = t
        <5>1. i # 1
          BY <3>2, <4>2 DEF s
        <5>2. i - 1 \in DOMAIN puts' /\ puts'[i - 1] = puts[i]
          BY <1>2, <1>6, <5>1
        <5> QED
          BY <4>2, <5>2
      <4>3. ASSUME NEW j \in DOMAIN puts', puts'[j].save = t
            PROVE  \E i \in DOMAIN puts : puts[i].save = t
        BY <1>2, <4>3
      <4> QED
        BY <1>5, <3>2, <4>1, <4>2, <4>3
    <3> QED
      BY <3>1, <3>2
  <2>2. ASSUME NEW i \in DOMAIN puts', NEW j \in DOMAIN puts', i < j
        PROVE  \E m, n \in DOMAIN issued :
                 m < n /\ issued[m] = puts'[i].save /\ issued[n] = puts'[j].save
    <3>1. /\ i + 1 \in DOMAIN puts /\ j + 1 \in DOMAIN puts /\ i + 1 < j + 1
          /\ puts'[i] = puts[i + 1] /\ puts'[j] = puts[j + 1]
      BY <1>2, <1>6, <2>2
    <3> QED
      BY <1>0, <3>1 DEF SaveInv, PutsMatchSaves
  <2> QED
    BY <1>1, <1>5, <2>1, <2>2 DEF PutsMatchSaves
<1>14. AppliedPrefix'
  <2> SUFFICES ASSUME NEW i \in DOMAIN puts', NEW j \in DOMAIN puts',
                      i < j, puts'[j].applied
               PROVE  puts'[i].applied
    BY DEF AppliedPrefix
  <2>1. /\ i + 1 \in DOMAIN puts /\ j + 1 \in DOMAIN puts /\ i + 1 < j + 1
        /\ puts'[i] = puts[i + 1] /\ puts'[j] = puts[j + 1]
    BY <1>2, <1>6
  <2> QED
    BY <1>0, <2>1 DEF SaveInv, AppliedPrefix
<1>15. AppliedHeld'
  <2> SUFFICES ASSUME NEW i \in DOMAIN puts', puts'[i].applied,
                      NEW t, t = puts'[i].save
               PROVE  Held(t)'
    BY DEF AppliedHeld, Held, NoLater
  <2>1. i + 1 \in DOMAIN puts /\ puts'[i] = puts[i + 1]
    BY <1>2
  <2>2. Held(t) /\ t \in DOMAIN saves
    BY <1>0, <2>1, PutOwner DEF SaveInv, AppliedHeld
  <2> QED
    BY <1>10, <2>2
<1>16. AckedHeld'
  <2> SUFFICES ASSUME NEW t \in DOMAIN saves, saves'[t].stage = "acked"
               PROVE  Held(t)'
    BY <1>5 DEF AckedHeld
  <2>1. CASE t = s
    BY <1>0, <1>2, <1>4, <1>5, <1>10, <2>1 DEF SaveInv, AppliedHeld, s
  <2>2. CASE t # s
    BY <1>0, <1>5, <1>10, <2>2 DEF SaveInv, AckedHeld
  <2> QED
    BY <2>1, <2>2
<1>17. AckedFirst'
  <2> SUFFICES ASSUME NEW t \in DOMAIN saves, saves'[t].stage = "acked",
                      NEW i \in DOMAIN puts'
               PROVE  \E m, n \in DOMAIN issued :
                        m < n /\ issued[m] = t /\ issued[n] = puts'[i].save
    BY <1>1, <1>5 DEF AckedFirst, Before
  <2>1. CASE t = s
    BY <1>8, <2>1 DEF Before
  <2>2. CASE t # s
    <3>1. i + 1 \in DOMAIN puts /\ puts'[i] = puts[i + 1]
      BY <1>2
    <3> QED
      BY <1>0, <1>5, <2>2, <3>1 DEF SaveInv, AckedFirst, Before
  <2> QED
    BY <2>1, <2>2
<1> QED
  BY <1>11, <1>12, <1>13, <1>14, <1>15, <1>16, <1>17 DEF SaveInv

\* Sending everything again changes no order, and what was acknowledged is
\* older than what is sent.
LEMMA ResendStep ==
  ASSUME IInv, Reconnect
  PROVE  SaveInv'
<1>0. TypeOK /\ SaveInv
  BY DEF IInv
<1>1. /\ puts' = [i \in DOMAIN puts |-> [puts[i] EXCEPT !.applied = FALSE]]
      /\ UNCHANGED <<saves, images, issued, db>>
  BY DEF Reconnect
<1>2. /\ DOMAIN puts' = DOMAIN puts
      /\ \A i \in DOMAIN puts : puts'[i].save = puts[i].save /\ ~puts'[i].applied
  BY <1>0, <1>1, ResentPuts
<1>3. UNCHANGED <<saves, images, issued, db>>
  BY <1>1
<1>4. IssuedOnce' /\ IssuedStored' /\ AckedHeld'
  BY <1>0, <1>3 DEF SaveInv, IssuedOnce, IssuedStored, AckedHeld, Held, NoLater
<1>5. AllIssued' /\ PutsMatchSaves' /\ AckedFirst'
  BY <1>0, <1>2, <1>3
  DEF SaveInv, AllIssued, PutsMatchSaves, AckedFirst, InHistory, Before
<1>6. AppliedPrefix' /\ AppliedHeld'
  BY <1>2 DEF AppliedPrefix, AppliedHeld
<1> QED
  BY <1>4, <1>5, <1>6 DEF SaveInv

\* The death of the process takes the outstanding puts with it and leaves the
\* acknowledged saves.
LEMMA DeathStep ==
  ASSUME IInv, Relaunch
  PROVE  SaveInv'
<1>0. TypeOK /\ SaveInv
  BY DEF IInv
<1>1. puts' = <<>> /\ UNCHANGED <<images, issued, db>>
  BY DEF Relaunch
<1>2. /\ DOMAIN saves' = DOMAIN saves
      /\ \A t \in DOMAIN saves :
           /\ saves'[t].key = saves[t].key
           /\ saves'[t].owner = saves[t].owner
           /\ saves'[t].stage = IF saves[t].stage \in Settled
                                THEN saves[t].stage ELSE "lost"
  BY <1>0, RelaunchShape
<1>3. DOMAIN puts' = {}
  BY <1>1
<1>4. \A t \in DOMAIN saves : /\ saves'[t].stage # "put"
                              /\ (saves'[t].stage = "acked" <=> saves[t].stage = "acked")
                              /\ saves'[t].stage \in {"uploading", "url"}
                                   => saves[t].stage = saves'[t].stage
  BY <1>2 DEF Settled
<1>5. IssuedOnce' /\ IssuedStored'
  BY <1>0, <1>1, <1>2, <1>4 DEF SaveInv, IssuedOnce, IssuedStored
<1>6. AllIssued'
  BY <1>0, <1>1, <1>2, <1>3, <1>4 DEF SaveInv, AllIssued, InHistory
<1>7. PutsMatchSaves' /\ AppliedPrefix' /\ AppliedHeld' /\ AckedFirst'
  BY <1>2, <1>3, <1>4 DEF PutsMatchSaves, AppliedPrefix, AppliedHeld, AckedFirst
<1>8. AckedHeld'
  BY <1>0, <1>1, <1>2, <1>4 DEF SaveInv, AckedHeld, Held, NoLater
<1> QED
  BY <1>5, <1>6, <1>7, <1>8 DEF SaveInv

----------------------------------------------------------------------------
(* The invariant is inductive, and implies what the runs check. *)

\* At the launch nothing is saved, sent or fetched.
LEMMA InvInit == Init => IInv
<1> SUFFICES ASSUME Init PROVE IInv
  OBVIOUS
<1>1. /\ saves = <<>> /\ puts = <<>> /\ issued = <<>> /\ images = {}
      /\ fetches = 0 /\ fetchCount = 0
      /\ photosForDownload = [k \in Keys |-> 0]
      /\ unackedListensCount = 0 /\ putsToAck = <<>>
      /\ db \in [Users -> [Keys -> {Complete, Scalar, Absent}]]
  BY DEF Init
<1>2. TypeOK
  <2>1. db \in [Users -> [Keys -> Values]]
    BY <1>1 DEF Values
  <2> QED
    BY <1>1, <2>1, RepoAssumption DEF Init, TypeOK
<1>3. FetchInv
  BY <1>1 DEF FetchInv, OncePerFetch, DeferredAwaitsListen
<1>4. DOMAIN saves = {} /\ DOMAIN puts = {} /\ DOMAIN issued = {}
  BY <1>1
<1>5. \A u \in Users, k \in Keys : db[u][k] \notin SaveIds
  BY <1>1, RepoAssumption DEF SaveIds
<1>6. SaveInv
  BY <1>4, <1>5
  DEF SaveInv, IssuedOnce, IssuedStored, AllIssued, PutsMatchSaves,
      AppliedPrefix, AppliedHeld, AckedHeld, AckedFirst
<1> QED
  BY <1>2, <1>3, <1>6 DEF IInv

\* Every step of the app, of its client and of the servers keeps it.
LEMMA InvStep == IInv /\ [Next]_vars => IInv'
<1> SUFFICES ASSUME IInv, [Next]_vars PROVE IInv'
  OBVIOUS
<1>0. TypeOK
  BY DEF IInv
<1>1. SUFFICES SaveInv'
  BY TypeStep DEF IInv
<1>2. ASSUME NEW id \in PhotoIds, savePhoto(id) PROVE SaveInv'
  <2>1. UNCHANGED <<images, puts, issued, db>>
    BY <1>2 DEF savePhoto
  <2> QED
    BY <1>0, <1>2, <2>1, AppendedPhoto, QuietStep
<1>3. ASSUME NEW s \in DOMAIN saves, StorageStores(s) \/ Callback(s)
      PROVE  SaveInv'
  <2>1. CASE StorageStores(s) \/ putDataEnds(s) \/ downloadURLFails(s)
    BY <2>1, BeforeSetValue
  <2>2. CASE downloadURL(s) /\ isValidPathString(saves[s].owner)
    BY <2>2, SetValue
  <2>3. CASE downloadURL(s) /\ ~isValidPathString(saves[s].owner)
    <3>1. UNCHANGED <<saves, images, puts, issued, db>>
      BY <2>3 DEF downloadURL, uploaPhotodBean
    <3> QED
      BY <3>1, QuietStep
  <2> QED
    BY <1>3, <2>1, <2>2, <2>3 DEF Callback
<1>4. CASE ServerApplies \/ ServerAcks \/ ServerRefuses
  BY <1>4, ApplyStep, AnswerStep
<1>5. CASE Reconnect \/ Relaunch
  BY <1>5, ResendStep, DeathStep
<1>6. CASE \/ getAllPhotos \/ SnapshotArrives
           \/ ListenResponse \/ ListenRefused
           \/ \E u \in Owners : AuthChanges(u)
           \/ UNCHANGED vars
  <2>1. UNCHANGED <<saves, images, puts, issued, db>>
    BY <1>6
    DEF getAllPhotos, SnapshotArrives, ListenResponse, ListenRefused,
        AuthChanges, vars
  <2> QED
    BY <2>1, QuietStep
<1> QED
  BY <1>2, <1>3, <1>4, <1>5, <1>6 DEF Next, Server

\* The inductive invariant holds in every state.
THEOREM RepoInvariant == Spec => []IInv
BY InvInit, InvStep, PTL DEF Spec

\* The types of Repo's properties, of the client's queue and of the servers'
\* data hold whatever the app, its callbacks and the servers do.
THEOREM RepoTypes == Spec => []TypeOK
<1>1. IInv => TypeOK
  BY DEF IInv
<1> QED
  BY <1>1, RepoInvariant, PTL

\* However often a fetch is asked for, refused or answered, no key's photo is
\* appended more often than fetches ended.
THEOREM FetchedOnce == Spec => []OncePerFetch
<1>1. IInv => OncePerFetch
  BY DEF IInv, FetchInv
<1> QED
  BY <1>1, RepoInvariant, PTL

\* As long as no connection was lost, a completion that is kept back has a
\* listen on its way whose answer runs it.
THEOREM DeferredCompletions == Spec => []DeferredAwaitsListen
<1>1. IInv => DeferredAwaitsListen
  BY DEF IInv, FetchInv
<1> QED
  BY <1>1, RepoInvariant, PTL

\* A record reaches the client's queue or the server only after its image was
\* stored, whatever putData reported and whenever the process died.
THEOREM RecordsHaveImages == Spec => []ImageBeforeRecord
<1>1. IInv => ImageBeforeRecord
  BY DEF IInv, SaveInv, AllIssued, InHistory, IssuedStored, ImageBeforeRecord
<1> QED
  BY <1>1, RepoInvariant, PTL

\* The outstanding puts are the records the client owes, each once and in the
\* order of the setValue calls, through every reconnection.
THEOREM PutsInOrder == Spec => []PutsMatchSaves
<1>1. IInv => PutsMatchSaves
  BY DEF IInv, SaveInv
<1> QED
  BY <1>1, RepoInvariant, PTL

\* A save is found at its own place in the history.
LEMMA PlaceOf ==
  ASSUME IInv, NEW m \in DOMAIN issued
  PROVE  place(issued[m]) = m
<1>1. \A n \in DOMAIN issued : issued[n] = issued[m] => n = m
  BY DEF IInv, SaveInv, IssuedOnce
<1> QED
  BY <1>1 DEF place

\* An acknowledged record stays on the server until a record whose setValue
\* came later replaces it, although puts are sent again after a lost connection.
THEOREM AckedRecordsStay == Spec => []AckedDurable
<1>1. IInv => AckedDurable
  <2> SUFFICES ASSUME IInv, NEW s \in DOMAIN saves, saves[s].stage = "acked",
                      NEW v, v = db[saves[s].owner][saves[s].key]
               PROVE  v \in SaveIds /\ place(v) >= place(s)
    BY DEF AckedDurable
  <2>1. PICK m \in DOMAIN issued, n \in DOMAIN issued :
          m <= n /\ issued[m] = s /\ issued[n] = v
    BY DEF IInv, SaveInv, AckedHeld, Held, NoLater
  <2>2. place(s) = m /\ place(v) = n
    BY <2>1, PlaceOf
  <2>3. v \in SaveIds /\ m \in Nat /\ n \in Nat
    BY <2>1, ElementTypes DEF IInv
  <2> QED
    BY <2>1, <2>2, <2>3
<1> QED
  BY <1>1, RepoInvariant, PTL
=============================================================================
