------------------------ MODULE PhotoTimelineProofs -------------------------
(***************************************************************************)
(* Proofs about the timeline, for any photos, months, tags and search      *)
(* texts and any order of the dictionary.                                  *)
(*                                                                         *)
(* The loops of dividePhotosIntoSections and filterPhotosToShow are        *)
(* recursive functions.  Each of them is first shown to have its equations *)
(* and then an invariant of its turns.                                     *)
(***************************************************************************)
EXTENDS PhotoTimeline, WellFoundedInduction, FiniteSetTheorems,
        SequenceTheorems, TLAPS

-----------------------------------------------------------------------------
(* Induction over the turns of a loop. *)

Less == {ss \in Nat \X Nat : ss[1] < ss[2]}

\* < is well-founded on the natural numbers.
LEMMA LessWellFounded == IsWellFoundedOn(Less, Nat)
<1>1. Less = OpToRel(<, Nat)
  BY Zenon DEF OpToRel, Less
<1> QED
  BY <1>1, NatLessThanWellFounded, Zenon

\* A set that has 0 and with each number the next one has all of them.
LEMMA SetInduction ==
  ASSUME NEW T, 0 \in T, \A n \in Nat : n \in T => n + 1 \in T
  PROVE  Nat \subseteq T
<1> SUFFICES ASSUME Nat \ T # {} PROVE FALSE
  OBVIOUS
<1>1. \E x \in Nat \ T : \A y \in Nat \ T : ~(<<y, x>> \in Less)
  <2>1. Nat \ T \subseteq Nat
    OBVIOUS
  <2> QED
    BY <2>1, LessWellFounded, WFMin, Zenon
<1>2. PICK x \in Nat \ T : \A y \in Nat \ T : ~(<<y, x>> \in Less)
  BY <1>1
<1>3. x # 0 /\ x - 1 \in Nat /\ x - 1 \notin T
  OBVIOUS
<1>4. <<x - 1, x>> \in Less
  BY <1>3 DEF Less
<1> QED
  BY <1>2, <1>3, <1>4

\* The loop of dividePhotosIntoSections starts with no sections and adds one
\* photo in each turn.
LEMMA DivideTurns ==
  ASSUME NEW S, NEW photos \in Seq(S), NEW title
  PROVE  \E f : /\ dividePhotosIntoSections(photos, title) = f[Len(photos)]
                /\ f[0] = noSections
                /\ \A n \in 1..Len(photos) :
                     f[n] = addPhoto(f[n - 1], photos[n], title[photos[n]])
<1> DEFINE body(f, k) == IF k = 0 THEN noSections
                         ELSE addPhoto(f[k - 1], photos[k], title[photos[k]])
           T == {n \in Nat : \E f : f = [k \in 0..n |-> body(f, k)]}
<1>1. 0 \in T
  <2>1. [k \in 0..0 |-> noSections] = [k \in 0..0 |-> body([j \in 0..0 |-> noSections], k)]
    OBVIOUS
  <2> QED
    BY <2>1
<1>2. ASSUME NEW n \in Nat, n \in T PROVE n + 1 \in T
  <2>1. PICK f : f = [k \in 0..n |-> body(f, k)]
    BY <1>2
  <2> DEFINE g == [k \in 0..(n + 1) |-> IF k = n + 1 THEN body(f, k) ELSE f[k]]
  <2>2. \A k \in 0..n : f[k] = body(f, k)
    BY <2>1, Zenon
  <2>3. \A k \in 0..(n + 1) : g[k] = body(g, k)
    <3> SUFFICES ASSUME NEW k \in 0..(n + 1) PROVE g[k] = body(g, k)
      OBVIOUS
    <3>1. CASE k = 0
      BY <3>1, <2>2
    <3>2. CASE k # 0
      <4>1. k - 1 \in 0..(n + 1) /\ g[k - 1] = f[k - 1]
        BY <3>2
      <4>2. g[k] = body(f, k)
        BY <2>2
      <4> HIDE DEF g
      <4> QED
        BY <4>1, <4>2, <3>2
    <3> QED
      BY <3>1, <3>2
  <2>4. g = [k \in 0..(n + 1) |-> body(g, k)]
    <3> HIDE DEF body
    <3>1. g = [k \in 0..(n + 1) |-> g[k]]
      OBVIOUS
    <3> HIDE DEF g
    <3> QED
      BY <3>1, <2>3
  <2> HIDE DEF g, body
  <2> QED
    BY <2>4
<1>3. Len(photos) \in T
  <2> HIDE DEF T
  <2> QED
    BY <1>1, <1>2, SetInduction, LenProperties
<1> DEFINE F == CHOOSE f : f = [k \in 0..Len(photos) |-> body(f, k)]
<1>4. F = [k \in 0..Len(photos) |-> body(F, k)]
  <2> HIDE DEF body
  <2> QED
    BY <1>3, Zenon
<1>5. dividePhotosIntoSections(photos, title) = F[Len(photos)]
  BY Zenon DEF dividePhotosIntoSections
<1>6. Len(photos) \in Nat
  BY LenProperties
<1> HIDE DEF F
<1>7. F[0] = noSections
  BY <1>4, <1>6
<1>8. ASSUME NEW n \in 1..Len(photos)
      PROVE  F[n] = addPhoto(F[n - 1], photos[n], title[photos[n]])
  BY <1>4, <1>6
<1> QED
  BY <1>5, <1>7, <1>8

-----------------------------------------------------------------------------
(* dividePhotosIntoSections groups the photos by month. *)

\* The sections of a set of photos: each month that occurs has one title and
\* one array, with exactly the photos of that month, each once.
Divided(sections, bySection, title, seen) ==
  /\ sections \in Seq({title[p] : p \in seen})
  /\ IsInjective(sections)
  /\ ToSet(sections) = {title[p] : p \in seen}
  /\ bySection \in [{title[p] : p \in seen} -> Seq(seen)]
  /\ \A t \in DOMAIN bySection :
       /\ IsInjective(bySection[t])
       /\ ToSet(bySection[t]) = {p \in seen : title[p] = t}

\* As the record the loop works on.
Sections(s, title, seen) ==
  /\ s = [sectionsAll |-> s.sectionsAll, photosbySection |-> s.photosbySection]
  /\ Divided(s.sectionsAll, s.photosbySection, title, seen)

\* An element that is appended.
LEMMA AppendOnce ==
  ASSUME NEW S, NEW s \in Seq(S), NEW e, IsInjective(s), e \notin ToSet(s)
  PROVE  /\ Append(s, e) \in Seq(S \cup {e})
         /\ IsInjective(Append(s, e))
         /\ ToSet(Append(s, e)) = ToSet(s) \cup {e}
<1>1. s \in Seq(S \cup {e})
  BY SeqMonotonic
<1>2. /\ Append(s, e) \in Seq(S \cup {e})
      /\ Len(Append(s, e)) = Len(s) + 1
      /\ \A i \in 1..Len(s) : Append(s, e)[i] = s[i]
      /\ Append(s, e)[Len(s) + 1] = e
  BY <1>1, AppendProperties
<1>3. /\ DOMAIN Append(s, e) = 1..(Len(s) + 1) /\ DOMAIN s = 1..Len(s)
      /\ Len(s) \in Nat
  BY <1>2, LenProperties
<1>4. IsInjective(Append(s, e))
  BY <1>2, <1>3 DEF IsInjective, ToSet
<1>5. ToSet(Append(s, e)) = ToSet(s) \cup {e}
  BY <1>2, <1>3 DEF ToSet
<1> QED
  BY <1>2, <1>4, <1>5

\* One turn of the loop adds one photo to the sections.
LEMMA AddPhotoDivides ==
  ASSUME NEW s, NEW title, NEW seen, NEW photo, photo \notin seen,
         Sections(s, title, seen),
         NEW r, r = addPhoto(s, photo, title[photo])
  PROVE  Sections(r, title, seen \cup {photo})
<1> SUFFICES ASSUME s = [sectionsAll |-> s.sectionsAll,
                         photosbySection |-> s.photosbySection],
                    Divided(s.sectionsAll, s.photosbySection, title, seen)
             PROVE  /\ r = [sectionsAll |-> r.sectionsAll,
                            photosbySection |-> r.photosbySection]
                    /\ Divided(r.sectionsAll, r.photosbySection, title,
                               seen \cup {photo})
  BY Zenon DEF Sections
<1> DEFINE t0 == title[photo]
           by == s.photosbySection
           now == seen \cup {photo}
<1>0. /\ s.sectionsAll \in Seq({title[p] : p \in seen})
      /\ IsInjective(s.sectionsAll)
      /\ ToSet(s.sectionsAll) = {title[p] : p \in seen}
      /\ by \in [{title[p] : p \in seen} -> Seq(seen)]
      /\ DOMAIN by = {title[p] : p \in seen}
      /\ \A t \in DOMAIN by : /\ IsInjective(by[t])
                              /\ ToSet(by[t]) = {p \in seen : title[p] = t}
  BY DEF Divided
<1>1. CASE t0 \in DOMAIN by
  <2>1. r = [sectionsAll |-> s.sectionsAll,
             photosbySection |-> [by EXCEPT ![t0] = Append(by[t0], photo)]]
    BY <1>1 DEF addPhoto
  <2>2. {title[p] : p \in now} = {title[p] : p \in seen}
    BY <1>1, <1>0
  <2>3. /\ Append(by[t0], photo) \in Seq(now)
        /\ IsInjective(Append(by[t0], photo))
        /\ ToSet(Append(by[t0], photo)) = ToSet(by[t0]) \cup {photo}
    <3>1. by[t0] \in Seq(seen) /\ IsInjective(by[t0]) /\ photo \notin ToSet(by[t0])
      BY <1>0, <1>1
    <3> QED
      BY <3>1, AppendOnce
  <2>4. \A t \in DOMAIN by : by[t] \in Seq(now)
    BY <1>0, SeqMonotonic
  <2> DEFINE by2 == [by EXCEPT ![t0] = Append(by[t0], photo)]
  <2>5. /\ DOMAIN by2 = DOMAIN by
        /\ by2[t0] = Append(by[t0], photo)
        /\ \A t \in DOMAIN by : t # t0 => by2[t] = by[t]
        /\ by2 \in [{title[p] : p \in now} -> Seq(now)]
    BY <1>0, <1>1, <2>2, <2>3, <2>4
  <2>6. r.sectionsAll = s.sectionsAll /\ r.photosbySection = by2
    BY <2>1
  <2> HIDE DEF by2
  <2>7. \A t \in DOMAIN by2 : /\ IsInjective(by2[t])
                              /\ ToSet(by2[t]) = {p \in now : title[p] = t}
    <3> SUFFICES ASSUME NEW t \in DOMAIN by2
                 PROVE  /\ IsInjective(by2[t])
                        /\ ToSet(by2[t]) = {p \in now : title[p] = t}
      OBVIOUS
    <3>1. CASE t = t0
      <4>1. ToSet(by[t0]) \cup {photo} = {p \in now : title[p] = t0}
        BY <1>0, <1>1
      <4> HIDE DEF by, now, t0
      <4> QED
        BY <3>1, <4>1, <2>3, <2>5
    <3>2. CASE t # t0
      <4>1. {p \in seen : title[p] = t} = {p \in now : title[p] = t}
        BY <3>2
      <4>2. t \in DOMAIN by /\ by2[t] = by[t]
        BY <3>2, <2>5
      <4> HIDE DEF by, now, t0
      <4> QED
        BY <4>1, <4>2, <1>0
    <3> QED
      BY <3>1, <3>2
  <2> QED
    BY <1>0, <2>1, <2>2, <2>5, <2>6, <2>7 DEF Divided
<1>2. CASE t0 \notin DOMAIN by
  <2> DEFINE by2 == [t \in DOMAIN by \cup {t0} |->
                       IF t = t0 THEN <<photo>> ELSE by[t]]
  <2>1. /\ r.sectionsAll = Append(s.sectionsAll, t0) /\ r.photosbySection = by2
        /\ r = [sectionsAll |-> r.sectionsAll, photosbySection |-> r.photosbySection]
    BY <1>2 DEF addPhoto
  <2>2. {title[p] : p \in now} = {title[p] : p \in seen} \cup {t0}
    OBVIOUS
  <2>3. /\ Append(s.sectionsAll, t0) \in Seq({title[p] : p \in now})
        /\ IsInjective(Append(s.sectionsAll, t0))
        /\ ToSet(Append(s.sectionsAll, t0)) = {title[p] : p \in now}
    <3> DEFINE ms == {title[p] : p \in seen}
    <3>1. /\ s.sectionsAll \in Seq(ms) /\ IsInjective(s.sectionsAll)
          /\ ToSet(s.sectionsAll) = ms /\ t0 \notin ToSet(s.sectionsAll)
          /\ {title[p] : p \in now} = ms \cup {t0}
      BY <1>0, <1>2, <2>2
    <3> HIDE DEF ms, t0
    <3> QED
      BY <3>1, AppendOnce
  <2>4. /\ <<photo>> \in Seq(now) /\ IsInjective(<<photo>>)
        /\ ToSet(<<photo>>) = {photo}
    BY DEF IsInjective, ToSet
  <2>5. \A t \in DOMAIN by : by[t] \in Seq(now)
    BY <1>0, SeqMonotonic
  <2>6. /\ DOMAIN by2 = DOMAIN by \cup {t0}
        /\ by2[t0] = <<photo>>
        /\ \A t \in DOMAIN by : by2[t] = by[t]
        /\ by2 \in [DOMAIN by \cup {t0} -> Seq(now)]
    BY <1>0, <1>2, <2>4, <2>5
  <2> HIDE DEF by2
  <2>7. \A t \in DOMAIN by2 : /\ IsInjective(by2[t])
                              /\ ToSet(by2[t]) = {p \in now : title[p] = t}
    <3> SUFFICES ASSUME NEW t \in DOMAIN by2
                 PROVE  /\ IsInjective(by2[t])
                        /\ ToSet(by2[t]) = {p \in now : title[p] = t}
      OBVIOUS
    <3>1. CASE t = t0
      <4>1. {photo} = {p \in now : title[p] = t0}
        BY <1>0, <1>2
      <4> HIDE DEF by, now, t0
      <4> QED
        BY <3>1, <4>1, <2>4, <2>6
    <3>2. CASE t # t0
      <4>1. {p \in seen : title[p] = t} = {p \in now : title[p] = t}
        BY <3>2
      <4> HIDE DEF by, now, t0
      <4> QED
        BY <3>2, <4>1, <1>0, <2>6
    <3> QED
      BY <3>1, <3>2
  <2> QED
    BY <1>0, <2>1, <2>2, <2>3, <2>6, <2>7 DEF Divided
<1> QED
  BY <1>1, <1>2

\* What viewDidLoad makes of the photos: the loop divides all of them.
LEMMA DivideDivides ==
  ASSUME NEW photos, photos \in Seq(ToSet(photos)), IsInjective(photos), NEW title,
         NEW s, s = dividePhotosIntoSections(photos, title)
  PROVE  Sections(s, title, ToSet(photos))
<1>0. Len(photos) \in Nat /\ DOMAIN photos = 1..Len(photos)
  BY LenProperties
<1>1. PICK f : /\ s = f[Len(photos)]
               /\ f[0] = noSections
               /\ \A n \in 1..Len(photos) :
                    f[n] = addPhoto(f[n - 1], photos[n], title[photos[n]])
  BY DivideTurns
<1> DEFINE seen(n) == {photos[i] : i \in 1..n}
           T == {n \in Nat : n <= Len(photos) => Sections(f[n], title, seen(n))}
<1>2. Sections(f[0], title, seen(0))
  <2>1. seen(0) = {}
    OBVIOUS
  <2>2. /\ noSections.sectionsAll = <<>> /\ noSections.photosbySection = << >>
        /\ noSections = [sectionsAll |-> noSections.sectionsAll,
                         photosbySection |-> noSections.photosbySection]
    BY DEF noSections
  <2>3. Divided(<<>>, <<>>, title, {})
    BY DEF Divided, IsInjective, ToSet
  <2>4. Sections(noSections, title, {})
    BY <2>2, <2>3 DEF Sections
  <2> HIDE DEF seen
  <2> QED
    BY <2>1, <2>4, <1>1
<1>3. ASSUME NEW n \in Nat, n + 1 <= Len(photos), Sections(f[n], title, seen(n))
      PROVE  Sections(f[n + 1], title, seen(n + 1))
  <2>1. f[n + 1] = addPhoto(f[n], photos[n + 1], title[photos[n + 1]])
    BY <1>0, <1>1, <1>3
  <2>2. photos[n + 1] \notin seen(n)
    BY <1>0, <1>3 DEF IsInjective
  <2>3. seen(n + 1) = seen(n) \cup {photos[n + 1]}
    OBVIOUS
  <2> HIDE DEF seen
  <2>4. Sections(f[n + 1], title, seen(n) \cup {photos[n + 1]})
    BY <1>3, <2>1, <2>2, AddPhotoDivides, Zenon
  <2> QED
    BY <2>3, <2>4
<1>4. Len(photos) \in T
  <2> HIDE DEF seen
  <2>1. 0 \in T /\ \A n \in Nat : n \in T => n + 1 \in T
    BY <1>0, <1>2, <1>3
  <2> HIDE DEF T
  <2> QED
    BY <1>0, <2>1, SetInduction
<1>5. Sections(f[Len(photos)], title, seen(Len(photos)))
  <2> HIDE DEF seen
  <2> QED
    BY <1>0, <1>4
<1>6. seen(Len(photos)) = ToSet(photos)
  BY <1>0 DEF ToSet
<1> HIDE DEF seen
<1> QED
  BY <1>1, <1>5, <1>6

-----------------------------------------------------------------------------
(* filterPhotosToShow finds the photos that have a tag. *)

\* The loop of photos.filter looks at one photo in each turn.
LEMMA FilteredTurns ==
  ASSUME NEW S, NEW photos \in Seq(S), NEW tags
  PROVE  \E f : /\ filtered(photos, tags) = f[Len(photos)]
                /\ f[0] = <<>>
                /\ \A n \in 1..Len(photos) :
                     f[n] = IF isHasTags(photos[n], tags)
                            THEN Append(f[n - 1], photos[n]) ELSE f[n - 1]
<1> DEFINE body(f, k) == IF k = 0 THEN <<>>
                         ELSE IF isHasTags(photos[k], tags)
                         THEN Append(f[k - 1], photos[k]) ELSE f[k - 1]
           T == {n \in Nat : \E f : f = [k \in 0..n |-> body(f, k)]}
<1>0. Len(photos) \in Nat
  BY LenProperties
<1>1. 0 \in T
  <2>1. [k \in 0..0 |-> <<>>] = [k \in 0..0 |-> body([j \in 0..0 |-> <<>>], k)]
    OBVIOUS
  <2> QED
    BY <2>1
<1>2. ASSUME NEW n \in Nat, n \in T PROVE n + 1 \in T
  <2>1. PICK f : f = [k \in 0..n |-> body(f, k)]
    BY <1>2
  <2> DEFINE g == [k \in 0..(n + 1) |-> IF k = n + 1 THEN body(f, k) ELSE f[k]]
  <2>2. \A k \in 0..n : f[k] = body(f, k)
    BY <2>1, Zenon
  <2>3. \A k \in 0..(n + 1) : g[k] = body(g, k)
    <3> SUFFICES ASSUME NEW k \in 0..(n + 1) PROVE g[k] = body(g, k)
      OBVIOUS
    <3>1. CASE k = 0
      BY <3>1, <2>2
    <3>2. CASE k # 0
      <4>1. k - 1 \in 0..(n + 1) /\ g[k - 1] = f[k - 1]
        BY <3>2
      <4>2. g[k] = body(f, k)
        BY <2>2
      <4> HIDE DEF g
      <4> QED
        BY <4>1, <4>2, <3>2
    <3> QED
      BY <3>1, <3>2
  <2>4. g = [k \in 0..(n + 1) |-> body(g, k)]
    <3> HIDE DEF body
    <3>1. g = [k \in 0..(n + 1) |-> g[k]]
      OBVIOUS
    <3> HIDE DEF g
    <3> QED
      BY <3>1, <2>3
  <2> HIDE DEF g, body
  <2> QED
    BY <2>4
<1>3. Len(photos) \in T
  <2> HIDE DEF T
  <2> QED
    BY <1>0, <1>1, <1>2, SetInduction
<1> DEFINE F == CHOOSE f : f = [k \in 0..Len(photos) |-> body(f, k)]
<1>4. F = [k \in 0..Len(photos) |-> body(F, k)]
  <2> HIDE DEF body
  <2> QED
    BY <1>3, Zenon
<1>5. filtered(photos, tags) = F[Len(photos)]
  BY Zenon DEF filtered
<1> HIDE DEF F
<1>6. F[0] = <<>>
  BY <1>0, <1>4
<1>7. ASSUME NEW n \in 1..Len(photos)
      PROVE  F[n] = IF isHasTags(photos[n], tags) THEN Append(F[n - 1], photos[n])
                    ELSE F[n - 1]
  <2>1. F[n] = body(F, n)
    <3>1. n \in 0..Len(photos)
      BY <1>0
    <3> HIDE DEF body
    <3> QED
      BY <1>4, <3>1, Zenon
  <2>2. n # 0
    OBVIOUS
  <2> QED
    BY <2>1, <2>2, Zenon
<1> QED
  BY <1>5, <1>6, <1>7

\* f[n] is what filterPhotosToShow has found after n months.
FilterLoop(f, text, bySection, order) ==
  /\ filterPhotosToShow(text, <<>>, bySection, order) = f[Len(order)]
  /\ f[0] = <<>>
  /\ \A n \in 1..Len(order) :
       f[n] = f[n - 1] \o filtered(bySection[order[n]], makeSearchTagsFromText(text))

\* The loop of filterPhotosToShow appends the results of one month in each turn.
LEMMA FilterTurns ==
  ASSUME NEW text, NEW bySection, NEW order \in Seq(DOMAIN bySection)
  PROVE  \E f : FilterLoop(f, text, bySection, order)
<1> DEFINE tags == makeSearchTagsFromText(text)
           body(f, k) == IF k = 0 THEN <<>>
                         ELSE f[k - 1] \o filtered(bySection[order[k]], tags)
           T == {n \in Nat : \E f : f = [k \in 0..n |-> body(f, k)]}
<1>0. Len(order) \in Nat
  BY LenProperties
<1>1. 0 \in T
  <2>1. [k \in 0..0 |-> <<>>] = [k \in 0..0 |-> body([j \in 0..0 |-> <<>>], k)]
    OBVIOUS
  <2> QED
    BY <2>1
<1>2. ASSUME NEW n \in Nat, n \in T PROVE n + 1 \in T
  <2>1. PICK f : f = [k \in 0..n |-> body(f, k)]
    BY <1>2
  <2> DEFINE g == [k \in 0..(n + 1) |-> IF k = n + 1 THEN body(f, k) ELSE f[k]]
  <2>2. \A k \in 0..n : f[k] = body(f, k)
    BY <2>1, Zenon
  <2>3. \A k \in 0..(n + 1) : g[k] = body(g, k)
    <3> SUFFICES ASSUME NEW k \in 0..(n + 1) PROVE g[k] = body(g, k)
      OBVIOUS
    <3>1. CASE k = 0
      BY <3>1, <2>2
    <3>2. CASE k # 0
      <4>1. k - 1 \in 0..(n + 1) /\ g[k - 1] = f[k - 1]
        BY <3>2
      <4>2. g[k] = body(f, k)
        BY <2>2
      <4> HIDE DEF g
      <4> QED
        BY <4>1, <4>2, <3>2
    <3> QED
      BY <3>1, <3>2
  <2>4. g = [k \in 0..(n + 1) |-> body(g, k)]
    <3> HIDE DEF body
    <3>1. g = [k \in 0..(n + 1) |-> g[k]]
      OBVIOUS
    <3> HIDE DEF g
    <3> QED
      BY <3>1, <2>3
  <2> HIDE DEF g, body
  <2> QED
    BY <2>4
<1>3. Len(order) \in T
  <2> HIDE DEF T
  <2> QED
    BY <1>0, <1>1, <1>2, SetInduction
<1> DEFINE F == CHOOSE f : f = [k \in 0..Len(order) |-> body(f, k)]
<1>4. F = [k \in 0..Len(order) |-> body(F, k)]
  <2> HIDE DEF body
  <2> QED
    BY <1>3, Zenon
<1>5. filterPhotosToShow(text, <<>>, bySection, order) = F[Len(order)]
  BY Zenon DEF filterPhotosToShow
<1> HIDE DEF F
<1>6. F[0] = <<>>
  BY <1>0, <1>4
<1>7. ASSUME NEW n \in 1..Len(order)
      PROVE  F[n] = F[n - 1] \o filtered(bySection[order[n]], tags)
  <2>1. F[n] = body(F, n)
    <3>1. n \in 0..Len(order)
      BY <1>0
    <3> HIDE DEF body
    <3> QED
      BY <1>4, <3>1, Zenon
  <2>2. n # 0
    OBVIOUS
  <2> QED
    BY <2>1, <2>2, Zenon
<1> QED
  BY <1>5, <1>6, <1>7 DEF FilterLoop

\* An array with each element of a set once.
Lists(s, S) == s \in Seq(S) /\ IsInjective(s) /\ ToSet(s) = S

\* One more element.
LEMMA AppendLists ==
  ASSUME NEW s, NEW S, NEW e, Lists(s, S), e \notin S
  PROVE  Lists(Append(s, e), S \cup {e})
<1>1. s \in Seq(S) /\ IsInjective(s) /\ ToSet(s) = S
  BY DEF Lists
<1>2. e \notin ToSet(s)
  BY <1>1
<1>3. /\ Append(s, e) \in Seq(S \cup {e}) /\ IsInjective(Append(s, e))
      /\ ToSet(Append(s, e)) = ToSet(s) \cup {e}
  BY <1>1, <1>2, AppendOnce, Zenon
<1> QED
  BY <1>1, <1>3, Zenon DEF Lists

\* photos.filter keeps exactly the photos that have a tag, each once.
LEMMA FilteredLists ==
  ASSUME NEW photos, NEW S, Lists(photos, S), NEW tags
  PROVE  Lists(filtered(photos, tags), {p \in S : isHasTags(p, tags)})
<1>0. /\ photos \in Seq(S) /\ IsInjective(photos) /\ ToSet(photos) = S
      /\ Len(photos) \in Nat /\ DOMAIN photos = 1..Len(photos)
  BY LenProperties DEF Lists
<1>1. PICK f : /\ filtered(photos, tags) = f[Len(photos)]
               /\ f[0] = <<>>
               /\ \A n \in 1..Len(photos) :
                    f[n] = IF isHasTags(photos[n], tags)
                           THEN Append(f[n - 1], photos[n]) ELSE f[n - 1]
  BY <1>0, FilteredTurns
<1> DEFINE hits(n) == {p \in {photos[i] : i \in 1..n} : isHasTags(p, tags)}
           T == {n \in Nat : n <= Len(photos) => Lists(f[n], hits(n))}
<1>2. Lists(f[0], hits(0))
  <2>1. hits(0) = {}
    OBVIOUS
  <2>2. Lists(<<>>, {})
    BY DEF Lists, IsInjective, ToSet
  <2> HIDE DEF hits
  <2> QED
    BY <1>1, <2>1, <2>2
<1>3. ASSUME NEW n \in Nat, n + 1 <= Len(photos), Lists(f[n], hits(n))
      PROVE  Lists(f[n + 1], hits(n + 1))
  <2> DEFINE e == photos[n + 1]
  <2>1. n + 1 \in 1..Len(photos) /\ (n + 1) - 1 = n
    BY <1>0, <1>3
  <2>2. CASE isHasTags(e, tags)
    <3>1. f[n + 1] = Append(f[n], e)
      BY <1>1, <2>1, <2>2
    <3>2. e \notin hits(n)
      BY <1>0, <1>3 DEF IsInjective
    <3>3. hits(n + 1) = hits(n) \cup {e}
      BY <2>2
    <3> HIDE DEF hits, e
    <3>4. Lists(Append(f[n], e), hits(n) \cup {e})
      BY <1>3, <3>2, AppendLists, Zenon
    <3> QED
      BY <3>1, <3>3, <3>4
  <2>3. CASE ~isHasTags(e, tags)
    <3>1. f[n + 1] = f[n]
      BY <1>1, <2>1, <2>3
    <3>2. hits(n + 1) = hits(n)
      BY <2>3
    <3> HIDE DEF hits
    <3> QED
      BY <1>3, <3>1, <3>2
  <2> QED
    BY <2>2, <2>3
<1>4. Len(photos) \in T
  <2> HIDE DEF hits
  <2>1. 0 \in T /\ \A n \in Nat : n \in T => n + 1 \in T
    BY <1>0, <1>2, <1>3
  <2> HIDE DEF T
  <2> QED
    BY <1>0, <2>1, SetInduction
<1>5. hits(Len(photos)) = {p \in S : isHasTags(p, tags)}
  BY <1>0 DEF ToSet
<1> HIDE DEF hits
<1>6. Lists(f[Len(photos)], hits(Len(photos)))
  BY <1>0, <1>4
<1> QED
  BY <1>1, <1>5, <1>6, Zenon

\* Arrays without a common element, one behind the other.
LEMMA ConcatLists ==
  ASSUME NEW s, NEW S, NEW t, NEW U, Lists(s, S), Lists(t, U), S \cap U = {}
  PROVE  Lists(s \o t, S \cup U)
<1>1. s \in Seq(S \cup U) /\ t \in Seq(S \cup U)
  BY SeqMonotonic DEF Lists
<1>2. /\ s \o t \in Seq(S \cup U)
      /\ Len(s \o t) = Len(s) + Len(t)
      /\ \A i \in 1..(Len(s) + Len(t)) :
           (s \o t)[i] = IF i <= Len(s) THEN s[i] ELSE t[i - Len(s)]
  BY <1>1, ConcatProperties
<1>3. /\ DOMAIN s = 1..Len(s) /\ DOMAIN t = 1..Len(t) /\ Len(s) \in Nat /\ Len(t) \in Nat
      /\ DOMAIN (s \o t) = 1..(Len(s) + Len(t))
  BY <1>1, <1>2, LenProperties
<1> DEFINE c == s \o t
<1>4. /\ DOMAIN c = 1..(Len(s) + Len(t))
      /\ \A i \in 1..Len(s) : c[i] = s[i]
      /\ \A i \in 1..Len(t) : c[Len(s) + i] = t[i]
      /\ \A i \in DOMAIN c : \/ i \in 1..Len(s)
                             \/ i - Len(s) \in 1..Len(t) /\ i = Len(s) + (i - Len(s))
  BY <1>2, <1>3
<1>5. /\ \A i \in 1..Len(s) : s[i] \in S
      /\ \A i \in 1..Len(t) : t[i] \in U
      /\ \A p \in S : \E i \in 1..Len(s) : s[i] = p
      /\ \A p \in U : \E i \in 1..Len(t) : t[i] = p
      /\ \A i, j \in 1..Len(s) : s[i] = s[j] => i = j
      /\ \A i, j \in 1..Len(t) : t[i] = t[j] => i = j
  BY <1>3 DEF Lists, ToSet, IsInjective
<1> HIDE DEF c
<1>6. ASSUME NEW i \in DOMAIN c, NEW j \in DOMAIN c, c[i] = c[j] PROVE i = j
  <2>1. CASE i \in 1..Len(s) /\ j \in 1..Len(s)
    BY <1>4, <1>5, <1>6, <2>1
  <2>2. CASE i - Len(s) \in 1..Len(t) /\ j - Len(s) \in 1..Len(t)
    <3>1. i - Len(s) = j - Len(s)
      BY <1>3, <1>4, <1>5, <1>6, <2>2
    <3> QED
      BY <1>3, <1>4, <3>1
  <2>3. CASE i \in 1..Len(s) /\ j - Len(s) \in 1..Len(t)
    BY <1>3, <1>4, <1>5, <1>6, <2>3
  <2>4. CASE i - Len(s) \in 1..Len(t) /\ j \in 1..Len(s)
    BY <1>3, <1>4, <1>5, <1>6, <2>4
  <2> QED
    BY <1>4, <2>1, <2>2, <2>3, <2>4
<1>7. ToSet(c) = S \cup U
  <2>1. ASSUME NEW i \in DOMAIN c PROVE c[i] \in S \cup U
    BY <1>3, <1>4, <1>5
  <2>2. ASSUME NEW p \in S \cup U PROVE \E i \in DOMAIN c : c[i] = p
    <3>1. ASSUME NEW i \in 1..Len(s) PROVE i \in DOMAIN c /\ c[i] = s[i]
      BY <1>3, <1>4
    <3>2. ASSUME NEW i \in 1..Len(t) PROVE Len(s) + i \in DOMAIN c /\ c[Len(s) + i] = t[i]
      BY <1>3, <1>4
    <3> QED
      BY <1>5, <3>1, <3>2
  <2> QED
    BY <2>1, <2>2 DEF ToSet
<1> QED
  BY <1>2, <1>6, <1>7 DEF Lists, IsInjective, c

\* filterPhotosToShow, starting with no results, finds the photos of all months
\* in the dictionary that have one of the tags, each once.
LEMMA FilterLists ==
  ASSUME NEW S, NEW title, NEW text,
         NEW bySection, NEW order \in Seq(DOMAIN bySection), IsInjective(order),
         \A t \in DOMAIN bySection :
           Lists(bySection[t], {p \in S : title[p] = t}),
         ToSet(order) = {title[p] : p \in S}
  PROVE  Lists(filterPhotosToShow(text, <<>>, bySection, order),
               {p \in S : isHasTags(p, makeSearchTagsFromText(text))})
<1> DEFINE tags == makeSearchTagsFromText(text)
           L == Len(order)
           month(n) == filtered(bySection[order[n]], tags)
           hits(n) == {p \in S : /\ title[p] \in {order[i] : i \in 1..n}
                                 /\ isHasTags(p, tags)}
<1>0. L \in Nat /\ DOMAIN order = 1..L
  BY LenProperties
<1>1. PICK f : FilterLoop(f, text, bySection, order)
  BY FilterTurns, Zenon
<1>1a. /\ filterPhotosToShow(text, <<>>, bySection, order) = f[L]
      /\ f[0] = <<>>
      /\ \A n \in 1..L : f[n] = f[n - 1] \o month(n)
  BY <1>1, Zenon DEF FilterLoop
<1> DEFINE T == {n \in Nat : n <= L => Lists(f[n], hits(n))}
<1>2. Lists(f[0], hits(0))
  <2>1. hits(0) = {}
    OBVIOUS
  <2>2. Lists(<<>>, {})
    BY DEF Lists, IsInjective, ToSet
  <2> HIDE DEF hits
  <2> QED
    BY <1>1a, <2>1, <2>2
<1>3. ASSUME NEW n \in Nat, n + 1 <= L, Lists(f[n], hits(n))
      PROVE  Lists(f[n + 1], hits(n + 1))
  <2> DEFINE t == order[n + 1]
             new == {p \in S : title[p] = t /\ isHasTags(p, tags)}
  <2>1. n + 1 \in 1..L /\ (n + 1) - 1 = n /\ t \in DOMAIN bySection
    BY <1>0, <1>3
  <2>2. f[n + 1] = f[n] \o month(n + 1)
    <3> HIDE DEF month, L
    <3> QED
      BY <1>1a, <2>1
  <2>3. Lists(month(n + 1), new)
    <3>1. Lists(filtered(bySection[t], tags),
                {p \in {q \in S : title[q] = t} : isHasTags(p, tags)})
      BY <2>1, FilteredLists, Zenon
    <3>2. {p \in {q \in S : title[q] = t} : isHasTags(p, tags)} = new
      OBVIOUS
    <3> QED
      BY <3>1, <3>2, Zenon
  <2>4. hits(n) \cap new = {}
    BY <1>0, <1>3, <2>1 DEF IsInjective
  <2>5. hits(n + 1) = hits(n) \cup new
    <3>1. {order[i] : i \in 1..(n + 1)} = {order[i] : i \in 1..n} \cup {t}
      OBVIOUS
    <3> HIDE DEF tags, t
    <3> QED
      BY <3>1 DEF hits, new
  <2> HIDE DEF hits, new, month
  <2>6. Lists(f[n] \o month(n + 1), hits(n) \cup new)
    BY <1>3, <2>3, <2>4, ConcatLists, Zenon
  <2> QED
    BY <2>2, <2>5, <2>6
<1>4. L \in T
  <2> HIDE DEF hits, L
  <2>1. 0 \in T /\ \A n \in Nat : n \in T => n + 1 \in T
    BY <1>0, <1>2, <1>3
  <2> HIDE DEF T
  <2> QED
    BY <1>0, <2>1, SetInduction
<1>5. hits(L) = {p \in S : isHasTags(p, tags)}
  <2>1. {order[i] : i \in 1..L} = {title[p] : p \in S}
    BY <1>0 DEF ToSet
  <2> HIDE DEF tags, L
  <2> QED
    BY <2>1
<1> HIDE DEF hits, L
<1>6. Lists(f[L], hits(L))
  BY <1>0, <1>4
<1> QED
  BY <1>1a, <1>5, <1>6, Zenon

-----------------------------------------------------------------------------
(* Lengths and orders. *)

\* An array with each element of a set once is as long as the set is large.
LEMMA ListLength ==
  ASSUME NEW s, NEW S, Lists(s, S)
  PROVE  IsFiniteSet(S) /\ Cardinality(S) = Len(s) /\ Len(s) \in Nat
<1>1. Len(s) \in Nat /\ DOMAIN s = 1..Len(s) /\ s \in [1..Len(s) -> S]
  BY LenProperties DEF Lists
<1>2. s \in Bijection(1..Len(s), S)
  BY <1>1 DEF Lists, ToSet, Bijection, Injection, Surjection
<1>3. ExistsBijection(1..Len(s), S)
  BY <1>2 DEF ExistsBijection
<1>4. Cardinality(S) = Len(s)
  BY <1>1, <1>3, FS_CountingElements
<1>5. IsFiniteSet(S)
  BY <1>1, <1>3, FS_NatBijection
<1> QED
  BY <1>1, <1>4, <1>5

\* No array of different photos of a set is longer than one of all of them.
LEMMA ShorterList ==
  ASSUME NEW s, NEW S, NEW t, NEW U, Lists(s, S), Lists(t, U), S \subseteq U
  PROVE  Len(s) <= Len(t)
<1>1. IsFiniteSet(U) /\ Cardinality(U) = Len(t) /\ Cardinality(S) = Len(s)
  BY ListLength
<1>2. Cardinality(S) <= Cardinality(U)
  BY <1>1, FS_Subset
<1> QED
  BY <1>1, <1>2

\* An order of the dictionary has every title once.
LEMMA OrderLists ==
  ASSUME NEW S, IsFiniteSet(S), NEW order \in SetToSeqs(S)
  PROVE  Lists(order, S)
<1>1. Cardinality(S) \in Nat
  BY FS_CardinalityType
<1>2. /\ order \in [1..Cardinality(S) -> S]
      /\ \A i, j \in 1..Cardinality(S) : i # j => order[i] # order[j]
  BY DEF SetToSeqs
<1>3. order \in Injection(1..Cardinality(S), S)
  BY <1>2 DEF Injection, IsInjective
<1>4. IsFiniteSet(1..Cardinality(S)) /\ Cardinality(1..Cardinality(S)) = Cardinality(S)
  BY <1>1, FS_Interval
<1>5. order \in Surjection(1..Cardinality(S), S)
  BY <1>3, <1>4, FS_Injection
<1>6. order \in Seq(S)
  BY <1>1, <1>2
<1>7. DOMAIN order = 1..Cardinality(S)
  BY <1>2
<1> QED
  BY <1>3, <1>5, <1>6, <1>7 DEF Lists, ToSet, Injection, Surjection

-----------------------------------------------------------------------------
(* The timeline. *)

\* The photos that have one of the tags of a text.
Tagged(text) == {p \in Photos : \E w \in text.words : withHash[w] \in contained[p]}

\* What viewDidLoad made, and no handler changes.
Loaded ==
  /\ Divided(sectionsAll, photosbySection, monthYearDate, Photos)
  /\ Lists(dictionaryOrder, Titles)

\* The results are those of the text, the table knows the current counts, and
\* the photo shown is one of the row that was tapped.
TimelineInv ==
  /\ Loaded
  /\ searchText \in SearchTexts
  /\ Lists(photosWithTag, Tagged(searchText))
  /\ tableRows = reloadData(searchText, photosWithTag, sectionsAll, photosbySection)
  /\ tapped = <<>> \/ tapped \in Nat \X Nat
  /\ opened \in Photos \cup {Nothing}
  /\ OpenedBelongs

\* A search finds the tagged photos.
LEMMA SearchLists ==
  ASSUME Loaded, NEW text
  PROVE  Lists(filterPhotosToShow(text, <<>>, photosbySection, dictionaryOrder),
               Tagged(text))
<1>1. /\ DOMAIN photosbySection = Titles
      /\ \A t \in Titles : /\ photosbySection[t] \in Seq(Photos)
                           /\ IsInjective(photosbySection[t])
                           /\ ToSet(photosbySection[t]) =
                                {p \in Photos : monthYearDate[p] = t}
  BY DEF Loaded, Divided, Titles
<1>2. ASSUME NEW t \in Titles
      PROVE  Lists(photosbySection[t], {p \in Photos : monthYearDate[p] = t})
  <2>1. photosbySection[t] \in Seq(ToSet(photosbySection[t]))
    <3>1. photosbySection[t] \in [1..Len(photosbySection[t]) -> ToSet(photosbySection[t])]
      BY <1>1, LenProperties DEF ToSet
    <3> QED
      BY <1>1, <3>1, LenProperties
  <2> QED
    BY <1>1, <2>1, Zenon DEF Lists
<1>3. /\ dictionaryOrder \in Seq(DOMAIN photosbySection)
      /\ IsInjective(dictionaryOrder)
      /\ ToSet(dictionaryOrder) = {monthYearDate[p] : p \in Photos}
  BY <1>1 DEF Loaded, Lists, Titles
<1>4. Lists(filterPhotosToShow(text, <<>>, photosbySection, dictionaryOrder),
            {p \in Photos : isHasTags(p, makeSearchTagsFromText(text))})
  <2>1. \A t \in DOMAIN photosbySection :
          Lists(photosbySection[t], {p \in Photos : monthYearDate[p] = t})
    BY <1>1, <1>2
  <2> QED
    BY <1>3, <2>1, FilterLists
<1>5. {p \in Photos : isHasTags(p, makeSearchTagsFromText(text))} = Tagged(text)
  BY DEF isHasTags, makeSearchTagsFromText, Tagged
<1> QED
  BY <1>4, <1>5, Zenon

\* The array of viewDidLoad has every photo once.
LEMMA ArrayLists == Lists(photoArray, Photos)
  BY TimelineAssumption DEF Lists, Photos

\* viewDidLoad and the first layout.
LEMMA TimelineStart == Init => TimelineInv
<1> SUFFICES ASSUME Init PROVE TimelineInv
  OBVIOUS
<1> DEFINE s == dividePhotosIntoSections(photoArray, monthYearDate)
<1>1. /\ sectionsAll = s.sectionsAll /\ photosbySection = s.photosbySection
      /\ dictionaryOrder \in SetToSeqs(DOMAIN s.photosbySection)
      /\ searchText = EmptyText /\ photosWithTag = <<>> /\ tapped = <<>>
      /\ tableRows = reloadData(EmptyText, <<>>, s.sectionsAll, s.photosbySection)
      /\ opened = Nothing
  BY DEF Init
<1>2. Sections(s, monthYearDate, Photos)
  <2>1. photoArray \in Seq(ToSet(photoArray)) /\ IsInjective(photoArray)
    BY TimelineAssumption DEF Photos
  <2> QED
    BY <2>1, DivideDivides, Zenon DEF Photos
<1> HIDE DEF s
<1>3. Divided(sectionsAll, photosbySection, monthYearDate, Photos)
  BY <1>1, <1>2, Zenon DEF Sections
<1>4. Lists(sectionsAll, Titles) /\ DOMAIN photosbySection = Titles
  BY <1>3 DEF Divided, Lists, Titles
<1>5. Lists(dictionaryOrder, Titles)
  BY <1>1, <1>4, ListLength, OrderLists
<1>6. EmptyText \in SearchTexts /\ Tagged(EmptyText) = {}
  BY TimelineAssumption DEF Tagged, EmptyText
<1>7. Lists(photosWithTag, Tagged(searchText))
  <2>1. Lists(<<>>, {})
    BY DEF Lists, IsInjective, ToSet
  <2> QED
    BY <1>1, <1>6, <2>1
<1>8. tableRows = reloadData(searchText, photosWithTag, sectionsAll, photosbySection)
  BY <1>1
<1> QED
  BY <1>1, <1>3, <1>5, <1>6, <1>7, <1>8 DEF TimelineInv, Loaded, OpenedBelongs

\* The counts of the table and the photo of a row, in terms of the arrays.
LEMMA RowCounts ==
  ASSUME TimelineInv, NEW s \in DOMAIN tableRows
  PROVE  /\ s \in DOMAIN sectionsAll /\ s \in Nat
         /\ sectionsAll[s] \in Titles
         /\ isFilterNow(searchText) => tableRows[s] = Len(photosWithTag)
         /\ ~isFilterNow(searchText) =>
              tableRows[s] = Len(photosbySection[sectionsAll[s]])
         /\ Lists(photosbySection[sectionsAll[s]],
                  {p \in Photos : monthYearDate[p] = sectionsAll[s]})
<1>1. /\ s \in DOMAIN sectionsAll
      /\ tableRows[s] = IF isFilterNow(searchText) THEN Len(photosWithTag)
                        ELSE Len(photosbySection[sectionsAll[s]])
  BY DEF TimelineInv, reloadData, numberOfRowsInSection
<1>2. sectionsAll \in Seq(Titles)
  BY DEF TimelineInv, Loaded, Divided, Titles
<1>3. s \in Nat /\ sectionsAll[s] \in Titles
  BY <1>1, <1>2, LenProperties
<1> DEFINE a == photosbySection[sectionsAll[s]]
<1>4. /\ a \in Seq(Photos) /\ IsInjective(a)
      /\ ToSet(a) = {p \in Photos : monthYearDate[p] = sectionsAll[s]}
  BY <1>3 DEF TimelineInv, Loaded, Divided, Titles
<1>5. Lists(a, ToSet(a))
  <2> HIDE DEF a
  <2>1. a \in [1..Len(a) -> ToSet(a)] /\ Len(a) \in Nat
    BY <1>4, LenProperties DEF ToSet
  <2> QED
    BY <1>4, <2>1 DEF Lists
<1> QED
  BY <1>1, <1>3, <1>4, <1>5

\* Each handler keeps the invariant.
LEMMA TimelineStep == TimelineInv /\ [Next]_vars => TimelineInv'
<1> SUFFICES ASSUME TimelineInv, [Next]_vars PROVE TimelineInv'
  OBVIOUS
<1>0. /\ Loaded /\ searchText \in SearchTexts
      /\ Lists(photosWithTag, Tagged(searchText))
      /\ tableRows = reloadData(searchText, photosWithTag, sectionsAll, photosbySection)
      /\ tapped = <<>> \/ tapped \in Nat \X Nat
      /\ opened \in Photos \cup {Nothing}
      /\ OpenedBelongs
  BY DEF TimelineInv
<1>1. ASSUME NEW text \in SearchTexts, textDidChange(text) PROVE TimelineInv'
  <2>1. /\ opened = Nothing /\ searchText' = text
        /\ photosWithTag' = filterPhotosToShow(text, <<>>, photosbySection, dictionaryOrder)
        /\ tableRows' = reloadData(text, photosWithTag', sectionsAll, photosbySection)
        /\ UNCHANGED <<sectionsAll, photosbySection, dictionaryOrder, tapped, opened>>
    BY <1>1 DEF textDidChange
  <2>2. Lists(photosWithTag', Tagged(text))
    BY <1>0, <2>1, SearchLists
  <2>3. Loaded'
    BY <1>0, <2>1 DEF Loaded
  <2> QED
    BY <1>0, <2>1, <2>2, <2>3 DEF TimelineInv, OpenedBelongs
<1>2. ASSUME NEW s \in DOMAIN tableRows, NEW row \in 1..tableRows[s],
             didSelectRowAt(s, row)
      PROVE  TimelineInv'
  <2>1. /\ opened' = photoAt(s, row)
        /\ tapped' = IF opened' = Nothing THEN <<>> ELSE <<s, row>>
        /\ UNCHANGED <<sectionsAll, photosbySection, dictionaryOrder, searchText,
                       photosWithTag, tableRows>>
    BY <1>2 DEF didSelectRowAt
  <2>2. /\ s \in Nat /\ sectionsAll[s] \in Titles
        /\ isFilterNow(searchText) => tableRows[s] = Len(photosWithTag)
        /\ ~isFilterNow(searchText) =>
             tableRows[s] = Len(photosbySection[sectionsAll[s]])
        /\ Lists(photosbySection[sectionsAll[s]],
                 {p \in Photos : monthYearDate[p] = sectionsAll[s]})
    BY RowCounts
  <2>3. CASE isFilterNow(searchText)
    <3>1. opened' = photosWithTag[row] /\ row \in 1..Len(photosWithTag)
      BY <2>1, <2>2, <2>3 DEF photoAt
    <3>2. opened' \in Tagged(searchText) /\ row \in Nat
      BY <1>0, <3>1, LenProperties DEF Lists
    <3> QED
      BY <1>0, <2>1, <2>2, <2>3, <3>2, TimelineAssumption
      DEF TimelineInv, Loaded, OpenedBelongs, Tagged
  <2>4. CASE ~isFilterNow(searchText) /\ opened' # Nothing
    <3>1. /\ opened' = photosbySection[sectionsAll[s]][row]
          /\ row \in 1..Len(photosbySection[sectionsAll[s]])
      BY <2>1, <2>2, <2>4 DEF photoAt
    <3>2. opened' \in Photos /\ monthYearDate[opened'] = sectionsAll[s] /\ row \in Nat
      BY <2>2, <3>1, LenProperties DEF Lists
    <3>3. tapped' = <<s, row>>
      BY <2>1, <2>4
    <3>4. OpenedBelongs'
      BY <2>1, <2>4, <3>2, <3>3 DEF OpenedBelongs, titleForHeaderInSection
    <3>5. Loaded'
      BY <1>0, <2>1 DEF Loaded
    <3> QED
      BY <1>0, <2>1, <2>2, <3>2, <3>3, <3>4, <3>5 DEF TimelineInv
  <2>5. CASE ~isFilterNow(searchText) /\ opened' = Nothing
    BY <1>0, <2>1, <2>5 DEF TimelineInv, Loaded, OpenedBelongs
  <2> QED
    BY <2>3, <2>4, <2>5
<1>3. CASE backButtonPressed
  BY <1>0, <1>3 DEF backButtonPressed, TimelineInv, Loaded, OpenedBelongs
<1>4. CASE UNCHANGED vars
  BY <1>0, <1>4 DEF vars, TimelineInv, Loaded, OpenedBelongs, titleForHeaderInSection
<1> QED
  BY <1>1, <1>2, <1>3, <1>4 DEF Next

\* The invariant holds whatever is typed and tapped.
LEMMA TimelineAlways == Spec => []TimelineInv
  BY TimelineStart, TimelineStep, PTL DEF Spec

\* viewDidLoad: for any array of different photos, each month that occurs has
\* one section, with exactly its photos, each once, and no photo is left out.
THEOREM PhotosByMonth ==
  Spec => [](Divided(sectionsAll, photosbySection, monthYearDate, Photos))
<1>1. TimelineInv => Divided(sectionsAll, photosbySection, monthYearDate, Photos)
  BY DEF TimelineInv, Loaded
<1> QED
  BY <1>1, TimelineAlways, PTL

\* A search finds exactly the photos with one of its tags, each once, for any
\* texts typed before and any order of the dictionary.
THEOREM SearchFinds == Spec => []FilteredOnce
<1>1. TimelineInv => FilteredOnce
  BY DEF TimelineInv, FilteredOnce, Lists, Tagged
<1> QED
  BY <1>1, TimelineAlways, PTL

\* numberOfRowsInSection as the table last heard it never exceeds the arrays
\* that didSelectRowAt and cellForRowAt index.
THEOREM NoRowOutOfBounds == Spec => []RowsInBounds
<1>1. ASSUME TimelineInv PROVE RowsInBounds
  <2> SUFFICES ASSUME NEW s \in DOMAIN tableRows
               PROVE  /\ tableRows[s] <= Len(photoArray)
                      /\ tableRows[s] <= IF isFilterNow(searchText) THEN Len(photosWithTag)
                                         ELSE Len(photosbySection[sectionsAll[s]])
    BY DEF RowsInBounds
  <2> DEFINE a == photosbySection[sectionsAll[s]]
             month == {p \in Photos : monthYearDate[p] = sectionsAll[s]}
  <2>1. /\ isFilterNow(searchText) => tableRows[s] = Len(photosWithTag)
        /\ ~isFilterNow(searchText) => tableRows[s] = Len(a)
        /\ Lists(a, month)
    BY <1>1, RowCounts
  <2>2. Lists(photosWithTag, Tagged(searchText)) /\ Tagged(searchText) \subseteq Photos
    BY <1>1 DEF TimelineInv, Tagged
  <2>3. month \subseteq Photos
    OBVIOUS
  <2> HIDE DEF a, month
  <2>4. Len(photosWithTag) <= Len(photoArray) /\ Len(a) <= Len(photoArray)
    BY <2>1, <2>2, <2>3, ArrayLists, ShorterList
  <2>5. Len(photosWithTag) \in Nat /\ Len(a) \in Nat
    BY <2>1, <2>2, ListLength
  <2> QED
    BY <2>1, <2>4, <2>5 DEF a
<1> QED
  BY <1>1, TimelineAlways, PTL

\* The photo DetailPhotoViewController shows is of the month in the header of
\* the tapped section, or has one of the tags while the table is filtered.
THEOREM TapOpensItsPhoto == Spec => []OpenedBelongs
<1>1. TimelineInv => OpenedBelongs
  BY DEF TimelineInv
<1> QED
  BY <1>1, TimelineAlways, PTL

\* The arrays, the counts of the table and the photo shown keep their types.
THEOREM TimelineTypes == Spec => []TypeOK
<1>1. ASSUME TimelineInv, RowsInBounds PROVE TypeOK
  <2>1. /\ sectionsAll \in Seq(Titles)
        /\ photosbySection \in [Titles -> Seq(Photos)]
    BY <1>1 DEF TimelineInv, Loaded, Divided, Titles
  <2>2. dictionaryOrder \in Seq(Titles)
    BY <1>1 DEF TimelineInv, Loaded, Lists
  <2>3. photosWithTag \in Seq(Photos)
    <3>1. photosWithTag \in Seq(Tagged(searchText)) /\ Tagged(searchText) \subseteq Photos
      BY <1>1 DEF TimelineInv, Lists, Tagged
    <3> QED
      BY <3>1, SeqMonotonic
  <2>4. tableRows \in [DOMAIN sectionsAll -> 0..Len(photoArray)]
    <3>1. tableRows = [s \in DOMAIN sectionsAll |-> tableRows[s]]
      BY <1>1 DEF TimelineInv, reloadData
    <3>2. DOMAIN tableRows = DOMAIN sectionsAll
      BY <3>1
    <3>3. Len(photoArray) \in Nat
      BY ArrayLists, ListLength
    <3>4. ASSUME NEW s \in DOMAIN tableRows PROVE tableRows[s] \in 0..Len(photoArray)
      <4>1. tableRows[s] <= Len(photoArray)
        BY <1>1 DEF RowsInBounds
      <4>2. tableRows[s] \in Nat
        <5>1. \/ tableRows[s] = Len(photosWithTag)
              \/ tableRows[s] = Len(photosbySection[sectionsAll[s]])
          BY <1>1, RowCounts
        <5>2. Len(photosWithTag) \in Nat
          BY <2>3, LenProperties
        <5>3. Len(photosbySection[sectionsAll[s]]) \in Nat
          BY <1>1, RowCounts, ListLength
        <5> QED
          BY <5>1, <5>2, <5>3
      <4> QED
        BY <3>3, <4>1, <4>2
    <3> QED
      BY <3>1, <3>2, <3>4
  <2>5. /\ searchText \in SearchTexts
        /\ tapped = <<>> \/ tapped \in Nat \X Nat
        /\ opened \in Photos \cup {Nothing}
    BY <1>1 DEF TimelineInv
  <2> QED
    BY <2>1, <2>2, <2>3, <2>4, <2>5 DEF TypeOK
<1> QED
  BY <1>1, TimelineAlways, NoRowOutOfBounds, PTL
=============================================================================
