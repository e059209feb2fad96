-------------------------- MODULE DBVersionsProofs --------------------------
(***************************************************************************)
(* Proofs about LevelDB's versions and compactions, for any keys, levels,  *)
(* limits, readers and writes, with memtable switches, flushes placed in   *)
(* the levels while a compaction rewrites them, and failing I/O included:  *)
(*   - files in use stay on disk, and the variables keep their types;      *)
(*   - nothing visible is lost, live snapshots included;                   *)
(*   - unless clients call CompactRange, levels stay disjoint;             *)
(*   - unless clients take snapshots, entries age from level to level;     *)
(*   - for clients that do neither, Get returns the newest entry.          *)
(*                                                                         *)
(* DataInv relates entries, tables and the compaction under way, and every *)
(* other invariant builds on it: FileInv on file numbers, DisjInv on       *)
(* ranges, HopInv on ages.                                                 *)
(***************************************************************************)
EXTENDS DBVersions, WellFoundedInduction, FiniteSetTheorems, SequenceTheorems, TLAPS

-----------------------------------------------------------------------------
(* Least and greatest elements.                                            *)

Less == {ss \in Nat \X Nat : ss[1] < ss[2]}

\* < is well-founded on the natural numbers.
LEMMA LessWellFounded == IsWellFoundedOn(Less, Nat)
<1>1. Less = OpToRel(<, Nat)
  BY Zenon DEF OpToRel, Less
<1> QED
  BY <1>1, NatLessThanWellFounded, Zenon

\* What the proofs use of the constants.
LEMMA Constants ==
  /\ Keys \subseteq Nat /\ Keys # {} /\ IsFiniteSet(Keys)
  /\ kNumLevels \in Nat /\ kNumLevels >= 2
  /\ kMaxMemCompactLevel \in 0..(kNumLevels - 1)
  /\ MaxSequence \in Nat
  BY Zenon, DBVersionsAssumption

\* A set of naturals has a least element.
LEMMA LeastOf ==
  ASSUME NEW S, S \subseteq Nat, S # {}
  PROVE  \E m \in S : \A n \in S : m <= n
<1>1. \E m \in S : \A n \in S : ~(<<n, m>> \in Less)
  BY LessWellFounded, WFMin, Zenon
<1>2. PICK m \in S : \A n \in S : ~(<<n, m>> \in Less)
  BY <1>1
<1>3. \A n \in S : ~(n < m)
  BY <1>2 DEF Less
<1> QED
  BY <1>2, <1>3

\* A bounded set of naturals has a greatest element.
LEMMA GreatestOf ==
  ASSUME NEW S, S \subseteq Nat, S # {}, NEW b \in Nat, \A n \in S : n <= b
  PROVE  \E m \in S : \A n \in S : n <= m
<1> DEFINE T == {b - n : n \in S}
<1>1. T \subseteq Nat /\ T # {}
  <2>1. \A n \in S : n \in Nat /\ n <= b /\ b - n \in Nat
    OBVIOUS
  <2> QED
    BY <2>1
<1>2. PICK t \in T : \A u \in T : t <= u
  <2> HIDE DEF T
  <2> QED
    BY <1>1, LeastOf
<1>3. PICK m \in S : t = b - m
  OBVIOUS
<1>4. ASSUME NEW n \in S PROVE n <= m
  <2>1. b - n \in T
    OBVIOUS
  <2>2. b - m <= b - n /\ n \in Nat /\ m \in Nat
    BY <1>2, <1>3, <2>1
  <2> QED
    BY <2>2
<1> QED
  BY <1>3, <1>4

\* Induction over the naturals.
LEMMA SetInduction ==
  ASSUME NEW T, 0 \in T, \A n \in Nat : n \in T => n + 1 \in T
  PROVE  Nat \subseteq T
<1> SUFFICES ASSUME Nat \ T # {} PROVE FALSE
  OBVIOUS
<1>1. Nat \ T \subseteq Nat
  OBVIOUS
<1>2. PICK m \in Nat \ T : \A n \in Nat \ T : m <= n
  BY <1>1, LeastOf
<1>3. m # 0 /\ m - 1 \in Nat
  OBVIOUS
<1>4. m - 1 \in T
  BY <1>2, <1>3
<1>5. (m - 1) + 1 \in T
  BY <1>3, <1>4
<1> QED
  BY <1>5

\* There are finitely many keys, so they have a bound.
LEMMA KeyBound == \E b \in Nat : \A k \in Keys : k <= b
<1>1. PICK n \in Nat : ExistsSurjection(1..n, Keys)
  BY FS_NatSurjection, Constants
<1>2. PICK s \in [1..n -> Keys] : \A k \in Keys : \E i \in 1..n : s[i] = k
  BY <1>1 DEF ExistsSurjection, Surjection
<1> DEFINE T == {m \in Nat : \E b \in Nat : \A i \in 1..n : i <= m => s[i] <= b}
<1>3. 0 \in T
  OBVIOUS
<1>4. ASSUME NEW m \in Nat, m \in T PROVE m + 1 \in T
  <2>1. PICK b \in Nat : \A i \in 1..n : i <= m => s[i] <= b
    BY <1>4
  <2>2. CASE m + 1 \in 1..n
    <3>1. s[m + 1] \in Nat
      BY <2>2, Constants
    <3>2. PICK c \in Nat : c >= b /\ c >= s[m + 1]
      BY <3>1
    <3>3. \A i \in 1..n : i <= m + 1 => i <= m \/ i = m + 1
      OBVIOUS
    <3>4. \A i \in 1..n : s[i] \in Nat
      BY Constants
    <3>5. \A i \in 1..n : i <= m + 1 => s[i] <= c
      BY <2>1, <3>1, <3>2, <3>3, <3>4, SMTT(60)
    <3> QED
      BY <3>5
  <2>3. CASE m + 1 \notin 1..n
    <3>1. \A i \in 1..n : i <= m + 1 => i <= m
      <4> SUFFICES ASSUME NEW i \in 1..n, i <= m + 1, ~(i <= m) PROVE FALSE
        OBVIOUS
      <4>1. i = m + 1
        OBVIOUS
      <4> QED
        BY <2>3, <4>1
    <3>2. \A i \in 1..n : i <= m + 1 => s[i] <= b
      BY <2>1, <3>1
    <3> QED
      BY <3>2
  <2> QED
    BY <2>2, <2>3
<1>5. Nat \subseteq T
  <2> HIDE DEF T
  <2> QED
    BY <1>3, <1>4, SetInduction
<1>6. PICK b \in Nat : \A i \in 1..n : i <= n => s[i] <= b
  BY <1>5
<1> QED
  BY <1>2, <1>6

-----------------------------------------------------------------------------
(* The order of entries, and the ends of a file.                           *)

\* Entries that can be compared: no two have one sequence number.
Distinct(entries) ==
  /\ entries \subseteq Entry
  /\ \A d, e \in entries : d.seq = e.seq => d = e

Proper(f) == Distinct(f.entries) /\ f.entries # {}

\* What an entry is made of.
LEMMA EntryFields ==
  ASSUME NEW e \in Entry
  PROVE  /\ e.key \in Keys /\ e.key \in Nat
         /\ e.seq \in Nat /\ e.seq <= MaxSequence /\ e.seq > 0
<1>1. e.key \in Keys /\ e.seq \in 1..MaxSequence
  BY DEF Entry
<1>2. Keys \subseteq Nat /\ MaxSequence \in Nat
  BY Constants
<1>3. \A n \in 1..MaxSequence : n \in Nat /\ n <= MaxSequence /\ n > 0
  BY <1>2
<1>4. e.key \in Nat
  BY <1>1, <1>2
<1> QED
  BY <1>1, <1>3, <1>4, Zenon

\* The comparator orders them.
LEMMA LessTransitive ==
  ASSUME NEW a \in Entry, NEW b \in Entry, NEW c \in Entry,
         InternalKeyLess(a, b), InternalKeyLess(b, c)
  PROVE  InternalKeyLess(a, c)
  BY EntryFields DEF InternalKeyLess

\* No entry is before itself.
LEMMA LessIrreflexive ==
  ASSUME NEW a \in Entry PROVE ~InternalKeyLess(a, a)
  BY EntryFields DEF InternalKeyLess

\* Two entries with sequence numbers of their own are always in order.
LEMMA LessTotal ==
  ASSUME NEW E, Distinct(E), NEW a \in E, NEW b \in E, a # b
  PROVE  InternalKeyLess(a, b) \/ InternalKeyLess(b, a)
<1>1. a \in Entry /\ b \in Entry /\ a.seq # b.seq
  BY DEF Distinct
<1>2. a.key \in Nat /\ b.key \in Nat /\ a.seq \in Nat /\ b.seq \in Nat
  BY <1>1, EntryFields
<1> QED
  BY <1>1, <1>2 DEF InternalKeyLess

\* The smallest entry of a file is one of its entries and before the others.
LEMMA SmallestOf ==
  ASSUME NEW f, Proper(f)
  PROVE  /\ smallest(f) \in f.entries
         /\ \A d \in f.entries : d = smallest(f) \/ InternalKeyLess(smallest(f), d)
<1> DEFINE E == f.entries
           ks == {e.key : e \in E}
<1>0. E \subseteq Entry /\ E # {} /\ Distinct(E)
  BY DEF Proper, Distinct
<1>1. ks \subseteq Nat /\ ks # {}
  BY <1>0, EntryFields
<1>2. PICK k \in ks : \A n \in ks : k <= n
  BY <1>1, LeastOf
<1> DEFINE qs == {e.seq : e \in {d \in E : d.key = k}}
<1>3. qs \subseteq Nat /\ qs # {} /\ \A n \in qs : n <= MaxSequence
  BY <1>0, EntryFields
<1>4. PICK q \in qs : \A n \in qs : n <= q
  <2>1. MaxSequence \in Nat
    BY Constants
  <2> HIDE DEF qs
  <2> QED
    BY <2>1, <1>3, GreatestOf
<1>5. PICK e \in E : e.key = k /\ e.seq = q
  OBVIOUS
<1>6. ASSUME NEW d \in E, d # e PROVE InternalKeyLess(e, d)
  <2>1. d.key \in ks /\ (d.key = k => d.seq \in qs)
    OBVIOUS
  <2>2. d \in Entry /\ e \in Entry /\ d.seq # e.seq
    BY <1>0, <1>6 DEF Distinct
  <2>3. d.key \in Nat /\ e.key \in Nat /\ d.seq \in Nat /\ e.seq \in Nat
    BY <2>2, EntryFields
  <2>4. e.key <= d.key /\ (d.key = e.key => d.seq <= e.seq)
    BY <1>2, <1>4, <1>5, <2>1
  <2> QED
    BY <2>2, <2>3, <2>4 DEF InternalKeyLess
<1>7. \E x \in f.entries : \A d \in f.entries : d = x \/ InternalKeyLess(x, d)
  BY <1>5, <1>6
<1> QED
  BY <1>7, Zenon DEF smallest

\* The largest likewise.
LEMMA LargestOf ==
  ASSUME NEW f, Proper(f)
  PROVE  /\ largest(f) \in f.entries
         /\ \A d \in f.entries : d = largest(f) \/ InternalKeyLess(d, largest(f))
<1> DEFINE E == f.entries
           ks == {e.key : e \in E}
<1>0. E \subseteq Entry /\ E # {} /\ Distinct(E)
  BY DEF Proper, Distinct
<1>1. ks \subseteq Nat /\ ks # {} /\ ks \subseteq Keys
  BY <1>0, EntryFields
<1>2. PICK k \in ks : \A n \in ks : n <= k
  <2>1. PICK b \in Nat : \A x \in Keys : x <= b
    BY KeyBound
  <2>2. \A n \in ks : n <= b
    BY <1>1, <2>1
  <2> HIDE DEF ks
  <2> QED
    BY <1>1, <2>2, GreatestOf
<1> DEFINE qs == {e.seq : e \in {d \in E : d.key = k}}
<1>3. qs \subseteq Nat /\ qs # {}
  BY <1>0, EntryFields
<1>4. PICK q \in qs : \A n \in qs : q <= n
  <2> HIDE DEF qs
  <2> QED
    BY <1>3, LeastOf
<1>5. PICK e \in E : e.key = k /\ e.seq = q
  OBVIOUS
<1>6. ASSUME NEW d \in E, d # e PROVE InternalKeyLess(d, e)
  <2>1. d.key \in ks /\ (d.key = k => d.seq \in qs)
    OBVIOUS
  <2>2. d \in Entry /\ e \in Entry /\ d.seq # e.seq
    BY <1>0, <1>6 DEF Distinct
  <2>3. d.key \in Nat /\ e.key \in Nat /\ d.seq \in Nat /\ e.seq \in Nat
    BY <2>2, EntryFields
  <2>4. d.key <= e.key /\ (d.key = e.key => e.seq <= d.seq)
    BY <1>2, <1>4, <1>5, <2>1
  <2> QED
    BY <2>2, <2>3, <2>4 DEF InternalKeyLess
<1>7. \E x \in f.entries : \A d \in f.entries : d = x \/ InternalKeyLess(d, x)
  BY <1>5, <1>6
<1> QED
  BY <1>7, Zenon DEF largest

\* Its keys lie between the keys of the two.
LEMMA KeyRange ==
  ASSUME NEW f, Proper(f)
  PROVE  /\ smallest(f) \in f.entries /\ largest(f) \in f.entries
         /\ smallest(f) \in Entry /\ largest(f) \in Entry
         /\ smallest(f).key \in Keys /\ largest(f).key \in Keys
         /\ smallest(f).key \in Nat /\ largest(f).key \in Nat
         /\ smallest(f).key <= largest(f).key
         /\ \A e \in f.entries : /\ e \in Entry /\ e.key \in Nat
                                 /\ smallest(f).key <= e.key
                                 /\ e.key <= largest(f).key
<1>1. f.entries \subseteq Entry
  BY DEF Proper, Distinct
<1>2. smallest(f) \in f.entries /\ largest(f) \in f.entries
  BY SmallestOf, LargestOf
<1>3. \A e \in f.entries : /\ e \in Entry /\ e.key \in Nat
                           /\ smallest(f).key <= e.key /\ e.key <= largest(f).key
  <2> SUFFICES ASSUME NEW e \in f.entries
               PROVE  /\ e \in Entry /\ e.key \in Nat
                      /\ smallest(f).key <= e.key /\ e.key <= largest(f).key
    OBVIOUS
  <2>1. e = smallest(f) \/ InternalKeyLess(smallest(f), e)
    BY SmallestOf
  <2>2. e = largest(f) \/ InternalKeyLess(e, largest(f))
    BY LargestOf
  <2>3. e \in Entry /\ smallest(f) \in Entry /\ largest(f) \in Entry
    BY <1>1, <1>2
  <2>4. e.key \in Nat /\ smallest(f).key \in Nat /\ largest(f).key \in Nat
    BY <2>3, EntryFields
  <2> QED
    BY <2>1, <2>2, <2>3, <2>4 DEF InternalKeyLess
<1> QED
  BY <1>1, <1>2, <1>3, EntryFields

-----------------------------------------------------------------------------
(* Sets of files and the ranges they cover.                                *)

\* The ends of a set of files are the ends of two of them.
LEMMA LowHigh ==
  ASSUME NEW files, files # {}, \A f \in files : Proper(f)
  PROVE  /\ Low(files) \in Keys /\ High(files) \in Keys
         /\ Low(files) \in Nat /\ High(files) \in Nat
         /\ \A f \in files : /\ Low(files) <= smallest(f).key
                             /\ largest(f).key <= High(files)
         /\ \E f \in files : Low(files) = smallest(f).key
         /\ \E f \in files : High(files) = largest(f).key
<1> DEFINE S == {smallest(f).key : f \in files}
           T == {largest(f).key : f \in files}
<1>0. Keys \subseteq Nat
  BY Constants
<1>1. S \subseteq Keys /\ S # {} /\ T \subseteq Keys /\ T # {}
  BY KeyRange
<1>2. \E m \in S : \A n \in S : m <= n
  <2> HIDE DEF S
  <2> QED
    BY <1>0, <1>1, LeastOf
<1>3. \E m \in T : \A n \in T : n <= m
  <2> HIDE DEF T
  <2>1. PICK b \in Nat : \A k \in Keys : k <= b
    BY KeyBound
  <2> QED
    BY <1>0, <1>1, <2>1, GreatestOf
<1>4. \E m \in S : \A f \in files : m <= smallest(f).key
  BY <1>2
<1>5. \E m \in T : \A f \in files : m >= largest(f).key
  <2>1. PICK m \in T : \A n \in T : n <= m
    BY <1>3
  <2>2. ASSUME NEW f \in files PROVE m >= largest(f).key
    <3>1. largest(f).key \in T
      OBVIOUS
    <3>2. m \in Nat /\ largest(f).key \in Nat
      BY <1>0, <1>1, <3>1
    <3> QED
      BY <2>1, <3>1, <3>2
  <2> QED
    BY <2>1, <2>2
<1>6. Low(files) \in S /\ \A f \in files : Low(files) <= smallest(f).key
  BY <1>4, Zenon DEF Low
<1>7. High(files) \in T /\ \A f \in files : High(files) >= largest(f).key
  BY <1>5, Zenon DEF High
<1>8. \A f \in files : largest(f).key \in Nat
  BY KeyRange
<1>9. Low(files) \in Keys /\ High(files) \in Keys
  BY <1>1, <1>6, <1>7, Zenon
<1>10. Low(files) \in Nat /\ High(files) \in Nat
  BY <1>9, <1>0
<1>11. \A f \in files : largest(f).key <= High(files)
  BY <1>7, <1>8, <1>10
<1> QED
  BY <1>6, <1>7, <1>9, <1>10, <1>11

-----------------------------------------------------------------------------
(* GetOverlappingInputs.                                                   *)

\* A range that cuts no file of level 0.
Cuts(v, r) ==
  \E f \in v[0] : Overlaps(f, r[1], r[2]) /\
                  ~(r[1] <= smallest(f).key /\ largest(f).key <= r[2])

Uncut(v, begin, end) ==
  {r \in Keys \X Keys : r[1] <= begin /\ r[2] >= end /\ ~Cuts(v, r)}

\* The ranges around begin and end that cut no file have a least one.
LEMMA LeastUncut ==
  ASSUME NEW v, \A f \in v[0] : Proper(f), NEW begin \in Keys, NEW end \in Keys
  PROVE  \E r \in Uncut(v, begin, end) :
           \A q \in Uncut(v, begin, end) : q[1] <= r[1] /\ r[2] <= q[2]
<1> DEFINE U == Uncut(v, begin, end)
           A == {r[1] : r \in U}
           B == {r[2] : r \in U}
<1>0. Keys \subseteq Nat /\ Keys # {}
  BY Constants
<1>1. PICK lo \in Keys : \A k \in Keys : lo <= k
  BY <1>0, LeastOf
<1>2. PICK hi \in Keys : \A k \in Keys : k <= hi
  <2>1. PICK b \in Nat : \A k \in Keys : k <= b
    BY KeyBound
  <2> QED
    BY <1>0, <2>1, GreatestOf
<1>3. <<lo, hi>> \in U
  <2>1. \A f \in v[0] : lo <= smallest(f).key /\ largest(f).key <= hi
    BY <1>1, <1>2, KeyRange
  <2>2. lo <= begin /\ hi >= end
    BY <1>0, <1>1, <1>2
  <2> QED
    BY <2>1, <2>2 DEF Uncut, Cuts
<1>4. A \subseteq Nat /\ A # {} /\ B \subseteq Nat /\ B # {}
  <2>1. U \subseteq Keys \X Keys
    BY DEF Uncut
  <2>2. \A r \in U : r[1] \in Nat /\ r[2] \in Nat
    BY <2>1, <1>0
  <2> HIDE DEF U
  <2> QED
    BY <1>3, <2>2
<1>5. PICK r \in U : \A q \in U : q[1] <= r[1]
  <2>1. begin \in Nat
    BY <1>0
  <2>2. \A n \in A : n <= begin
    BY DEF Uncut
  <2>3. \E m \in A : \A n \in A : n <= m
    <3> HIDE DEF A
    <3> QED
      BY <1>4, <2>1, <2>2, GreatestOf
  <2> HIDE DEF U
  <2> QED
    BY <2>3
<1>6. PICK s \in U : \A q \in U : s[2] <= q[2]
  <2>1. \E m \in B : \A n \in B : m <= n
    <3> HIDE DEF B
    <3> QED
      BY <1>4, LeastOf
  <2> HIDE DEF U
  <2> QED
    BY <2>1
<1> DEFINE t == <<r[1], s[2]>>
<1>7. /\ r[1] \in Keys /\ r[2] \in Keys /\ s[1] \in Keys /\ s[2] \in Keys
      /\ r[1] \in Nat /\ r[2] \in Nat /\ s[1] \in Nat /\ s[2] \in Nat
      /\ s[1] <= r[1] /\ s[2] <= r[2]
      /\ r[1] <= begin /\ s[2] >= end
      /\ ~Cuts(v, r) /\ ~Cuts(v, s)
  BY <1>0, <1>5, <1>6 DEF Uncut
<1>8. ~Cuts(v, t)
  <2> SUFFICES ASSUME NEW f \in v[0], largest(f).key >= r[1], smallest(f).key <= s[2]
               PROVE  r[1] <= smallest(f).key /\ largest(f).key <= s[2]
    BY DEF Cuts, Overlaps
  <2>1. smallest(f).key \in Nat /\ largest(f).key \in Nat
    BY KeyRange
  <2>2. Overlaps(f, r[1], r[2]) /\ Overlaps(f, s[1], s[2])
    BY <1>7, <2>1 DEF Overlaps
  <2> QED
    BY <1>7, <2>2 DEF Cuts
<1>9. t \in U
  BY <1>7, <1>8 DEF Uncut
<1>10. \A q \in U : q[1] <= t[1] /\ t[2] <= q[2]
  BY <1>5, <1>6
<1> QED
  BY <1>9, <1>10

\* Above level 0 the files that overlap the range; in level 0 those that
\* overlap the least range around it that cuts none.
Least(v, begin, end, r) ==
  /\ r \in Uncut(v, begin, end)
  /\ \A q \in Uncut(v, begin, end) : q[1] <= r[1] /\ r[2] <= q[2]

\* Above level 0 GetOverlappingInputs takes what overlaps the range.
LEMMA Overlapping ==
  ASSUME NEW v, NEW level, NEW begin, NEW end, level # 0
  PROVE  GetOverlappingInputs(v, level, begin, end) =
           {f \in v[level] : Overlaps(f, begin, end)}
  BY DEF GetOverlappingInputs

\* In level 0 it takes what overlaps the least range that cuts no file.
LEMMA OverlappingLevel0 ==
  ASSUME NEW v, \A f \in v[0] : Proper(f), NEW begin \in Keys, NEW end \in Keys
  PROVE  \E r : /\ Least(v, begin, end, r)
                /\ GetOverlappingInputs(v, 0, begin, end) =
                     {f \in v[0] : Overlaps(f, r[1], r[2])}
<1> DEFINE r == GrownRange(v, begin, end)
           U == Uncut(v, begin, end)
<1>1. \E p \in U : \A q \in U : q[1] <= p[1] /\ p[2] <= q[2]
  BY LeastUncut
<1>2. U = {p \in Keys \X Keys :
             /\ p[1] <= begin /\ p[2] >= end
             /\ \A f \in v[0] : Overlaps(f, p[1], p[2]) =>
                  p[1] <= smallest(f).key /\ largest(f).key <= p[2]}
  BY DEF Uncut, Cuts
<1>3. r = CHOOSE p \in U : \A q \in U : q[1] <= p[1] /\ p[2] <= q[2]
  <2> HIDE DEF U
  <2> QED
    BY <1>2, Zenon DEF GrownRange
<1>4. r \in U /\ \A q \in U : q[1] <= r[1] /\ r[2] <= q[2]
  <2> HIDE DEF U
  <2> QED
    BY <1>1, <1>3, Zenon
<1>5. Least(v, begin, end, r)
  BY <1>4 DEF Least
<1>6. GetOverlappingInputs(v, 0, begin, end) = {f \in v[0] : Overlaps(f, r[1], r[2])}
  BY DEF GetOverlappingInputs
<1> QED
  <2> HIDE DEF r
  <2> QED
    BY <1>5, <1>6

\* They are files of the level.
LEMMA OverlappingSubset ==
  ASSUME NEW v, NEW level, NEW begin, NEW end
  PROVE  GetOverlappingInputs(v, level, begin, end) \subseteq v[level]
  BY DEF GetOverlappingInputs

\* Every file of the level that overlaps the range is there.
LEMMA OverlappingAll ==
  ASSUME NEW v, NEW level, \A f \in v[level] : Proper(f),
         NEW begin \in Keys, NEW end \in Keys, NEW f \in v[level], Overlaps(f, begin, end)
  PROVE  f \in GetOverlappingInputs(v, level, begin, end)
<1>1. CASE level # 0
  BY <1>1, Overlapping
<1>2. CASE level = 0
  <2>1. PICK r : /\ Least(v, begin, end, r)
                 /\ GetOverlappingInputs(v, 0, begin, end) =
                      {g \in v[0] : Overlaps(g, r[1], r[2])}
    BY <1>2, OverlappingLevel0
  <2>2. r[1] <= begin /\ r[2] >= end /\ r[1] \in Nat /\ r[2] \in Nat /\ begin \in Nat /\ end \in Nat
    BY <2>1, Constants DEF Least, Uncut
  <2>3. smallest(f).key \in Nat /\ largest(f).key \in Nat
    BY KeyRange
  <2>4. Overlaps(f, r[1], r[2])
    BY <2>2, <2>3 DEF Overlaps
  <2> QED
    BY <1>2, <2>1, <2>4
<1> QED
  BY <1>1, <1>2

\* In level 0 no other file has a key of theirs.
LEMMA Level0SharesNoKey ==
  ASSUME NEW v, \A f \in v[0] : Proper(f), NEW begin \in Keys, NEW end \in Keys,
         NEW f \in GetOverlappingInputs(v, 0, begin, end),
         NEW g \in v[0], NEW d \in f.entries, NEW e \in g.entries, d.key = e.key
  PROVE  g \in GetOverlappingInputs(v, 0, begin, end)
<1>1. PICK r : /\ Least(v, begin, end, r)
               /\ GetOverlappingInputs(v, 0, begin, end) =
                    {h \in v[0] : Overlaps(h, r[1], r[2])}
  BY OverlappingLevel0
<1>2. f \in v[0] /\ Overlaps(f, r[1], r[2]) /\ ~Cuts(v, r) /\ r[1] \in Nat /\ r[2] \in Nat
  BY <1>1, Constants DEF Least, Uncut
<1>3. r[1] <= smallest(f).key /\ largest(f).key <= r[2]
  BY <1>2 DEF Cuts
<1>4. /\ smallest(f).key \in Nat /\ largest(f).key \in Nat
      /\ smallest(g).key \in Nat /\ largest(g).key \in Nat
      /\ d.key \in Nat /\ e.key \in Nat
      /\ smallest(f).key <= d.key /\ d.key <= largest(f).key
      /\ smallest(g).key <= e.key /\ e.key <= largest(g).key
  BY <1>2, KeyRange
<1>5. Overlaps(g, r[1], r[2])
  BY <1>2, <1>3, <1>4 DEF Overlaps
<1> QED
  BY <1>1, <1>5

-----------------------------------------------------------------------------
(* Where a flushed table goes.                                             *)

\* Some level is chosen, and no file of it or above it overlaps the table
\* unless it is level 0.
LEMMA PickedLevel ==
  ASSUME NEW v, NEW begin, NEW end, NEW l,
         l = PickLevelForMemTableOutput(v, begin, end)
  PROVE  /\ l \in Levels
         /\ l # 0 => \A m \in 0..l : ~OverlapInLevel(v, m, begin, end)
<1> DEFINE k == kMaxMemCompactLevel
           T == {n \in 0..k : \A m \in 1..n : MayEnter(v, m, begin, end)}
           Stop(n) == n < k => ~MayEnter(v, n + 1, begin, end)
<1>0. k \in Nat /\ kNumLevels \in Nat /\ k <= kNumLevels - 1
  BY Constants
<1>1. CASE OverlapInLevel(v, 0, begin, end)
  <2>1. l = 0
    BY <1>1 DEF PickLevelForMemTableOutput
  <2> QED
    BY <1>0, <2>1 DEF Levels
<1>2. CASE ~OverlapInLevel(v, 0, begin, end)
  <2>1. 0 \in T
    BY <1>0
  <2>2. T \subseteq Nat /\ \A n \in T : n <= k
    BY <1>0
  <2>3. PICK n \in T : \A p \in T : p <= n
    <3> HIDE DEF T
    <3> QED
      BY <1>0, <2>1, <2>2, GreatestOf
  <2>4. Stop(n)
    <3> SUFFICES ASSUME n < k, MayEnter(v, n + 1, begin, end) PROVE FALSE
      OBVIOUS
    <3>1. n \in 0..k /\ \A m \in 1..n : MayEnter(v, m, begin, end)
      OBVIOUS
    <3>2. \A m \in 1..(n + 1) : m \in 1..n \/ m = n + 1
      BY <1>0
    <3>3. \A m \in 1..(n + 1) : MayEnter(v, m, begin, end)
      BY <3>1, <3>2
    <3>4. n + 1 \in 0..k
      BY <1>0, <3>1
    <3>5. n + 1 \in T
      BY <3>3, <3>4
    <3> QED
      BY <1>0, <2>3, <3>1, <3>5
  <2>5. \E p \in 0..k : /\ \A m \in 1..p : MayEnter(v, m, begin, end)
                        /\ Stop(p)
    BY <2>3, <2>4
  <2>6. l = CHOOSE p \in 0..k : /\ \A m \in 1..p : MayEnter(v, m, begin, end)
                                /\ Stop(p)
    BY <1>2 DEF PickLevelForMemTableOutput
  <2>7. l \in 0..k /\ \A m \in 1..l : MayEnter(v, m, begin, end)
    <3> HIDE DEF Stop, k
    <3> QED
      BY <2>5, <2>6, Zenon
  <2>8. ASSUME NEW m \in 0..l PROVE ~OverlapInLevel(v, m, begin, end)
    <3>1. m = 0 \/ m \in 1..l
      BY <1>0, <2>7
    <3>2. m \in 1..l => ~OverlapInLevel(v, m, begin, end)
      BY <2>7 DEF MayEnter
    <3> QED
      BY <1>2, <3>1, <3>2
  <2>9. l \in Levels
    BY <1>0, <2>7 DEF Levels
  <2> QED
    BY <2>8, <2>9
<1> QED
  BY <1>1, <1>2

\* A file that overlaps no file of a set has no key in common with them.
LEMMA ApartShareNoKey ==
  ASSUME NEW f, Proper(f), NEW g, Proper(g),
         ~Overlaps(g, smallest(f).key, largest(f).key)
  PROVE  /\ largest(g).key < smallest(f).key \/ largest(f).key < smallest(g).key
         /\ \A d \in f.entries, e \in g.entries : d.key # e.key
<1>1. /\ smallest(f).key \in Nat /\ largest(f).key \in Nat
      /\ smallest(g).key \in Nat /\ largest(g).key \in Nat
      /\ \A e \in f.entries : e.key \in Nat /\ smallest(f).key <= e.key /\ e.key <= largest(f).key
      /\ \A e \in g.entries : e.key \in Nat /\ smallest(g).key <= e.key /\ e.key <= largest(g).key
  BY KeyRange
<1>2. largest(g).key < smallest(f).key \/ largest(f).key < smallest(g).key
  BY <1>1 DEF Overlaps
<1> QED
  BY <1>1, <1>2

\* The ends of one file.
LEMMA LowHighOne ==
  ASSUME NEW f, Proper(f)
  PROVE  Low({f}) = smallest(f).key /\ High({f}) = largest(f).key
  BY LowHigh

-----------------------------------------------------------------------------
(* The inputs of a compaction.                                             *)

CompactionFields ==
  {"state", "level", "inputs0", "inputs1", "grandparents", "version", "rest",
   "outputs", "open", "seen_key", "passed", "overlapped", "smallest_snapshot",
   "is_manual"}

\* A compaction that has read nothing yet.
Fresh(c, level, v, oldest) ==
  /\ DOMAIN c = CompactionFields
  /\ c.state = "work" /\ c.level = level /\ c.version = v
  /\ c.rest = Inputs(c) /\ c.outputs = <<>> /\ c.open = FALSE
  /\ c.smallest_snapshot = oldest /\ c.is_manual = FALSE

\* What SetupOtherInputs makes of the files it is given.
LEMMA SetupFields ==
  ASSUME NEW level, NEW files, NEW c, c = SetupOtherInputs(level, files)
  PROVE  Fresh(c, level, current, SmallestSnapshot)
  BY DEF SetupOtherInputs, CompactionFields, Inputs, Fresh

NextInputs(level, files) ==
  GetOverlappingInputs(current, level + 1, Low(files), High(files))
Expanded(level, files) ==
  LET all == files \cup NextInputs(level, files)
  IN GetOverlappingInputs(current, level, Low(all), High(all))

\* SetupOtherInputs: the next level's inputs are all that overlap the
\* level's, which are the files given or the expanded set.
LEMMA SetupInputs ==
  ASSUME NEW level, NEW files, NEW c, c = SetupOtherInputs(level, files)
  PROVE  /\ c.inputs1 = NextInputs(level, c.inputs0)
         /\ c.inputs0 = files \/ c.inputs0 = Expanded(level, files)
  BY DEF SetupOtherInputs, NextInputs, Expanded

-----------------------------------------------------------------------------
(* Gaps between files.                                                     *)

AllProper(v) == \A l \in Levels : \A f \in v[l] : Proper(f)

\* No key between the ends of the files is outside all of them, so that a
\* table that overlaps none of them is before or after them all.
Covers(f, k) == smallest(f).key <= k /\ k <= largest(f).key
Contiguous(files) ==
  \A k \in Keys : \/ \A f \in files : k < smallest(f).key
                  \/ \A f \in files : largest(f).key < k
                  \/ \E f \in files : Covers(f, k)

\* One table leaves no gap.
LEMMA ContiguousOne ==
  ASSUME NEW f, Proper(f)
  PROVE  Contiguous({f})
<1>1. smallest(f).key \in Nat /\ largest(f).key \in Nat /\ Keys \subseteq Nat
  BY KeyRange, Constants
<1> QED
  BY <1>1 DEF Contiguous, Covers

\* Files that reach into a contiguous set's range keep it contiguous.
LEMMA ContiguousMore ==
  ASSUME NEW S, S # {}, \A f \in S : Proper(f), Contiguous(S),
         NEW T, \A t \in T : /\ Proper(t)
                             /\ smallest(t).key <= High(S) /\ Low(S) <= largest(t).key
  PROVE  Contiguous(S \cup T)
<1> SUFFICES ASSUME NEW k \in Keys, \A f \in S \cup T : ~Covers(f, k)
             PROVE  \/ \A f \in S \cup T : k < smallest(f).key
                    \/ \A f \in S \cup T : largest(f).key < k
  BY DEF Contiguous
<1>1. k \in Nat /\ Low(S) \in Nat /\ High(S) \in Nat
  BY LowHigh, Constants
<1>2. \A f \in S \cup T : /\ smallest(f).key \in Nat /\ largest(f).key \in Nat
                          /\ smallest(f).key <= largest(f).key
  BY KeyRange
<1>3. PICK a \in S : Low(S) = smallest(a).key
  BY LowHigh
<1>4. PICK b \in S : High(S) = largest(b).key
  BY LowHigh
<1>5. \A f \in S : Low(S) <= smallest(f).key /\ largest(f).key <= High(S)
  BY LowHigh
<1>6. CASE \A f \in S : k < smallest(f).key
  <2>1. k < Low(S)
    BY <1>3, <1>6
  <2>2. ASSUME NEW t \in T PROVE k < smallest(t).key
    <3>1. Low(S) <= largest(t).key /\ ~Covers(t, k)
      OBVIOUS
    <3> QED
      BY <1>1, <1>2, <2>1, <3>1 DEF Covers
  <2> QED
    BY <1>6, <2>2
<1>7. CASE \A f \in S : largest(f).key < k
  <2>1. High(S) < k
    BY <1>4, <1>7
  <2>2. ASSUME NEW t \in T PROVE largest(t).key < k
    <3>1. smallest(t).key <= High(S) /\ ~Covers(t, k)
      OBVIOUS
    <3> QED
      BY <1>1, <1>2, <2>1, <3>1 DEF Covers
  <2> QED
    BY <1>7, <2>2
<1> QED
  BY <1>6, <1>7 DEF Contiguous

\* A key above the range that no file of level 0 covers would have stopped the
\* range from growing past it; so would one below.
LEMMA GrownCovered ==
  ASSUME NEW v, \A f \in v[0] : Proper(f), NEW begin \in Keys, NEW end \in Keys,
         NEW r, Least(v, begin, end, r), NEW k \in Keys,
         \A f \in v[0] : Overlaps(f, r[1], r[2]) => ~Covers(f, k)
  PROVE  /\ end < k => r[2] < k
         /\ k < begin => k < r[1]
<1>0. /\ Keys \subseteq Nat /\ k \in Nat /\ begin \in Nat /\ end \in Nat
      /\ r[1] \in Keys /\ r[2] \in Keys /\ r[1] \in Nat /\ r[2] \in Nat
      /\ r[1] <= begin /\ r[2] >= end /\ ~Cuts(v, r)
      /\ \A q \in Uncut(v, begin, end) : q[1] <= r[1] /\ r[2] <= q[2]
  BY Constants DEF Least, Uncut
<1>1. \A f \in v[0] : /\ smallest(f).key \in Nat /\ largest(f).key \in Nat
                      /\ smallest(f).key \in Keys /\ largest(f).key \in Keys
  BY KeyRange
<1>2. ASSUME end < k, k <= r[2] PROVE FALSE
  <2> DEFINE S == {x \in Keys : x < k}
  <2>0. end \in S /\ S \subseteq Nat
    BY <1>0, <1>2
  <2>1. S \subseteq Nat /\ S # {} /\ \A x \in S : x <= k
    BY <1>0, <2>0
  <2>2. PICK m \in S : \A x \in S : x <= m
    <3> HIDE DEF S
    <3> QED
      BY <1>0, <2>1, GreatestOf
  <2> DEFINE q == <<r[1], m>>
  <2>3. m \in Keys /\ m \in Nat /\ m < k /\ \A x \in Keys : x < k => x <= m
    BY <1>0, <2>2
  <2> HIDE DEF S
  <2>4. ~Cuts(v, q)
    <3> SUFFICES ASSUME NEW f \in v[0], largest(f).key >= r[1], smallest(f).key <= m
                 PROVE  r[1] <= smallest(f).key /\ largest(f).key <= m
      BY DEF Cuts, Overlaps
    <3>1. Overlaps(f, r[1], r[2])
      BY <1>0, <1>1, <1>2, <2>3 DEF Overlaps
    <3>2. r[1] <= smallest(f).key /\ ~Covers(f, k)
      BY <1>0, <3>1 DEF Cuts
    <3>3. largest(f).key < k
      BY <1>0, <1>1, <2>3, <3>2 DEF Covers
    <3> QED
      BY <1>1, <2>3, <3>2, <3>3
  <2>5. m >= end
    BY <1>0, <1>2, <2>3
  <2>6. q \in Uncut(v, begin, end)
    BY <1>0, <2>3, <2>4, <2>5 DEF Uncut
  <2>7. r[2] <= q[2]
    BY <1>0, <2>6, Zenon
  <2> QED
    BY <1>0, <1>2, <2>3, <2>7
<1>3. ASSUME k < begin, r[1] <= k PROVE FALSE
  <2> DEFINE S == {x \in Keys : k < x}
  <2>1. S \subseteq Nat /\ S # {}
    BY <1>0, <1>3
  <2>2. PICK m \in S : \A x \in S : m <= x
    <3> HIDE DEF S
    <3> QED
      BY <2>1, LeastOf
  <2> DEFINE q == <<m, r[2]>>
  <2>3. m \in Keys /\ m \in Nat /\ k < m /\ \A x \in Keys : k < x => m <= x
    BY <1>0, <2>2
  <2> HIDE DEF S
  <2>4. ~Cuts(v, q)
    <3> SUFFICES ASSUME NEW f \in v[0], largest(f).key >= m, smallest(f).key <= r[2]
                 PROVE  m <= smallest(f).key /\ largest(f).key <= r[2]
      BY DEF Cuts, Overlaps
    <3>1. Overlaps(f, r[1], r[2])
      BY <1>0, <1>1, <1>3, <2>3 DEF Overlaps
    <3>2. largest(f).key <= r[2] /\ ~Covers(f, k)
      BY <1>0, <3>1 DEF Cuts
    <3>3. k < smallest(f).key
      BY <1>0, <1>1, <2>3, <3>2 DEF Covers
    <3> QED
      BY <1>1, <2>3, <3>2, <3>3
  <2>5. m <= begin
    BY <1>0, <1>3, <2>3
  <2>6. q \in Uncut(v, begin, end)
    BY <1>0, <2>3, <2>4, <2>5 DEF Uncut
  <2>7. q[1] <= r[1]
    BY <1>0, <2>6, Zenon
  <2> QED
    BY <1>0, <1>3, <2>3, <2>7
<1> QED
  BY <1>0, <1>2, <1>3

\* The files GetOverlappingInputs finds around a contiguous set.
LEMMA ContiguousInputs ==
  ASSUME NEW v, NEW level, \A f \in v[level] : Proper(f),
         NEW S, S # {}, \A f \in S : Proper(f), Contiguous(S),
         NEW T, T = GetOverlappingInputs(v, level, Low(S), High(S))
  PROVE  Contiguous(S \cup T)
<1>1. Low(S) \in Keys /\ High(S) \in Keys /\ Low(S) \in Nat /\ High(S) \in Nat
  BY LowHigh
<1>2. T \subseteq v[level]
  BY OverlappingSubset
<1>3. CASE level # 0
  <2>1. \A t \in T : Overlaps(t, Low(S), High(S))
    BY <1>3, Overlapping
  <2>2. \A t \in T : /\ Proper(t) /\ smallest(t).key <= High(S)
                     /\ largest(t).key >= Low(S)
    BY <1>2, <2>1 DEF Overlaps
  <2>3. \A t \in T : largest(t).key \in Nat
    BY <2>2, KeyRange
  <2>4. \A t \in T : Low(S) <= largest(t).key
    BY <1>1, <2>2, <2>3
  <2> QED
    BY <2>2, <2>4, ContiguousMore
<1>4. CASE level = 0
  <2>1. PICK r : /\ Least(v, Low(S), High(S), r)
                 /\ T = {f \in v[0] : Overlaps(f, r[1], r[2])}
    BY <1>1, <1>4, OverlappingLevel0
  <2>2. /\ r[1] \in Nat /\ r[2] \in Nat /\ r[1] <= Low(S) /\ r[2] >= High(S) /\ ~Cuts(v, r)
    BY <2>1, Constants DEF Least, Uncut
  <2>3. \A t \in T : r[1] <= smallest(t).key /\ largest(t).key <= r[2]
    BY <2>1, <2>2 DEF Cuts
  <2> SUFFICES ASSUME NEW k \in Keys, \A f \in S \cup T : ~Covers(f, k)
               PROVE  \/ \A f \in S \cup T : k < smallest(f).key
                      \/ \A f \in S \cup T : largest(f).key < k
    BY DEF Contiguous
  <2>4. k \in Nat
    BY Constants
  <2>5. \A f \in S \cup T : smallest(f).key \in Nat /\ largest(f).key \in Nat
    BY <1>2, <1>4, KeyRange
  <2>6. \A f \in v[0] : Overlaps(f, r[1], r[2]) => ~Covers(f, k)
    BY <2>1
  <2>7. (High(S) < k => r[2] < k) /\ (k < Low(S) => k < r[1])
    BY <1>1, <1>4, <2>1, <2>6, GrownCovered
  <2>8. \A f \in S : Low(S) <= smallest(f).key /\ largest(f).key <= High(S)
    BY LowHigh
  <2>9. CASE \A f \in S : k < smallest(f).key
    <3>1. k < Low(S)
      BY <2>9, LowHigh
    <3>2. k < r[1]
      BY <2>7, <3>1
    <3>3. \A t \in T : k < smallest(t).key
      BY <2>2, <2>3, <2>4, <2>5, <3>2
    <3> QED
      BY <2>9, <3>3
  <2>10. CASE \A f \in S : largest(f).key < k
    <3>1. High(S) < k
      BY <2>10, LowHigh
    <3>2. r[2] < k
      BY <2>7, <3>1
    <3>3. \A t \in T : largest(t).key < k
      BY <2>2, <2>3, <2>4, <2>5, <3>2
    <3> QED
      BY <2>10, <3>3
  <2> QED
    BY <2>9, <2>10 DEF Contiguous
<1> QED
  BY <1>3, <1>4

-----------------------------------------------------------------------------
(* The inputs of a compaction.                                             *)

\* Files that have their keys to themselves in level 0.
Closed0(v, files) ==
  \A f \in files, g \in v[0] : \A d \in f.entries, e \in g.entries :
    d.key = e.key => g \in files

\* The levels a compaction is between.
LEMMA CompactLevel ==
  ASSUME NEW level \in CompactLevels
  PROVE  /\ level \in Levels /\ level + 1 \in Levels /\ level \in Nat
         /\ level + 1 # 0 /\ level # level + 1 /\ level + 1 > level
         /\ level + 2 > level + 1 /\ level + 2 \in Nat
  BY Constants DEF Levels, CompactLevels

\* The inputs of a compaction: all of the next level that overlaps them, and
\* in level 0 all that have a key of theirs.
LEMMA SetupPlan ==
  ASSUME AllProper(current), NEW level \in CompactLevels,
         NEW files, files \subseteq current[level], files # {},
         NEW c, c = SetupOtherInputs(level, files)
  PROVE  /\ c.inputs0 \subseteq current[level] /\ files \subseteq c.inputs0
         /\ c.inputs1 \subseteq current[level + 1]
         /\ \A g \in current[level + 1] \ c.inputs1 :
              ~Overlaps(g, Low(c.inputs0), High(c.inputs0))
         /\ level = 0 /\ Closed0(current, files) => Closed0(current, c.inputs0)
         /\ Contiguous(files) => Contiguous(c.inputs0 \cup c.inputs1)
<1> DEFINE next == NextInputs(level, files)
           all == files \cup next
           ex0 == Expanded(level, files)
           in0 == c.inputs0
           in1 == c.inputs1
<1>0. level \in Levels /\ level + 1 \in Levels /\ level + 1 # 0
  BY CompactLevel
<1>1. /\ \A f \in current[level] : Proper(f)
      /\ \A f \in current[level + 1] : Proper(f)
  BY <1>0 DEF AllProper
<1>2. in1 = NextInputs(level, in0) /\ (in0 = files \/ in0 = ex0)
  BY SetupInputs
<1>3. next \subseteq current[level + 1] /\ ex0 \subseteq current[level]
      /\ in1 \subseteq current[level + 1]
  BY <1>2, OverlappingSubset DEF NextInputs, Expanded
<1>4. \A f \in all : Proper(f)
  BY <1>1, <1>3
<1>5. all # {} /\ Low(all) \in Keys /\ High(all) \in Keys
  BY <1>4, LowHigh
<1>6. files \subseteq ex0
  <2> SUFFICES ASSUME NEW f \in files PROVE f \in ex0
    OBVIOUS
  <2>1. /\ Low(all) <= smallest(f).key /\ largest(f).key <= High(all)
        /\ Low(all) \in Nat /\ High(all) \in Nat
    BY <1>4, <1>5, LowHigh
  <2>2. /\ smallest(f).key \in Nat /\ largest(f).key \in Nat
        /\ smallest(f).key <= largest(f).key /\ f \in current[level]
    BY <1>1, KeyRange
  <2>3. Overlaps(f, Low(all), High(all))
    BY <2>1, <2>2 DEF Overlaps
  <2>4. f \in GetOverlappingInputs(current, level, Low(all), High(all))
    BY <1>1, <1>5, <2>2, <2>3, OverlappingAll
  <2> QED
    BY <2>4 DEF Expanded
<1>7. in0 \subseteq current[level] /\ files \subseteq in0
  BY <1>2, <1>3, <1>6
<1>8. \A g \in current[level + 1] \ in1 : ~Overlaps(g, Low(in0), High(in0))
  BY <1>0, <1>2, Overlapping DEF NextInputs
<1>9. ASSUME level = 0, Closed0(current, files) PROVE Closed0(current, in0)
  <2>1. CASE in0 = files
    BY <1>9, <2>1
  <2>2. CASE in0 = ex0
    <3>1. in0 = GetOverlappingInputs(current, 0, Low(all), High(all))
      BY <1>9, <2>2 DEF Expanded
    <3>2. \A f \in current[0] : Proper(f)
      BY <1>1, <1>9
    <3> HIDE DEF in0, all
    <3> QED
      BY <1>5, <3>1, <3>2, Level0SharesNoKey DEF Closed0
  <2> QED
    BY <1>2, <2>1, <2>2
<1>10. ASSUME Contiguous(files) PROVE Contiguous(in0 \cup in1)
  <2>1. \A f \in files : Proper(f)
    BY <1>4
  <2>2. Contiguous(all)
    <3>1. next = GetOverlappingInputs(current, level + 1, Low(files), High(files))
      BY DEF NextInputs
    <3> HIDE DEF next
    <3> QED
      BY <1>1, <1>10, <2>1, <3>1, ContiguousInputs
  <2>3. CASE in0 = files
    BY <1>2, <2>2, <2>3
  <2>4. CASE in0 = ex0
    <3> DEFINE S == all \cup ex0
    <3>1. ex0 = GetOverlappingInputs(current, level, Low(all), High(all))
      BY DEF Expanded
    <3>2. Contiguous(S)
      <4> HIDE DEF ex0, all
      <4> QED
        BY <1>1, <1>4, <1>5, <2>2, <3>1, ContiguousInputs
    <3>3. \A f \in S : Proper(f)
      BY <1>1, <1>3, <1>4
    <3>4. in0 # {} /\ \A f \in in0 : Proper(f)
      BY <1>1, <1>7
    <3>5. \A t \in in1 : Overlaps(t, Low(in0), High(in0)) /\ Proper(t)
      BY <1>0, <1>1, <1>2, <1>3, Overlapping DEF NextInputs
    <3>6. Low(S) <= Low(in0) /\ High(in0) <= High(S)
      <4>1. in0 \subseteq S /\ S # {}
        BY <2>4, <3>4
      <4> HIDE DEF S, in0
      <4> QED
        BY <3>3, <3>4, <4>1, LowHigh
    <3>7. /\ Low(S) \in Nat /\ High(S) \in Nat /\ Low(in0) \in Nat /\ High(in0) \in Nat
      BY <1>5, <3>3, <3>4, LowHigh
    <3>8. \A t \in in1 : /\ Proper(t)
                         /\ smallest(t).key <= High(S) /\ Low(S) <= largest(t).key
      <4> SUFFICES ASSUME NEW t \in in1
                   PROVE  smallest(t).key <= High(S) /\ Low(S) <= largest(t).key
        BY <3>5
      <4>1. smallest(t).key \in Nat /\ largest(t).key \in Nat
        BY <3>5, KeyRange
      <4>2. largest(t).key >= Low(in0) /\ smallest(t).key <= High(in0)
        BY <3>5 DEF Overlaps
      <4> HIDE DEF S, in0
      <4> QED
        BY <3>6, <3>7, <4>1, <4>2
    <3>9. S # {}
      BY <1>5
    <3>10. Contiguous(S \cup in1)
      <4> HIDE DEF S, in1
      <4> QED
        BY <3>2, <3>3, <3>8, <3>9, ContiguousMore
    <3>11. next \subseteq in1
      <4> SUFFICES ASSUME NEW g \in next PROVE g \in in1
        OBVIOUS
      <4>1. Overlaps(g, Low(files), High(files)) /\ g \in current[level + 1]
        BY <1>0, <1>3, Overlapping DEF NextInputs
      <4>2. smallest(g).key \in Nat /\ largest(g).key \in Nat
        BY <1>1, <4>1, KeyRange
      <4>3. /\ Low(in0) <= Low(files) /\ High(files) <= High(in0)
            /\ Low(files) \in Nat /\ High(files) \in Nat
        <5> HIDE DEF in0
        <5> QED
          BY <1>7, <2>1, <3>4, LowHigh
      <4>4. Overlaps(g, Low(in0), High(in0))
        BY <3>7, <4>1, <4>2, <4>3 DEF Overlaps
      <4> QED
        BY <1>0, <1>2, <4>1, <4>4, Overlapping DEF NextInputs
    <3>12. S \cup in1 = in0 \cup in1
      BY <1>6, <2>4, <3>11
    <3> QED
      BY <3>10, <3>12
  <2> QED
    BY <1>2, <2>3, <2>4
<1> QED
  BY <1>3, <1>7, <1>8, <1>9, <1>10

\* PickCompaction starts from one file, in level 0 with those it meets.
LEMMA InitialPlan ==
  ASSUME AllProper(current), NEW level \in CompactLevels, NEW file \in current[level],
         NEW files, files = InitialInputs(level, file)
  PROVE  /\ files \subseteq current[level] /\ file \in files
         /\ level = 0 => Closed0(current, files)
         /\ Contiguous(files)
<1>0. \A f \in current[level] : Proper(f)
  BY CompactLevel DEF AllProper
<1>1. CASE level # 0
  <2>1. files = {file}
    BY <1>1 DEF InitialInputs
  <2> QED
    BY <1>0, <1>1, <2>1, ContiguousOne
<1>2. CASE level = 0
  <2> DEFINE S == {file}
  <2>1. S # {} /\ (\A f \in S : Proper(f)) /\ Contiguous(S)
    BY <1>0, ContiguousOne
  <2>2. files = GetOverlappingInputs(current, 0, Low(S), High(S))
    BY <1>2 DEF InitialInputs
  <2>3. Low(S) = smallest(file).key /\ High(S) = largest(file).key
    BY <1>0, LowHighOne
  <2> HIDE DEF S
  <2>4. Low(S) \in Keys /\ High(S) \in Keys
    BY <2>1, LowHigh
  <2>5. smallest(file).key <= largest(file).key /\ smallest(file).key \in Nat
        /\ largest(file).key \in Nat
    BY <1>0, KeyRange
  <2>6. Overlaps(file, Low(S), High(S))
    BY <2>3, <2>5 DEF Overlaps
  <2>7. file \in files
    BY <1>0, <1>2, <2>2, <2>4, <2>6, OverlappingAll
  <2>8. files \subseteq current[0]
    BY <2>2, OverlappingSubset
  <2>9. Closed0(current, files)
    BY <1>0, <1>2, <2>2, <2>4, Level0SharesNoKey DEF Closed0
  <2>10. Contiguous(S \cup files)
    BY <1>0, <1>2, <2>1, <2>2, ContiguousInputs
  <2>11. S \cup files = files
    BY <2>7 DEF S
  <2> QED
    BY <1>2, <2>7, <2>8, <2>9, <2>10, <2>11
<1> QED
  BY <1>1, <1>2

\* CompactRange's round.
LEMMA ManualPlan ==
  ASSUME AllProper(current), manual.level \in CompactLevels,
         manual.begin \in Keys, manual.end \in Keys
  PROVE  /\ ManualInputs \subseteq current[manual.level]
         /\ manual.level = 0 => Closed0(current, ManualInputs)
<1>1. ManualInputs \subseteq current[manual.level]
  <2>1. ManualInputs \subseteq GetOverlappingInputs(current, manual.level, manual.begin, manual.end)
    BY DEF ManualInputs
  <2> QED
    BY <2>1, OverlappingSubset
<1>2. ASSUME manual.level = 0 PROVE Closed0(current, ManualInputs)
  <2>1. ManualInputs = GetOverlappingInputs(current, 0, manual.begin, manual.end)
    BY <1>2 DEF ManualInputs
  <2>2. \A f \in current[0] : Proper(f)
    BY <1>2, CompactLevel DEF AllProper
  <2> QED
    BY <2>1, <2>2, Level0SharesNoKey DEF Closed0
<1> QED
  BY <1>1, <1>2

-----------------------------------------------------------------------------
(* The invariant of the data.                                              *)

Table == [number : Nat, entries : SUBSET Entry]
LevelEntries(v) == EntriesOf(UNION {v[l] : l \in Levels})
Precede(D, E) == \A d \in D, e \in E : InternalKeyLess(d, e)

\* Sequence numbers are given once, and what a memtable has is newer than
\* what was switched, flushed or compacted before it.
MemInv ==
  /\ options \in Settings /\ has_imm \in BOOLEAN /\ bg_error \in BOOLEAN
  /\ last_sequence \in 0..MaxSequence
  /\ Distinct(history) /\ \A e \in history : e.seq <= last_sequence
  /\ mem \subseteq history /\ imm \subseteq history /\ (~has_imm => imm = {})
  /\ snapshots \subseteq 0..last_sequence /\ (~options.snapshots => snapshots = {})
  /\ next_file \in Nat /\ flush \in Nat

\* The tables of the current version hold entries that were written.
Holds(v, entries) ==
  /\ v \in [Levels -> SUBSET Table]
  /\ IsFiniteSet(v[0])
  /\ \A l \in Levels : \A f \in v[l] : f.entries # {} /\ f.entries \subseteq entries

Newer(D, E) == \A d \in D, e \in E : d.seq > e.seq

VersionInv ==
  /\ Holds(current, history)
  /\ Newer(mem, imm) /\ Newer(mem, LevelEntries(current))
  /\ Newer(imm, LevelEntries(current))

\* Where a call of CompactRange is.
ManualInv ==
  /\ manual \in
       [state : {"none", "null"}, calls : Nat]
         \cup [state : {"mem", "memwait", "null"}, calls : Nat, range : Keys \X Keys,
               max_level_with_files : 1..(kNumLevels - 1)]
         \cup [state : {"level", "null"}, calls : Nat, level : CompactLevels,
               range : Keys \X Keys, begin : Keys, end : Keys, done : BOOLEAN,
               set : BOOLEAN, max_level_with_files : 1..(kNumLevels - 1)]
  /\ ~options.manual => manual.state \notin {"mem", "memwait", "level"}

\* The inputs of a compaction stay in the current version until its end.
Plan(c, v) ==
  /\ DOMAIN c = CompactionFields /\ c.state = "work"
  /\ c.level \in CompactLevels
  /\ c.inputs0 \subseteq v[c.level] /\ c.inputs0 # {}
  /\ c.inputs1 \subseteq v[c.level + 1]

\* Its smallest snapshot is at or below what any reader uses.
Oldest(c, taken, last, admitted) ==
  /\ c.smallest_snapshot \in 0..last
  /\ \A s \in taken : c.smallest_snapshot <= s
  /\ ~admitted => \A e \in Inputs(c) : e.seq <= c.smallest_snapshot

\* Its outputs hold, in order, what it has read and not dropped.
Written(c) ==
  /\ c.outputs \in Seq(Table) /\ c.rest \subseteq Inputs(c)
  /\ c.open => Len(c.outputs) > 0
  /\ \A i \in 1..Len(c.outputs) :
       /\ c.outputs[i].entries # {}
       /\ c.outputs[i].entries \subseteq Inputs(c)
       /\ \A e \in c.outputs[i].entries : ~Dropped(c, e)
       /\ Precede(c.outputs[i].entries, c.rest)
  /\ \A i, j \in 1..Len(c.outputs) :
       i < j => Precede(c.outputs[i].entries, c.outputs[j].entries)
  /\ \A e \in Inputs(c) : \/ e \in c.rest \/ Dropped(c, e)
                          \/ \E i \in 1..Len(c.outputs) : e \in c.outputs[i].entries

JobInv ==
  Under(compaction) =>
    /\ Plan(compaction, current)
    /\ Oldest(compaction, snapshots, last_sequence, options.snapshots)
    /\ Written(compaction)
    /\ ~options.manual => Contiguous(compaction.inputs0 \cup compaction.inputs1)

DataInv == MemInv /\ VersionInv /\ ManualInv /\ JobInv

-----------------------------------------------------------------------------
(* What the invariant says of files and entries.                           *)

\* The entries of a version are those of the files of its levels.
LEMMA LevelEntriesOf ==
  ASSUME NEW v, NEW e
  PROVE  e \in LevelEntries(v) <=> \E l \in Levels : \E f \in v[l] : e \in f.entries
  BY DEF LevelEntries, EntriesOf

\* The entries a compaction reads are those of its input files.
LEMMA InputsOf ==
  ASSUME NEW c, NEW e
  PROVE  e \in Inputs(c) <=> \E f \in c.inputs0 \cup c.inputs1 : e \in f.entries
  BY DEF Inputs, EntriesOf

\* Fewer entries have sequence numbers of their own all the more.
LEMMA DistinctSubset ==
  ASSUME NEW D, NEW E, Distinct(E), D \subseteq E
  PROVE  Distinct(D)
  BY DEF Distinct

\* The tables of a version have entries, all of them written.
LEMMA HoldsProper ==
  ASSUME NEW v, NEW entries, Distinct(entries), Holds(v, entries)
  PROVE  AllProper(v) /\ LevelEntries(v) \subseteq entries
<1>1. ASSUME NEW l \in Levels, NEW f \in v[l] PROVE Proper(f)
  BY DistinctSubset DEF Holds, Proper
<1>2. LevelEntries(v) \subseteq entries
  BY LevelEntriesOf DEF Holds
<1> QED
  BY <1>1, <1>2 DEF AllProper

\* The inputs of a compaction are of the levels.
LEMMA PlanInputs ==
  ASSUME NEW c, NEW v, NEW entries, Distinct(entries), Holds(v, entries), Plan(c, v)
  PROVE  /\ Inputs(c) \subseteq LevelEntries(v) /\ Inputs(c) \subseteq entries
         /\ Distinct(Inputs(c))
         /\ \A f \in c.inputs0 \cup c.inputs1 : Proper(f)
         /\ EntriesOf(c.inputs0) \subseteq Inputs(c) /\ EntriesOf(c.inputs1) \subseteq Inputs(c)
<1>1. c.level \in Levels /\ c.level + 1 \in Levels
  BY CompactLevel DEF Plan
<1>2. Inputs(c) \subseteq LevelEntries(v)
  BY <1>1, InputsOf, LevelEntriesOf DEF Plan
<1>3. Inputs(c) \subseteq entries
  BY <1>2, HoldsProper
<1>4. \A f \in c.inputs0 \cup c.inputs1 : Proper(f)
  BY <1>1, HoldsProper DEF Plan, AllProper
<1>5. EntriesOf(c.inputs0) \subseteq Inputs(c) /\ EntriesOf(c.inputs1) \subseteq Inputs(c)
  BY DEF Inputs, EntriesOf
<1> QED
  BY <1>2, <1>3, <1>4, <1>5, DistinctSubset

\* The smallest snapshot a compaction takes note of.
LEMMA OldestSnapshot ==
  ASSUME MemInv
  PROVE  /\ SmallestSnapshot \in 0..last_sequence
         /\ \A s \in snapshots : SmallestSnapshot <= s
         /\ ~options.snapshots => SmallestSnapshot = last_sequence
<1>1. CASE snapshots = {}
  BY <1>1 DEF SmallestSnapshot, MemInv
<1>2. CASE snapshots # {}
  <2>1. snapshots \subseteq Nat /\ last_sequence \in Nat
    BY DEF MemInv
  <2>2. \E s \in snapshots : \A t \in snapshots : s <= t
    BY <1>2, <2>1, LeastOf
  <2>3. SmallestSnapshot = CHOOSE s \in snapshots : \A t \in snapshots : s <= t
    BY <1>2 DEF SmallestSnapshot
  <2>4. SmallestSnapshot \in snapshots /\ \A t \in snapshots : SmallestSnapshot <= t
    BY <2>2, <2>3, Zenon
  <2> QED
    BY <1>2, <2>4 DEF MemInv
<1> QED
  BY <1>1, <1>2

\* The key at which the next round of CompactRange begins.
LEMMA LastLimitOf ==
  ASSUME NEW files, files # {}, \A f \in files : Proper(f), Distinct(EntriesOf(files))
  PROVE  largest(LastOf(files)).key \in Keys
<1> DEFINE starts == {smallest(f) : f \in files}
           g == [entries |-> starts]
           last(f) == \A h \in files : ~InternalKeyLess(smallest(f), smallest(h))
<1>1. starts \subseteq EntriesOf(files) /\ starts # {}
  BY KeyRange DEF EntriesOf
<1>2. Proper(g) /\ g.entries = starts
  BY <1>1, DistinctSubset DEF Proper
<1> HIDE DEF g
<1>3. /\ largest(g) \in starts
      /\ \A e \in starts : e = largest(g) \/ InternalKeyLess(e, largest(g))
  BY <1>2, LargestOf
<1>4. \A e \in starts : e.key \in Nat /\ e.seq \in Nat
  BY <1>2, EntryFields DEF Proper, Distinct
<1>5. PICK f \in files : smallest(f) = largest(g)
  BY <1>3
<1>6. ASSUME NEW h \in files PROVE ~InternalKeyLess(smallest(f), smallest(h))
  <2>1. smallest(h) \in starts /\ smallest(f) \in starts
    OBVIOUS
  <2>2. smallest(h) = smallest(f) \/ InternalKeyLess(smallest(h), smallest(f))
    BY <1>3, <1>5, <2>1
  <2> HIDE DEF starts
  <2> QED
    BY <1>4, <2>1, <2>2 DEF InternalKeyLess
<1>7. \E h \in files : last(h)
  BY <1>6
<1>8. LastOf(files) \in files
  BY <1>7, Zenon DEF LastOf
<1> QED
  BY <1>8, KeyRange

-----------------------------------------------------------------------------
(* A turn of DoCompactionWork.                                             *)

\* The compactions before and after a turn have one plan.
SamePlan(c, d) ==
  /\ DOMAIN d = CompactionFields /\ d.state = "work"
  /\ d.level = c.level /\ d.inputs0 = c.inputs0 /\ d.inputs1 = c.inputs1
  /\ d.version = c.version /\ d.smallest_snapshot = c.smallest_snapshot
  /\ d.is_manual = c.is_manual

\* ShouldStopBefore moves the iterator and may close the open output.
LEMMA StopShape ==
  ASSUME NEW c, DOMAIN c = CompactionFields, c.state = "work", NEW e,
         NEW d, d = ShouldStopBefore(c, e)
  PROVE  /\ SamePlan(c, d) /\ d.rest = c.rest \ {e} /\ d.outputs = c.outputs
         /\ d.open => c.open
  BY DEF ShouldStopBefore, SamePlan, CompactionFields

\* The outputs after entry e has gone into the last of them.
Extended(outputs, e) ==
  [outputs EXCEPT ![Len(outputs)] =
     [number |-> outputs[Len(outputs)].number,
      entries |-> outputs[Len(outputs)].entries \cup {e}]]

Turn(e) ==
  /\ Under(compaction) /\ compaction.rest # {} /\ e = Key(compaction) /\ flush = 0
  /\ SamePlan(compaction, compaction') /\ compaction'.rest = compaction.rest \ {e}
  /\ UNCHANGED <<options, last_sequence, history, mem, imm, has_imm, snapshots, held,
                 current, flush, manual, bg_error>>
  /\ \/ /\ Dropped(compaction, e)
        /\ compaction'.outputs = compaction.outputs /\ (compaction'.open => compaction.open)
        /\ UNCHANGED <<disk, next_file, pending_outputs>>
     \/ /\ ~Dropped(compaction, e) /\ compaction.open
        /\ compaction'.outputs = Extended(compaction.outputs, e)
        /\ UNCHANGED <<disk, next_file, pending_outputs>>
     \/ /\ ~Dropped(compaction, e)
        /\ compaction'.outputs =
             Append(compaction.outputs, [number |-> next_file, entries |-> {e}])
        /\ next_file' = next_file + 1
        /\ pending_outputs' = pending_outputs \cup {next_file}
        /\ disk' = disk \cup {next_file}

\* A table with other entries, as a record.
LEMMA TableExcept ==
  ASSUME NEW t \in Table, NEW x
  PROVE  [t EXCEPT !.entries = x] = [number |-> t.number, entries |-> x]
<1>1. PICK n \in Nat, E \in SUBSET Entry : t = [number |-> n, entries |-> E]
  BY DEF Table
<1> QED
  BY <1>1

\* A step of DoCompactionWork is a turn.
LEMMA TurnShape ==
  ASSUME DoCompactionWork, JobInv
  PROVE  \E e : Turn(e)
<1> DEFINE c == compaction
           e == Key(c)
           d == ShouldStopBefore(c, e)
           n == Len(c.outputs)
<1>1. /\ Under(c) /\ c.rest # {} /\ flush = 0
      /\ DropEntry(e, d) \/ AddEntry(e, d) \/ OpenCompactionOutputFile(e, d)
      /\ UNCHANGED <<memVars, clientVars, flush, manual, bg_error>>
  BY DEF DoCompactionWork
<1>2. DOMAIN c = CompactionFields /\ c.state = "work" /\ c.outputs \in Seq(Table)
      /\ (c.open => n > 0)
  BY <1>1 DEF JobInv, Plan, Written
<1>3. /\ SamePlan(c, d) /\ d.rest = c.rest \ {e} /\ d.outputs = c.outputs
      /\ d.open => c.open
  BY <1>2, StopShape
<1>4. UNCHANGED <<options, last_sequence, history, mem, imm, has_imm, snapshots, held,
                  flush, manual, bg_error>>
  BY <1>1 DEF memVars, clientVars
<1> HIDE DEF e, d
<1>5. CASE DropEntry(e, d)
  <2>1. /\ Dropped(c, e) /\ c' = d /\ UNCHANGED <<current, disk, next_file, pending_outputs>>
    BY <1>5 DEF DropEntry, versionVars
  <2>2. Turn(e)
    BY <1>1, <1>3, <1>4, <2>1 DEF Turn, e
  <2> QED
    BY <2>2
<1>6. CASE AddEntry(e, d)
  <2>1. /\ ~Dropped(c, e) /\ d.open
        /\ UNCHANGED <<current, disk, next_file, pending_outputs>>
    BY <1>6 DEF AddEntry, versionVars
  <2>2. c' = [d EXCEPT !.outputs[n].entries = d.outputs[n].entries \cup {e},
                       !.open = Cardinality(d.outputs[n].entries \cup {e})
                                  < options.max_file_size]
    BY <1>3, <1>6 DEF AddEntry
  <2>3. SamePlan(c, c') /\ c'.rest = c.rest \ {e}
    BY <1>3, <2>2 DEF SamePlan, CompactionFields
  <2>4. c'.outputs = [c.outputs EXCEPT ![n].entries = c.outputs[n].entries \cup {e}]
    BY <1>3, <2>2 DEF SamePlan, CompactionFields
  <2>5. n \in 1..n /\ n \in DOMAIN c.outputs /\ c.outputs[n] \in Table
    BY <1>2, <1>3, <2>1
  <2>6. c'.outputs = Extended(c.outputs, e)
    <3>1. [c.outputs[n] EXCEPT !.entries = c.outputs[n].entries \cup {e}] =
            [number |-> c.outputs[n].number, entries |-> c.outputs[n].entries \cup {e}]
      BY <2>5, TableExcept
    <3> QED
      BY <2>4, <2>5, <3>1 DEF Extended
  <2>7. Turn(e)
    BY <1>1, <1>3, <1>4, <2>1, <2>3, <2>6 DEF Turn, e
  <2> QED
    BY <2>7
<1>7. CASE OpenCompactionOutputFile(e, d)
  <2>1. /\ ~Dropped(c, e) /\ UNCHANGED current
        /\ c' = [d EXCEPT !.outputs = Append(@, [number |-> next_file, entries |-> {e}]),
                          !.open = 1 < options.max_file_size]
        /\ next_file' = next_file + 1
        /\ pending_outputs' = pending_outputs \cup {next_file}
        /\ disk' = disk \cup {next_file}
    BY <1>7 DEF OpenCompactionOutputFile
  <2>2. SamePlan(c, c') /\ c'.rest = c.rest \ {e}
    BY <1>3, <2>1 DEF SamePlan, CompactionFields
  <2>3. c'.outputs = Append(c.outputs, [number |-> next_file, entries |-> {e}])
    BY <1>3, <2>1 DEF SamePlan, CompactionFields
  <2>4. Turn(e)
    BY <1>1, <1>3, <1>4, <2>1, <2>2, <2>3 DEF Turn, e
  <2> QED
    BY <2>4
<1> QED
  BY <1>1, <1>5, <1>6, <1>7

-----------------------------------------------------------------------------
(* A turn of DoCompactionWork.                                             *)

\* What depends on the plan only.
LEMMA SamePlanDrops ==
  ASSUME NEW c, NEW d, SamePlan(c, d)
  PROVE  /\ Inputs(d) = Inputs(c)
         /\ \A e : Dropped(d, e) <=> Dropped(c, e)
<1>1. Inputs(d) = Inputs(c)
  BY DEF SamePlan, Inputs
<1>2. \A k : IsBaseLevelForKey(d, k) <=> IsBaseLevelForKey(c, k)
  BY DEF SamePlan, IsBaseLevelForKey
<1>3. d.smallest_snapshot = c.smallest_snapshot
  BY DEF SamePlan
<1> QED
  BY <1>1, <1>2, <1>3 DEF Dropped

\* The merging iterator is at the first entry of what is left.
LEMMA KeyOf ==
  ASSUME NEW c, Distinct(Inputs(c)), c.rest \subseteq Inputs(c), c.rest # {}
  PROVE  Key(c) \in c.rest /\ \A d \in c.rest \ {Key(c)} : InternalKeyLess(Key(c), d)
<1> DEFINE f == [entries |-> c.rest]
<1>1. Proper(f) /\ f.entries = c.rest /\ Key(c) = smallest(f)
  BY DistinctSubset DEF Proper, Key
<1> HIDE DEF f
<1> QED
  BY <1>1, SmallestOf

\* One turn keeps the outputs in order and complete.
LEMMA TurnWritten ==
  ASSUME NEW c, NEW d, SamePlan(c, d), Written(c), Distinct(Inputs(c)),
         c.rest # {}, NEW e, e = Key(c), d.rest = c.rest \ {e}, NEW number \in Nat,
         \/ Dropped(c, e) /\ d.outputs = c.outputs /\ (d.open => c.open)
         \/ ~Dropped(c, e) /\ c.open /\ d.outputs = Extended(c.outputs, e)
         \/ /\ ~Dropped(c, e)
            /\ d.outputs = Append(c.outputs, [number |-> number, entries |-> {e}])
  PROVE  Written(d)
<1> DEFINE n == Len(c.outputs)
           E(i) == c.outputs[i].entries
           F(i) == d.outputs[i].entries
<1>1. Inputs(d) = Inputs(c) /\ \A x : Dropped(d, x) <=> Dropped(c, x)
  BY SamePlanDrops
<1>2. e \in c.rest /\ e \in Inputs(c) /\ \A x \in d.rest : InternalKeyLess(e, x)
  BY KeyOf DEF Written
<1>3. c.outputs \in Seq(Table) /\ n \in Nat /\ d.rest \subseteq Inputs(c) /\ (c.open => n > 0)
  BY DEF Written
<1>4. e \in Entry /\ Inputs(c) \subseteq Entry
  BY <1>2 DEF Distinct
<1>5. ASSUME NEW i \in 1..n
      PROVE  /\ E(i) # {} /\ E(i) \subseteq Inputs(c) /\ \A x \in E(i) : ~Dropped(c, x)
             /\ Precede(E(i), c.rest)
  BY DEF Written
<1>6. \A i, j \in 1..n : i < j => Precede(E(i), E(j))
  BY DEF Written
<1>7. \A x \in Inputs(c) : x \in c.rest \/ Dropped(c, x) \/ \E i \in 1..n : x \in E(i)
  BY DEF Written
<1>8. \A i \in 1..n : Precede(E(i), d.rest) /\ Precede(E(i), {e})
  BY <1>2, <1>5 DEF Precede
<1>9. CASE Dropped(c, e) /\ d.outputs = c.outputs /\ (d.open => c.open)
  <2>1. \A x \in Inputs(c) : x \in d.rest \/ Dropped(c, x) \/ \E i \in 1..n : x \in E(i)
    BY <1>7, <1>9
  <2> QED
    BY <1>1, <1>3, <1>5, <1>6, <1>8, <1>9, <2>1 DEF Written
<1>10. CASE ~Dropped(c, e) /\ c.open /\ d.outputs = Extended(c.outputs, e)
  <2>1. n \in 1..n /\ c.outputs[n] \in Table
    BY <1>3, <1>10
  <2> DEFINE t == [number |-> c.outputs[n].number, entries |-> E(n) \cup {e}]
  <2>2. t \in Table
    BY <1>4, <2>1 DEF Table
  <2>3. d.outputs = [c.outputs EXCEPT ![n] = t]
    BY <1>10 DEF Extended
  <2>4. d.outputs \in Seq(Table) /\ Len(d.outputs) = n
    <3> HIDE DEF t
    <3> QED
      BY <1>3, <2>1, <2>2, <2>3, ExceptSeq
  <2>5. \A i \in 1..n : F(i) = IF i = n THEN E(n) \cup {e} ELSE E(i)
    BY <1>3, <2>3
  <2>6. ASSUME NEW i \in 1..n
        PROVE  /\ F(i) # {} /\ F(i) \subseteq Inputs(c)
               /\ \A x \in F(i) : ~Dropped(c, x)
               /\ Precede(F(i), d.rest)
    <3>1. F(i) # {} /\ F(i) \subseteq Inputs(c) /\ \A x \in F(i) : ~Dropped(c, x)
      BY <1>2, <1>5, <1>10, <2>5
    <3>2. Precede(F(i), d.rest)
      BY <1>2, <1>8, <2>5 DEF Precede
    <3> QED
      BY <3>1, <3>2
  <2>7. ASSUME NEW i \in 1..n, NEW j \in 1..n, i < j PROVE Precede(F(i), F(j))
    <3>1. F(i) = E(i) /\ F(j) \subseteq E(j) \cup {e}
      BY <1>3, <2>5, <2>7
    <3>2. Precede(E(i), E(j)) /\ Precede(E(i), {e})
      BY <1>6, <1>8, <2>7
    <3> QED
      BY <3>1, <3>2 DEF Precede
  <2>8. ASSUME NEW x \in Inputs(c)
        PROVE  x \in d.rest \/ Dropped(c, x) \/ \E i \in 1..n : x \in F(i)
    <3>1. CASE x = e
      <4>1. x \in F(n)
        BY <2>1, <2>5, <3>1
      <4> QED
        BY <2>1, <4>1
    <3>2. CASE x # e
      <4>1. \A i \in 1..n : E(i) \subseteq F(i)
        BY <2>5
      <4> QED
        BY <1>7, <3>2, <4>1
    <3> QED
      BY <3>1, <3>2
  <2>9. n > 0
    BY <1>3, <1>10
  <2> QED
    BY <1>1, <1>3, <2>4, <2>6, <2>7, <2>8, <2>9 DEF Written
<1>11. CASE /\ ~Dropped(c, e)
            /\ d.outputs = Append(c.outputs, [number |-> number, entries |-> {e}])
  <2> DEFINE t == [number |-> number, entries |-> {e}]
  <2>1. t \in Table /\ t.entries = {e}
    BY <1>4 DEF Table
  <2>2. /\ d.outputs \in Seq(Table) /\ Len(d.outputs) = n + 1
        /\ \A i \in 1..n : d.outputs[i] = c.outputs[i]
        /\ d.outputs[n + 1] = t
    <3> HIDE DEF t
    <3>1. d.outputs = Append(c.outputs, t)
      BY <1>11 DEF t
    <3> QED
      BY <1>3, <2>1, <3>1, AppendProperties
  <2>3. (\A i \in 1..n : F(i) = E(i)) /\ F(n + 1) = {e}
    BY <2>1, <2>2
  <2>4. \A i \in 1..(n + 1) : i \in 1..n \/ i = n + 1
    BY <1>3
  <2>5. ASSUME NEW i \in 1..(n + 1)
        PROVE  /\ F(i) # {} /\ F(i) \subseteq Inputs(c)
               /\ \A x \in F(i) : ~Dropped(c, x)
               /\ Precede(F(i), d.rest)
    <3>1. CASE i \in 1..n
      BY <1>5, <1>8, <2>3, <3>1
    <3>2. CASE i = n + 1
      BY <1>2, <1>11, <2>3, <3>2 DEF Precede
    <3> QED
      BY <2>4, <3>1, <3>2
  <2>6. ASSUME NEW i \in 1..(n + 1), NEW j \in 1..(n + 1), i < j PROVE Precede(F(i), F(j))
    <3>1. i \in 1..n
      BY <1>3, <2>6
    <3>2. CASE j \in 1..n
      BY <1>6, <2>3, <2>6, <3>1, <3>2
    <3>3. CASE j = n + 1
      BY <1>8, <2>3, <3>1, <3>3
    <3> QED
      BY <2>4, <3>2, <3>3
  <2>7. ASSUME NEW x \in Inputs(c)
        PROVE  x \in d.rest \/ Dropped(c, x) \/ \E i \in 1..(n + 1) : x \in F(i)
    <3>1. n + 1 \in 1..(n + 1) /\ \A i \in 1..n : i \in 1..(n + 1)
      BY <1>3
    <3>2. CASE x = e
      BY <2>3, <3>1, <3>2
    <3>3. CASE x # e
      BY <1>7, <2>3, <3>1, <3>3
    <3> QED
      BY <3>2, <3>3
  <2>8. n + 1 > 0
    BY <1>3
  <2> QED
    BY <1>1, <1>3, <2>2, <2>5, <2>6, <2>7, <2>8 DEF Written
<1> QED
  BY <1>9, <1>10, <1>11

-----------------------------------------------------------------------------
(* The invariant of the data, action by action.                            *)

\* Steps that leave the entries, the tables and the compaction alone.
LEMMA QuietKeeps ==
  ASSUME DataInv,
         UNCHANGED <<options, last_sequence, history, mem, imm, has_imm, snapshots,
                     current, compaction>>,
         next_file' \in Nat, flush' \in Nat, bg_error' \in BOOLEAN
  PROVE  MemInv' /\ VersionInv' /\ JobInv'
  BY DEF DataInv, MemInv, VersionInv, JobInv

\* A write is newer than everything before it.
LEMMA WriteKeeps ==
  ASSUME DataInv, NEW key \in Keys, NEW type \in ValueTypes, Write(key, type)
  PROVE  DataInv'
<1> DEFINE e == [key |-> key, seq |-> last_sequence + 1, type |-> type]
<1>1. /\ last_sequence < options.max_writes
      /\ mem' = mem \cup {e} /\ history' = history \cup {e}
      /\ last_sequence' = last_sequence + 1
      /\ UNCHANGED <<options, snapshots, imm, has_imm, current, next_file, flush,
                     compaction, manual, bg_error>>
  BY DEF Write, clientVars, versionVars
<1>b. options.max_writes \in 0..MaxSequence
  BY DBVersionsAssumption DEF DataInv, MemInv
<1>2. /\ last_sequence \in Nat /\ MaxSequence \in Nat /\ last_sequence' \in 0..MaxSequence
      /\ last_sequence < MaxSequence
      /\ history \subseteq Entry /\ \A d \in history : d.seq <= last_sequence
      /\ mem \subseteq history /\ imm \subseteq history
  BY <1>1, <1>b, Constants DEF DataInv, MemInv, Distinct
<1>3. e \in Entry /\ e.seq = last_sequence + 1
  BY <1>1, <1>2 DEF Entry
<1> HIDE DEF e
<1>4. \A d \in history : d.seq \in Nat /\ d.seq < e.seq /\ d.seq <= last_sequence + 1
  BY <1>2, <1>3, EntryFields
<1>5. Distinct(history')
  <2> SUFFICES ASSUME NEW a \in history \cup {e}, NEW b \in history \cup {e}, a.seq = b.seq
               PROVE  a = b
    BY <1>1, <1>2, <1>3 DEF Distinct
  <2>1. CASE a \in history /\ b \in history
    BY <2>1 DEF DataInv, MemInv, Distinct
  <2>2. CASE a = e /\ b = e
    BY <2>2
  <2>3. CASE a \in history /\ b = e
    BY <1>4, <2>3
  <2>4. CASE a = e /\ b \in history
    BY <1>4, <2>4
  <2> QED
    BY <2>1, <2>2, <2>3, <2>4
<1>6. \A d \in history' : d.seq <= last_sequence'
  BY <1>1, <1>2, <1>3, <1>4
<1>7. snapshots' \subseteq 0..last_sequence'
  <2>1. snapshots \subseteq 0..last_sequence
    BY DEF DataInv, MemInv
  <2>2. 0..last_sequence \subseteq 0..(last_sequence + 1)
    BY <1>2
  <2> QED
    BY <1>1, <2>1, <2>2
<1>8. MemInv'
  BY <1>1, <1>2, <1>5, <1>6, <1>7 DEF DataInv, MemInv
<1>9. VersionInv'
  <2>1. Holds(current, history) /\ Newer(mem, imm) /\ Newer(mem, LevelEntries(current))
        /\ Newer(imm, LevelEntries(current))
    BY DEF DataInv, VersionInv
  <2>2. LevelEntries(current) \subseteq history
    BY <2>1, HoldsProper DEF DataInv, MemInv
  <2>3. Holds(current, history')
    BY <1>1, <2>1 DEF Holds
  <2>4. Newer({e}, imm) /\ Newer({e}, LevelEntries(current))
    BY <1>2, <1>3, <1>4, <2>2 DEF Newer
  <2>5. Newer(mem', imm) /\ Newer(mem', LevelEntries(current))
    BY <1>1, <2>1, <2>4 DEF Newer
  <2> QED
    BY <1>1, <2>1, <2>3, <2>5 DEF VersionInv
<1>10. JobInv'
  <2>1. ASSUME Under(compaction)
        PROVE  Oldest(compaction, snapshots, last_sequence', options.snapshots)
    <3>1. Oldest(compaction, snapshots, last_sequence, options.snapshots)
      BY <2>1 DEF DataInv, JobInv
    <3>2. 0..last_sequence \subseteq 0..(last_sequence + 1)
      BY <1>2
    <3> QED
      BY <1>1, <3>1, <3>2 DEF Oldest
  <2> QED
    BY <1>1, <2>1 DEF DataInv, JobInv
<1> QED
  BY <1>1, <1>8, <1>9, <1>10 DEF DataInv, ManualInv

\* The memtable becomes the immutable one.
LEMMA SwitchKeeps ==
  ASSUME DataInv, SwitchMemTable,
         UNCHANGED <<options, last_sequence, history, snapshots, current, compaction,
                     next_file, flush, bg_error>>
  PROVE  MemInv' /\ VersionInv' /\ JobInv'
<1>1. imm' = mem /\ mem' = {} /\ has_imm' = TRUE
  BY DEF SwitchMemTable
<1>2. MemInv'
  BY <1>1 DEF DataInv, MemInv
<1>3. VersionInv'
  BY <1>1 DEF DataInv, VersionInv, Newer
<1> QED
  BY <1>2, <1>3 DEF DataInv, JobInv

\* Snapshots are taken at the last sequence number, and released.
LEMMA SnapshotKeeps ==
  ASSUME DataInv, snapshots' \subseteq snapshots \cup {last_sequence},
         ~options.snapshots => snapshots' \subseteq snapshots,
         UNCHANGED <<options, last_sequence, history, mem, imm, has_imm, current,
                     compaction, next_file, flush, manual, bg_error>>
  PROVE  DataInv'
<1>1. last_sequence \in Nat
  BY DEF DataInv, MemInv
<1>2. MemInv'
  <2>1. snapshots' \subseteq 0..last_sequence
    BY <1>1 DEF DataInv, MemInv
  <2> QED
    BY <2>1 DEF DataInv, MemInv
<1>3. VersionInv' /\ ManualInv'
  BY DEF DataInv, VersionInv, ManualInv
<1>4. JobInv'
  <2>1. ASSUME Under(compaction)
        PROVE  Oldest(compaction, snapshots', last_sequence, options.snapshots)
    <3>1. Oldest(compaction, snapshots, last_sequence, options.snapshots)
      BY <2>1 DEF DataInv, JobInv
    <3>2. compaction.smallest_snapshot <= last_sequence
      BY <1>1, <3>1 DEF Oldest
    <3>3. \A s \in snapshots' : compaction.smallest_snapshot <= s
      BY <3>1, <3>2 DEF Oldest
    <3> QED
      BY <3>1, <3>3 DEF Oldest
  <2> QED
    BY <2>1 DEF DataInv, JobInv
<1> QED
  BY <1>2, <1>3, <1>4 DEF DataInv

-----------------------------------------------------------------------------
(* CompactRange's calls.                                                   *)

\* The deepest level that overlaps the range.
LEMMA CompactRangeKeeps ==
  ASSUME ManualInv, NEW range \in Ranges, CompactRange(range)
  PROVE  ManualInv'
<1> DEFINE overlapping == {l \in 1..(kNumLevels - 1) :
                             OverlapInLevel(current, l, range[1], range[2])}
           S == overlapping \cup {1}
           max == CHOOSE m \in S : \A l \in overlapping : l <= m
<1>0. kNumLevels \in Nat /\ kNumLevels >= 2 /\ range \in Keys \X Keys
  BY Constants, DBVersionsAssumption
<1>1. \E m \in S : \A l \in overlapping : l <= m
  <2>1. S \subseteq Nat /\ S # {} /\ kNumLevels \in Nat /\ \A n \in S : n <= kNumLevels
    BY <1>0
  <2>2. \E m \in S : \A n \in S : n <= m
    <3> HIDE DEF S
    <3> QED
      BY <2>1, GreatestOf
  <2> HIDE DEF overlapping
  <2> QED
    BY <2>2
<1>2. max \in S
  <2> HIDE DEF S, overlapping
  <2> QED
    BY <1>1, Zenon
<1>3. max \in 1..(kNumLevels - 1)
  <2>1. S \subseteq 1..(kNumLevels - 1)
    BY <1>0
  <2> HIDE DEF max, S
  <2> QED
    BY <1>2, <2>1
<1>4. manual' = [state |-> "mem", calls |-> manual.calls + 1, range |-> range,
                 max_level_with_files |-> max]
  BY DEF CompactRange
<1>5. manual.calls \in Nat /\ options.manual /\ UNCHANGED options
  BY DEF CompactRange, ManualInv, clientVars
<1> HIDE DEF max
<1>6. manual' \in [state : {"mem", "memwait", "null"}, calls : Nat, range : Keys \X Keys,
                   max_level_with_files : 1..(kNumLevels - 1)]
  BY <1>0, <1>3, <1>4, <1>5
<1> QED
  BY <1>5, <1>6 DEF ManualInv

\* The request for a level, or the end of the call.
LEMMA RequestShape ==
  ASSUME NEW level \in Nat, NEW calls \in Nat, NEW range \in Keys \X Keys,
         NEW max \in 1..(kNumLevels - 1), options.manual, UNCHANGED options,
         manual' = Request(level, calls, range, max)
  PROVE  ManualInv'
<1>0. kNumLevels \in Nat
  BY Constants
<1>1. CASE level < max
  <2>1. level \in CompactLevels
    BY <1>0, <1>1 DEF CompactLevels
  <2>2. manual' = [state |-> "level", calls |-> calls, level |-> level, range |-> range,
                   begin |-> range[1], end |-> range[2], done |-> FALSE, set |-> FALSE,
                   max_level_with_files |-> max]
    BY <1>1 DEF Request
  <2>3. range[1] \in Keys /\ range[2] \in Keys
    OBVIOUS
  <2> QED
    BY <2>1, <2>2, <2>3 DEF ManualInv
<1>2. CASE ~(level < max)
  <2>1. manual' = [state |-> "none", calls |-> calls]
    BY <1>2 DEF Request
  <2> QED
    BY <2>1 DEF ManualInv
<1> QED
  BY <1>1, <1>2

\* What a call in progress looks like.
LEMMA ManualFields ==
  ASSUME ManualInv
  PROVE  /\ manual.calls \in Nat
         /\ manual.state \in {"mem", "memwait"} =>
              /\ manual \in [state : {"mem", "memwait", "null"}, calls : Nat,
                             range : Keys \X Keys,
                             max_level_with_files : 1..(kNumLevels - 1)]
              /\ options.manual
         /\ manual.state = "level" =>
              /\ manual \in [state : {"level", "null"}, calls : Nat, level : CompactLevels,
                             range : Keys \X Keys, begin : Keys, end : Keys,
                             done : BOOLEAN, set : BOOLEAN,
                             max_level_with_files : 1..(kNumLevels - 1)]
              /\ options.manual
  BY DEF ManualInv

\* The client inside CompactRange moves on.
LEMMA ManualStepKeeps ==
  ASSUME ManualInv, UNCHANGED options,
         \/ CompactMemTableCall \/ CompactMemTableReturns \/ ManualRound \/ ManualEnds
  PROVE  ManualInv'
<1>1. CASE CompactMemTableCall
  <2>1. manual.state = "mem" /\ manual' = [manual EXCEPT !.state = "memwait"]
    BY <1>1 DEF CompactMemTableCall
  <2> QED
    BY <2>1, ManualFields DEF ManualInv
<1>2. CASE CompactMemTableReturns
  <2>1. /\ manual.state = "memwait"
        /\ manual' = Request(0, manual.calls, manual.range, manual.max_level_with_files)
    BY <1>2 DEF CompactMemTableReturns
  <2>2. /\ manual.calls \in Nat /\ manual.range \in Keys \X Keys
        /\ manual.max_level_with_files \in 1..(kNumLevels - 1) /\ options.manual
    BY <2>1, ManualFields
  <2> QED
    BY <2>1, <2>2, RequestShape
<1>3. CASE ManualRound
  <2>1. manual.state = "level" /\ manual' = [manual EXCEPT !.set = TRUE]
    BY <1>3 DEF ManualRound
  <2> QED
    BY <2>1, ManualFields DEF ManualInv
<1>4. CASE ManualEnds
  <2>1. /\ manual.state = "level"
        /\ manual' = Request(manual.level + 1, manual.calls, manual.range,
                             manual.max_level_with_files)
    BY <1>4 DEF ManualEnds
  <2>2. /\ manual.calls \in Nat /\ manual.range \in Keys \X Keys
        /\ manual.max_level_with_files \in 1..(kNumLevels - 1) /\ options.manual
        /\ manual.level \in CompactLevels
    BY <2>1, ManualFields
  <2>3. manual.level + 1 \in Nat
    BY <2>2, CompactLevel
  <2> QED
    BY <2>1, <2>2, <2>3, RequestShape
<1> QED
  BY <1>1, <1>2, <1>3, <1>4

\* The end of a compaction, which may find that the client has given up.
LEMMA ManualAfterKeeps ==
  ASSUME ManualInv, UNCHANGED options, NEW ok \in BOOLEAN, manual' = ManualAfter(ok),
         largest(LastOf(compaction.inputs0)).key \in Keys
  PROVE  ManualInv'
<1>1. CASE ~compaction.is_manual
  BY <1>1 DEF ManualAfter, ManualInv
<1>2. CASE compaction.is_manual /\ ~ManualSet
  <2>1. manual' = [manual EXCEPT !.state = "null"]
    BY <1>2 DEF ManualAfter
  <2> QED
    BY <2>1 DEF ManualInv
<1>3. CASE compaction.is_manual /\ ManualSet
  <2>1. manual.state = "level"
    BY <1>3 DEF ManualSet
  <2>2. manual' = [manual EXCEPT !.set = FALSE, !.done = ~ok,
                                 !.begin = largest(LastOf(compaction.inputs0)).key]
    BY <1>3 DEF ManualAfter
  <2>3. (~ok) \in BOOLEAN
    OBVIOUS
  <2> QED
    BY <2>1, <2>2, <2>3, ManualFields DEF ManualInv
<1> QED
  BY <1>1, <1>2, <1>3

-----------------------------------------------------------------------------
(* The versions that flushes and compactions install.                      *)

\* A new table is in a level where, and above which, nothing overlaps it.
Placed(v, f, level) ==
  /\ level \in Levels
  /\ level # 0 => \A m \in 0..level : \A g \in v[m] :
                    ~Overlaps(g, smallest(f).key, largest(f).key)

Flushed(v, f, level) == [v EXCEPT ![level] = @ \cup {f}]

FlushStep ==
  /\ UNCHANGED <<options, last_sequence, history, mem, snapshots, held, next_file,
                 compaction, manual, bg_error>>
  /\ flush # 0 /\ flush' = 0 /\ imm' = {} /\ has_imm' = FALSE
  /\ \/ imm = {} /\ current' = current
     \/ /\ imm # {}
        /\ \E level : \E f \in {[number |-> flush, entries |-> imm]} :
             /\ Proper(f) /\ Placed(current, f, level)
             /\ current' = Flushed(current, f, level)

\* The end of a flush is such a step.
LEMMA FlushShape ==
  ASSUME DataInv, EndFlush
  PROVE  FlushStep
<1> DEFINE f == [number |-> flush, entries |-> imm]
           l == PickLevelForMemTableOutput(current, Low({f}), High({f}))
<1>1. /\ UNCHANGED <<options, last_sequence, history, mem, snapshots, held, next_file,
                     compaction, manual, bg_error>>
      /\ flush # 0 /\ flush' = 0 /\ imm' = {} /\ has_imm' = FALSE
  BY DEF EndFlush, clientVars
<1>2. current' = IF imm = {} THEN current ELSE [current EXCEPT ![l] = @ \cup {f}]
  BY DEF EndFlush, LogAndApply
<1>3. CASE imm = {}
  BY <1>1, <1>2, <1>3 DEF FlushStep
<1>4. CASE imm # {}
  <2>1. Proper(f) /\ f \in {[number |-> flush, entries |-> imm]}
    BY <1>4, DistinctSubset DEF Proper, DataInv, MemInv
  <2>2. Low({f}) = smallest(f).key /\ High({f}) = largest(f).key
    BY <2>1, LowHighOne
  <2>3. current' = Flushed(current, f, l)
    BY <1>2, <1>4 DEF Flushed
  <2> HIDE DEF f
  <2>4. l = PickLevelForMemTableOutput(current, smallest(f).key, largest(f).key)
    BY <2>2
  <2> HIDE DEF l
  <2>5. Placed(current, f, l)
    BY <2>4, PickedLevel DEF Placed, OverlapInLevel
  <2> QED
    BY <1>1, <1>4, <2>1, <2>3, <2>5 DEF FlushStep
<1> QED
  BY <1>3, <1>4

\* A flush adds its table to one level.
LEMMA FlushedLevels ==
  ASSUME NEW v, DOMAIN v = Levels, NEW level \in Levels, NEW f
  PROVE  /\ DOMAIN Flushed(v, f, level) = Levels
         /\ \A l \in Levels : Flushed(v, f, level)[l] = IF l = level THEN v[l] \cup {f} ELSE v[l]
  BY DEF Flushed

\* A compaction's edit changes two levels.
LEMMA MovedLevels ==
  ASSUME NEW v, DOMAIN v = Levels, NEW level \in CompactLevels, NEW in0, NEW in1, NEW outs,
         NEW w, w = Moved(v, level, in0, in1, outs)
  PROVE  /\ DOMAIN w = Levels /\ w[level] = v[level] \ in0
         /\ w[level + 1] = (v[level + 1] \ in1) \cup outs
         /\ \A l \in Levels : l # level /\ l # level + 1 => w[l] = v[l]
  BY CompactLevel DEF Moved

\* A version with a flushed table.
LEMMA FlushedHolds ==
  ASSUME NEW v, NEW entries, Holds(v, entries), NEW level \in Levels,
         NEW f \in Table, f.entries # {}, f.entries \subseteq entries,
         NEW w, w = Flushed(v, f, level)
  PROVE  /\ Holds(w, entries)
         /\ LevelEntries(w) = LevelEntries(v) \cup f.entries
         /\ \A l \in Levels : v[l] \subseteq w[l]
<1>1. /\ DOMAIN v = Levels /\ v \in [Levels -> SUBSET Table] /\ IsFiniteSet(v[0])
      /\ \A l \in Levels : \A g \in v[l] : g.entries # {} /\ g.entries \subseteq entries
  BY DEF Holds
<1>2. DOMAIN w = Levels /\ \A l \in Levels : w[l] = IF l = level THEN v[l] \cup {f} ELSE v[l]
  BY <1>1, FlushedLevels
<1>3. \A l \in Levels : v[l] \subseteq w[l] /\ w[l] \subseteq v[l] \cup {f}
  BY <1>2
<1>4. w \in [Levels -> SUBSET Table]
  BY <1>1, <1>2 DEF Flushed
<1>5. IsFiniteSet(w[0])
  <2>1. 0 \in Levels
    BY Constants DEF Levels
  <2>2. w[0] = v[0] \/ w[0] = v[0] \cup {f}
    BY <1>2, <2>1
  <2> QED
    BY <1>1, <2>2, FS_AddElement
<1>6. \A l \in Levels : \A g \in w[l] : g.entries # {} /\ g.entries \subseteq entries
  BY <1>1, <1>3
<1>7. LevelEntries(w) = LevelEntries(v) \cup f.entries
  <2>1. \A e : e \in LevelEntries(w) => e \in LevelEntries(v) \cup f.entries
    BY <1>3, LevelEntriesOf
  <2>2. f \in w[level]
    BY <1>2
  <2>3. \A e : e \in LevelEntries(v) \cup f.entries => e \in LevelEntries(w)
    BY <1>3, <2>2, LevelEntriesOf
  <2> QED
    BY <2>1, <2>3
<1> QED
  BY <1>3, <1>4, <1>5, <1>6, <1>7 DEF Holds

\* A version in which outputs have taken the place of their inputs.
LEMMA MovedHolds ==
  ASSUME NEW v, NEW entries, Holds(v, entries), NEW level \in CompactLevels,
         NEW in0, in0 \subseteq v[level], NEW in1, in1 \subseteq v[level + 1], NEW outs,
         \A f \in outs : /\ f \in Table /\ f.entries # {}
                         /\ f.entries \subseteq EntriesOf(in0 \cup in1),
         NEW w, w = Moved(v, level, in0, in1, outs)
  PROVE  Holds(w, entries) /\ LevelEntries(w) \subseteq LevelEntries(v)
<1>0. /\ level \in Levels /\ level + 1 \in Levels /\ level + 1 # 0 /\ level # level + 1
      /\ 0 \in Levels
  BY CompactLevel, Constants DEF Levels
<1>1. /\ DOMAIN v = Levels /\ v \in [Levels -> SUBSET Table] /\ IsFiniteSet(v[0])
      /\ \A l \in Levels : \A g \in v[l] : g.entries # {} /\ g.entries \subseteq entries
  BY DEF Holds
<1>2. /\ DOMAIN w = Levels /\ w[level] = v[level] \ in0
      /\ w[level + 1] = (v[level + 1] \ in1) \cup outs
      /\ \A l \in Levels : l # level /\ l # level + 1 => w[l] = v[l]
  BY <1>1, MovedLevels
<1>3. \A l \in Levels : w[l] \subseteq v[l] \cup outs
  BY <1>0, <1>2
<1>4. w \in [Levels -> SUBSET Table]
  <2>1. \A l \in Levels : w[l] \in SUBSET Table
    BY <1>1, <1>3
  <2> QED
    BY <1>2, <2>1 DEF Moved
<1>5. IsFiniteSet(w[0])
  <2>1. w[0] \in SUBSET v[0]
    BY <1>0, <1>2
  <2> QED
    BY <1>1, <2>1, FS_Subset
<1>6. \A e \in EntriesOf(in0 \cup in1) : \E l \in Levels : \E g \in v[l] : e \in g.entries
  BY <1>0 DEF EntriesOf
<1>7. EntriesOf(in0 \cup in1) \subseteq entries
  BY <1>1, <1>6
<1>8. \A l \in Levels : \A g \in w[l] : g.entries # {} /\ g.entries \subseteq entries
  BY <1>1, <1>3, <1>7
<1>9. LevelEntries(w) \subseteq LevelEntries(v)
  <2> SUFFICES ASSUME NEW e \in LevelEntries(w)
               PROVE  \E l \in Levels : \E g \in v[l] : e \in g.entries
    BY LevelEntriesOf
  <2>1. PICK l \in Levels : \E g \in w[l] : e \in g.entries
    BY LevelEntriesOf
  <2>2. PICK g \in w[l] : e \in g.entries
    BY <2>1
  <2> QED
    BY <1>3, <1>6, <2>2
<1> QED
  BY <1>4, <1>5, <1>8, <1>9 DEF Holds

-----------------------------------------------------------------------------
\* The flush ends, in the middle of a compaction perhaps.
LEMMA EndFlushData ==
  ASSUME DataInv, EndFlush
  PROVE  DataInv'
<1>1. FlushStep
  BY FlushShape
<1>2. /\ UNCHANGED <<options, last_sequence, history, mem, snapshots, next_file,
                     compaction, manual, bg_error>>
      /\ flush' = 0 /\ imm' = {} /\ has_imm' = FALSE
  BY <1>1 DEF FlushStep
<1>3. MemInv' /\ ManualInv'
  BY <1>2 DEF DataInv, MemInv, ManualInv
<1>4. CASE imm = {} /\ current' = current
  BY <1>2, <1>3, <1>4 DEF DataInv, VersionInv, JobInv, Newer
<1>5. CASE imm # {}
  <2>0. PICK level : \E f \in {[number |-> flush, entries |-> imm]} :
          Proper(f) /\ Placed(current, f, level) /\ current' = Flushed(current, f, level)
    BY <1>1, <1>5 DEF FlushStep
  <2>1. PICK f \in {[number |-> flush, entries |-> imm]} :
          Proper(f) /\ Placed(current, f, level) /\ current' = Flushed(current, f, level)
    BY <2>0
  <2>2. /\ f.entries = imm /\ f.entries # {} /\ f.entries \subseteq history
        /\ level \in Levels /\ f \in Table
    BY <1>5, <2>1 DEF DataInv, MemInv, Placed, Distinct, Table
  <2>3. /\ Holds(current', history)
        /\ LevelEntries(current') = LevelEntries(current) \cup imm
        /\ \A l \in Levels : current[l] \subseteq current'[l]
    BY <2>1, <2>2, FlushedHolds DEF DataInv, VersionInv
  <2>4. VersionInv'
    BY <1>2, <2>3 DEF DataInv, VersionInv, Newer
  <2>5. Under(compaction) => Plan(compaction, current')
    BY <2>3, CompactLevel DEF DataInv, JobInv, Plan
  <2>6. JobInv'
    BY <1>2, <2>5 DEF DataInv, JobInv
  <2> QED
    BY <1>3, <2>4, <2>6 DEF DataInv
<1> QED
  BY <1>1, <1>4, <1>5 DEF FlushStep

\* A compaction starts.
LEMMA StartData ==
  ASSUME DataInv, NEW level \in CompactLevels,
         NEW files, files \subseteq current[level], files # {},
         NEW c, c = SetupOtherInputs(level, files),
         compaction' = c \/ compaction' = [c EXCEPT !.is_manual = TRUE],
         options.manual \/ Contiguous(files),
         UNCHANGED <<options, last_sequence, history, mem, imm, has_imm, snapshots,
                     current, next_file, flush, bg_error>>
  PROVE  MemInv' /\ VersionInv' /\ JobInv'
<1>1. MemInv' /\ VersionInv'
  BY DEF DataInv, MemInv, VersionInv
<1>2. Fresh(c, level, current, SmallestSnapshot)
  BY SetupFields, Zenon
<1>3. AllProper(current) /\ Distinct(history) /\ Holds(current, history)
  BY HoldsProper DEF DataInv, MemInv, VersionInv
<1>4. /\ c.inputs0 \subseteq current[level] /\ files \subseteq c.inputs0
      /\ c.inputs1 \subseteq current[level + 1]
      /\ Contiguous(files) => Contiguous(c.inputs0 \cup c.inputs1)
  BY <1>3, SetupPlan
<1> DEFINE d == compaction'
<1>5. /\ DOMAIN d = CompactionFields /\ d.state = "work" /\ d.level = level
      /\ d.inputs0 = c.inputs0 /\ d.inputs1 = c.inputs1
      /\ d.rest = Inputs(c) /\ d.outputs = <<>> /\ d.open = FALSE
      /\ d.smallest_snapshot = SmallestSnapshot
  BY <1>2 DEF CompactionFields, Fresh
<1> HIDE DEF d
<1>6. Inputs(d) = Inputs(c)
  BY <1>5 DEF Inputs
<1>7. Plan(d, current)
  BY <1>4, <1>5 DEF Plan
<1>8. Oldest(d, snapshots, last_sequence, options.snapshots)
  <2>1. Inputs(d) \subseteq history
    BY <1>3, <1>7, PlanInputs
  <2> QED
    BY <1>5, <2>1, OldestSnapshot DEF Oldest, DataInv, MemInv
<1>9. Written(d)
  <2>1. d.outputs \in Seq(Table) /\ Len(d.outputs) = 0
    BY <1>5
  <2> QED
    BY <1>5, <1>6, <2>1 DEF Written
<1>10. options.manual \/ Contiguous(d.inputs0 \cup d.inputs1)
  BY <1>4, <1>5
<1> QED
  BY <1>1, <1>7, <1>8, <1>9, <1>10 DEF JobInv, d

-----------------------------------------------------------------------------
(* The invariant of the data: compactions.                                 *)

\* BackgroundCompaction starts a compaction for CompactRange, if there is
\* anything to do, or one that PickCompaction chose.
LEMMA BeginManualData ==
  ASSUME DataInv, BeginManual
  PROVE  DataInv'
<1>1. /\ UNCHANGED <<options, last_sequence, history, mem, imm, has_imm, snapshots,
                     current, next_file, flush, bg_error>>
      /\ ManualSet
  BY DEF BeginManual, memVars, clientVars
<1>2. manual.state = "level" /\ ManualInv
  BY <1>1 DEF ManualSet, DataInv
<1>3. /\ manual.level \in CompactLevels /\ options.manual
      /\ manual.begin \in Keys /\ manual.end \in Keys
  BY <1>2, ManualFields
<1>4. CASE ManualInputs = {}
  <2>1. manual' = [manual EXCEPT !.done = TRUE, !.set = FALSE] /\ UNCHANGED compaction
    BY <1>4 DEF BeginManual
  <2>2. ManualInv'
    BY <1>1, <1>2, <2>1, ManualFields DEF ManualInv
  <2>3. MemInv' /\ VersionInv' /\ JobInv'
    BY <1>1, <2>1, QuietKeeps DEF DataInv, MemInv
  <2> QED
    BY <2>2, <2>3 DEF DataInv
<1>5. CASE ManualInputs # {}
  <2>1. /\ compaction' = [SetupOtherInputs(manual.level, ManualInputs)
                            EXCEPT !.is_manual = TRUE]
        /\ UNCHANGED manual
    BY <1>5 DEF BeginManual, Start
  <2>2. AllProper(current)
    BY HoldsProper DEF DataInv, MemInv, VersionInv
  <2>3. ManualInputs \subseteq current[manual.level]
    BY <1>3, <2>2, ManualPlan
  <2>4. PICK c : c = SetupOtherInputs(manual.level, ManualInputs)
    OBVIOUS
  <2>5. compaction' = [c EXCEPT !.is_manual = TRUE]
    BY <2>1, <2>4
  <2>6. MemInv' /\ VersionInv' /\ JobInv'
    BY <1>1, <1>3, <1>5, <2>3, <2>4, <2>5, StartData
  <2> QED
    BY <1>1, <2>1, <2>6 DEF DataInv, ManualInv
<1> QED
  BY <1>4, <1>5

\* What PickCompaction plans.
LEMMA PickedPlan ==
  ASSUME DataInv, NEW level \in CompactLevels, NEW file \in current[level],
         NEW c, c = PickCompaction(level, file)
  PROVE  \E files : /\ files \subseteq current[level] /\ files # {}
                    /\ level = 0 => Closed0(current, files)
                    /\ Contiguous(files)
                    /\ c = SetupOtherInputs(level, files)
<1>1. AllProper(current)
  BY HoldsProper DEF DataInv, MemInv, VersionInv
<1>2. PICK files : files = InitialInputs(level, file)
  OBVIOUS
<1>3. /\ files \subseteq current[level] /\ file \in files
      /\ level = 0 => Closed0(current, files)
      /\ Contiguous(files)
  BY <1>1, <1>2, InitialPlan
<1>4. c = SetupOtherInputs(level, files)
  BY <1>2 DEF PickCompaction
<1> QED
  BY <1>3, <1>4

\* PickCompaction's choice starts.
LEMMA BeginCompactionData ==
  ASSUME DataInv, NEW level \in CompactLevels, NEW file \in current[level],
         BeginCompaction(level, file)
  PROVE  DataInv'
<1>1. /\ UNCHANGED <<options, last_sequence, history, mem, imm, has_imm, snapshots,
                     current, next_file, flush, bg_error, manual>>
      /\ compaction' = PickCompaction(level, file)
  BY DEF BeginCompaction, Start, memVars, clientVars
<1>2. PICK c : c = PickCompaction(level, file)
  OBVIOUS
<1>3. PICK files : /\ files \subseteq current[level] /\ files # {}
                   /\ Contiguous(files) /\ c = SetupOtherInputs(level, files)
  BY <1>2, PickedPlan
<1>4. compaction' = c
  BY <1>1, <1>2
<1>5. MemInv' /\ VersionInv' /\ JobInv'
  BY <1>1, <1>3, <1>4, StartData
<1> QED
  BY <1>1, <1>5 DEF DataInv, ManualInv

\* The edit of a compaction, or of a trivial move.
MovePlan(v, level, in0, in1, outs) ==
  /\ level \in CompactLevels /\ in0 \subseteq v[level] /\ in1 \subseteq v[level + 1]
  /\ \A f \in outs : /\ f \in Table /\ f.entries # {}
                     /\ f.entries \subseteq EntriesOf(in0 \cup in1)

\* A version that moves entries down a level keeps the invariant.
LEMMA MoveData ==
  ASSUME DataInv, NEW level, NEW in0, NEW in1, NEW outs,
         MovePlan(current, level, in0, in1, outs),
         current' = Moved(current, level, in0, in1, outs),
         UNCHANGED <<options, last_sequence, history, mem, imm, has_imm, snapshots,
                     next_file, flush, bg_error>>
  PROVE  MemInv' /\ VersionInv'
<1>1. MemInv'
  BY DEF DataInv, MemInv
<1>2. Holds(current', history) /\ LevelEntries(current') \subseteq LevelEntries(current)
  BY MovedHolds DEF MovePlan, DataInv, VersionInv
<1>3. VersionInv'
  BY <1>2 DEF DataInv, VersionInv, Newer
<1> QED
  BY <1>1, <1>3

TrivialStep(level, c) ==
  /\ MovePlan(current, level, c.inputs0, {}, c.inputs0)
  /\ current' = Moved(current, level, c.inputs0, {}, c.inputs0)
  /\ Cardinality(c.inputs0) = 1 /\ c.inputs1 = {}
  /\ flush = 0 /\ ~Under(compaction)
  /\ UNCHANGED <<options, last_sequence, history, mem, imm, has_imm, snapshots, held,
                 disk, next_file, pending_outputs, flush, compaction, manual, bg_error>>

\* A trivial move is such a step.
LEMMA TrivialShape ==
  ASSUME DataInv, NEW level \in CompactLevels, NEW file \in current[level],
         TrivialMove(level, file), NEW c, c = PickCompaction(level, file)
  PROVE  TrivialStep(level, c)
<1>1. PICK files : /\ files \subseteq current[level] /\ files # {}
                   /\ c = SetupOtherInputs(level, files)
  BY PickedPlan
<1>2. AllProper(current)
  BY HoldsProper DEF DataInv, MemInv, VersionInv
<1>3. c.inputs0 \subseteq current[level]
  BY <1>1, <1>2, SetupPlan
<1>4. \A f \in c.inputs0 : f \in Table /\ f.entries # {}
  BY <1>3, CompactLevel DEF DataInv, VersionInv, Holds
<1>5. MovePlan(current, level, c.inputs0, {}, c.inputs0)
  <2>1. \A f \in c.inputs0 : f.entries \subseteq EntriesOf(c.inputs0 \cup {})
    BY DEF EntriesOf
  <2> QED
    BY <1>3, <1>4, <2>1 DEF MovePlan
<1>6. current' = Moved(current, level, c.inputs0, {}, c.inputs0)
  BY DEF TrivialMove, LogAndApply
<1>7. Cardinality(c.inputs0) = 1 /\ c.inputs1 = {}
  BY DEF TrivialMove, IsTrivialMove
<1>8. /\ flush = 0 /\ ~Under(compaction)
      /\ UNCHANGED <<options, last_sequence, history, mem, imm, has_imm, snapshots, held,
                     disk, next_file, pending_outputs, flush, compaction, manual, bg_error>>
  BY DEF TrivialMove, CanCompact, memVars, clientVars
<1> QED
  BY <1>5, <1>6, <1>7, <1>8 DEF TrivialStep

\* A trivial move keeps the invariant of the data.
LEMMA TrivialData ==
  ASSUME DataInv, NEW level, NEW c, TrivialStep(level, c)
  PROVE  DataInv'
<1>1. MemInv' /\ VersionInv'
  BY MoveData DEF TrivialStep
<1> QED
  BY <1>1 DEF TrivialStep, DataInv, ManualInv, JobInv

\* A turn of DoCompactionWork's loop.
LEMMA TurnData ==
  ASSUME DataInv, NEW e, Turn(e)
  PROVE  DataInv'
<1> DEFINE c == compaction
           d == compaction'
<1>1. /\ UNCHANGED <<options, last_sequence, history, mem, imm, has_imm, snapshots,
                     current, flush, manual, bg_error>>
      /\ Under(c) /\ SamePlan(c, d)
  BY DEF Turn
<1>2. next_file \in Nat /\ next_file' \in Nat
  BY DEF Turn, DataInv, MemInv
<1>3. MemInv' /\ VersionInv' /\ ManualInv'
  BY <1>1, <1>2 DEF DataInv, MemInv, VersionInv, ManualInv
<1>4. /\ Plan(c, current) /\ Written(c)
      /\ Oldest(c, snapshots, last_sequence, options.snapshots)
      /\ ~options.manual => Contiguous(c.inputs0 \cup c.inputs1)
  BY <1>1 DEF DataInv, JobInv
<1>5. Distinct(Inputs(c))
  BY <1>4, PlanInputs DEF DataInv, MemInv, VersionInv
<1>6. Written(d)
  BY <1>2, <1>4, <1>5, TurnWritten DEF Turn
<1>7. Plan(d, current)
  BY <1>1, <1>4 DEF SamePlan, Plan
<1>8. Inputs(d) = Inputs(c)
  BY <1>1, SamePlanDrops
<1>9. Oldest(d, snapshots, last_sequence, options.snapshots)
  BY <1>1, <1>4, <1>8 DEF SamePlan, Oldest
<1>10. ~options.manual => Contiguous(d.inputs0 \cup d.inputs1)
  BY <1>1, <1>4 DEF SamePlan
<1> QED
  BY <1>1, <1>3, <1>6, <1>7, <1>9, <1>10 DEF DataInv, JobInv

\* The outputs are installed.
OutputSet(c) == {c.outputs[i] : i \in 1..Len(c.outputs)}

InstallStep ==
  LET c == compaction
  IN /\ Under(c) /\ c.rest = {} /\ flush = 0
     /\ MovePlan(current, c.level, c.inputs0, c.inputs1, OutputSet(c))
     /\ current' = Moved(current, c.level, c.inputs0, c.inputs1, OutputSet(c))
     /\ compaction' = NoCompaction /\ manual' = ManualAfter(TRUE)
     /\ UNCHANGED <<options, last_sequence, history, mem, imm, has_imm, snapshots, held,
                    next_file, flush, bg_error>>

\* InstallCompactionResults is such a step.
LEMMA InstallShape ==
  ASSUME DataInv, InstallCompactionResults
  PROVE  InstallStep
<1> DEFINE c == compaction
<1>1. Under(c) /\ c.rest = {} /\ flush = 0
  BY DEF InstallCompactionResults
<1>2. Plan(c, current) /\ Written(c)
  BY <1>1 DEF DataInv, JobInv
<1>3. c.outputs \in Seq(Table) /\ DOMAIN c.outputs = 1..Len(c.outputs)
  BY <1>2 DEF Written
<1>4. MovePlan(current, c.level, c.inputs0, c.inputs1, OutputSet(c))
  <2>1. \A f \in OutputSet(c) : /\ f \in Table /\ f.entries # {}
                                /\ f.entries \subseteq EntriesOf(c.inputs0 \cup c.inputs1)
    <3> SUFFICES ASSUME NEW i \in 1..Len(c.outputs)
                 PROVE  /\ c.outputs[i] \in Table /\ c.outputs[i].entries # {}
                        /\ c.outputs[i].entries \subseteq Inputs(c)
      BY DEF OutputSet, Inputs
    <3>1. c.outputs[i] \in Table
      BY <1>3
    <3>2. c.outputs[i].entries # {} /\ c.outputs[i].entries \subseteq Inputs(c)
      BY <1>2 DEF Written
    <3> QED
      BY <3>1, <3>2
  <2> QED
    BY <1>2, <2>1 DEF MovePlan, Plan
<1>5. current' = Moved(current, c.level, c.inputs0, c.inputs1, OutputSet(c))
  <2>1. OutputSet(c) = {c.outputs[i] : i \in DOMAIN c.outputs}
    BY <1>3 DEF OutputSet
  <2> QED
    BY <2>1 DEF InstallCompactionResults, LogAndApply
<1>6. /\ compaction' = NoCompaction /\ manual' = ManualAfter(TRUE)
      /\ UNCHANGED <<options, last_sequence, history, mem, imm, has_imm, snapshots, held,
                     next_file, flush, bg_error>>
  BY DEF InstallCompactionResults, memVars, clientVars
<1> QED
  BY <1>1, <1>4, <1>5, <1>6 DEF InstallStep

\* The key that ends the inputs, for the next round of CompactRange.
LEMMA LimitOfInputs ==
  ASSUME DataInv, Under(compaction)
  PROVE  largest(LastOf(compaction.inputs0)).key \in Keys
<1>1. Plan(compaction, current) /\ Distinct(history) /\ Holds(current, history)
  BY DEF DataInv, JobInv, MemInv, VersionInv
<1>2. /\ \A f \in compaction.inputs0 : Proper(f)
      /\ Distinct(EntriesOf(compaction.inputs0))
  BY <1>1, PlanInputs, DistinctSubset
<1>3. compaction.inputs0 # {}
  BY <1>1 DEF Plan
<1> QED
  BY <1>2, <1>3, LastLimitOf

\* After the end of a compaction none is under way.
LEMMA NoneUnder == ~Under(NoCompaction)
  BY DEF Under, NoCompaction

\* Installing the outputs keeps the invariant of the data.
LEMMA InstallData ==
  ASSUME DataInv, InstallStep
  PROVE  DataInv'
<1>1. MemInv' /\ VersionInv'
  BY MoveData DEF InstallStep
<1>2. ManualInv'
  BY LimitOfInputs, ManualAfterKeeps DEF InstallStep, DataInv
<1>3. JobInv'
  BY NoneUnder DEF InstallStep, JobInv
<1> QED
  BY <1>1, <1>2, <1>3 DEF DataInv

\* A compaction that fails leaves the version as it is.
LEMMA FailsData ==
  ASSUME DataInv, CompactionFails
  PROVE  DataInv'
<1>1. /\ Under(compaction) /\ compaction' = NoCompaction /\ manual' = ManualAfter(FALSE)
      /\ bg_error' = TRUE
      /\ UNCHANGED <<options, last_sequence, history, mem, imm, has_imm, snapshots,
                     current, next_file, flush>>
  BY DEF CompactionFails, memVars, clientVars
<1>2. ManualInv'
  BY <1>1, LimitOfInputs, ManualAfterKeeps DEF DataInv
<1>3. JobInv'
  BY <1>1, NoneUnder DEF JobInv
<1> QED
  BY <1>1, <1>2, <1>3 DEF DataInv, MemInv, VersionInv

-----------------------------------------------------------------------------
(* The invariant of the data holds.                                        *)

\* A new database has no entry.
LEMMA DataInvInit == Init => DataInv
<1> SUFFICES ASSUME Init PROVE DataInv
  OBVIOUS
<1> USE DEF Init
<1>1. JobInv
  BY NoneUnder DEF JobInv
<1>2. LevelEntries(current) = {}
  BY DEF LevelEntries, EntriesOf
<1>3. VersionInv
  <2>1. 0 \in Levels /\ current[0] = {} /\ IsFiniteSet({})
    BY Constants, FS_EmptySet DEF Levels
  <2>2. Holds(current, history)
    BY <2>1 DEF Holds
  <2> QED
    BY <1>2, <2>2 DEF VersionInv, Newer
<1>4. ManualInv
  BY DEF ManualInv
<1>5. MemInv
  <2>1. 0 \in 0..MaxSequence /\ next_file \in Nat /\ flush \in Nat
    BY Constants
  <2>2. has_imm \in BOOLEAN /\ bg_error \in BOOLEAN
    BY Zenon
  <2>3. Distinct({})
    BY DEF Distinct
  <2> QED
    BY <2>1, <2>2, <2>3 DEF MemInv
<1> QED
  BY <1>1, <1>3, <1>4, <1>5 DEF DataInv

\* Every step keeps the invariant of the data.
LEMMA DataInvStep == DataInv /\ [Next]_vars => DataInv'
<1> SUFFICES ASSUME DataInv, [Next]_vars PROVE DataInv'
  OBVIOUS
<1>0. next_file \in Nat /\ flush \in Nat /\ bg_error \in BOOLEAN /\ ManualInv
  BY DEF DataInv, MemInv
<1>1. CASE UNCHANGED vars
  BY <1>0, <1>1, QuietKeeps DEF vars, memVars, clientVars, versionVars, DataInv, ManualInv
<1>2. ASSUME NEW k \in Keys, NEW t \in ValueTypes, Write(k, t) PROVE DataInv'
  BY <1>2, WriteKeeps
<1>3. CASE MakeRoomForWrite
  <2>1. /\ SwitchMemTable
        /\ UNCHANGED <<options, last_sequence, history, snapshots, current, compaction,
                       next_file, flush, manual, bg_error>>
    BY <1>3 DEF MakeRoomForWrite, clientVars, versionVars
  <2> QED
    BY <1>0, <2>1, SwitchKeeps DEF DataInv, ManualInv
<1>4. CASE GetSnapshot \/ \E s \in snapshots : ReleaseSnapshot(s)
  <2>1. /\ snapshots' \subseteq snapshots \cup {last_sequence}
        /\ ~options.snapshots => snapshots' \subseteq snapshots
        /\ UNCHANGED <<options, last_sequence, history, mem, imm, has_imm, current,
                       compaction, next_file, flush, manual, bg_error>>
    BY <1>4 DEF GetSnapshot, ReleaseSnapshot, memVars, versionVars
  <2> QED
    BY <2>1, SnapshotKeeps
<1>5. CASE \/ \E r \in Readers : BeginRead(r) \/ EndRead(r)
           \/ WriteSyncFails \/ BeginFlush \/ FlushFails
  <2>1. /\ UNCHANGED <<options, last_sequence, history, mem, imm, has_imm, snapshots,
                       current, compaction, manual>>
        /\ flush' \in {flush, 0, next_file} /\ next_file' \in {next_file, next_file + 1}
        /\ bg_error' \in {bg_error, TRUE}
    BY <1>5 DEF BeginRead, EndRead, WriteSyncFails, BeginFlush, FlushFails,
       memVars, clientVars, versionVars
  <2>2. next_file' \in Nat /\ flush' \in Nat
    BY <1>0, <2>1
  <2>3. bg_error' \in BOOLEAN
    BY <1>0, <2>1, Zenon
  <2> QED
    BY <1>0, <2>1, <2>2, <2>3, QuietKeeps DEF DataInv, ManualInv
<1>6. CASE \/ \E range \in Ranges : CompactRange(range)
           \/ CompactMemTableReturns \/ ManualRound \/ ManualEnds
  <2>1. UNCHANGED <<options, last_sequence, history, mem, imm, has_imm, snapshots,
                    current, compaction, next_file, flush, bg_error>>
    BY <1>6 DEF CompactRange, CompactMemTableReturns, ManualRound, ManualEnds,
       memVars, clientVars, versionVars
  <2>2. ManualInv'
    BY <1>0, <1>6, <2>1, CompactRangeKeeps, ManualStepKeeps
  <2> QED
    BY <1>0, <2>1, <2>2, QuietKeeps DEF DataInv
<1>7. CASE CompactMemTableCall
  <2>1. UNCHANGED <<options, last_sequence, history, snapshots, current, compaction,
                    next_file, flush, bg_error>>
    BY <1>7 DEF CompactMemTableCall, clientVars, versionVars
  <2>2. SwitchMemTable \/ UNCHANGED <<mem, imm, has_imm>>
    BY <1>7 DEF CompactMemTableCall
  <2>3. MemInv' /\ VersionInv' /\ JobInv'
    BY <1>0, <2>1, <2>2, SwitchKeeps, QuietKeeps
  <2>4. ManualInv'
    BY <1>0, <1>7, <2>1, ManualStepKeeps
  <2> QED
    BY <2>3, <2>4 DEF DataInv
<1>8. CASE EndFlush \/ BeginManual \/ CompactionFails
  BY <1>8, EndFlushData, BeginManualData, FailsData
<1>9. ASSUME NEW l \in CompactLevels, NEW f \in current[l],
             BeginCompaction(l, f) \/ TrivialMove(l, f)
      PROVE  DataInv'
  BY <1>9, BeginCompactionData, TrivialShape, TrivialData
<1>10. CASE DoCompactionWork
  <2>1. PICK e : Turn(e)
    BY <1>10, TurnShape DEF DataInv
  <2> QED
    BY <2>1, TurnData
<1>11. CASE InstallCompactionResults
  BY <1>11, InstallShape, InstallData
<1> QED
  BY <1>1, <1>2, <1>3, <1>4, <1>5, <1>6, <1>7, <1>8, <1>9, <1>10, <1>11 DEF Next

-----------------------------------------------------------------------------
(* Files in use stay on disk.                                              *)

\* Table n belongs to a version in use or to the compaction under way.
InUse(n) ==
  \/ n \in Numbers(current)
  \/ \E r \in Readers : \E v \in held[r] : n \in Numbers(v)
  \/ /\ Under(compaction)
     /\ n \in OutputsPending \cup Numbers(compaction.version)

\* Numbers are given once: the table of a flush is of no version and no output
\* of the compaction that may stop for it, and what the compaction has written
\* stays pending until it is installed.
FileInv ==
  /\ next_file \in Nat \ {0}
  /\ disk \subseteq 1..(next_file - 1)
  /\ pending_outputs \subseteq 1..(next_file - 1)
  /\ flush \in 0..(next_file - 1)
  /\ DOMAIN held = Readers
  /\ LiveFilesOnDisk
  /\ flush # 0 => /\ has_imm
                  /\ imm # {} => flush \in disk
                  /\ ~InUse(flush)
  /\ Under(compaction) => OutputsPending \subseteq pending_outputs

-----------------------------------------------------------------------------
(* What versions are made of.                                              *)

\* A number is a version's if one of its levels has the file.
LEMMA NumbersOf ==
  ASSUME NEW v, NEW n
  PROVE  n \in Numbers(v) <=> \E l \in Levels : \E f \in v[l] : n = f.number
  BY DEF Numbers

\* What LiveFilesOnDisk says, number by number.
LEMMA InUseOnDisk == LiveFilesOnDisk <=> \A n : InUse(n) => n \in disk
<1>1. ASSUME LiveFilesOnDisk, NEW n, InUse(n) PROVE n \in disk
  BY <1>1 DEF LiveFilesOnDisk, InUse
<1>2. ASSUME \A n : InUse(n) => n \in disk PROVE LiveFilesOnDisk
  BY <1>2 DEF LiveFilesOnDisk, InUse
<1> QED
  BY <1>1, <1>2

-----------------------------------------------------------------------------
(* The invariant, action by action.                                        *)

\* Steps that leave the files and their users alone.
LEMMA ClientKeeps ==
  ASSUME FileInv,
         UNCHANGED <<current, disk, next_file, pending_outputs, held, flush, compaction>>,
         flush # 0 => UNCHANGED <<imm, has_imm>>
  PROVE  FileInv'
<1>1. (\A n : InUse(n)' <=> InUse(n)) /\ OutputsPending' = OutputsPending
  BY DEF InUse, OutputsPending
<1>2. LiveFilesOnDisk'
  BY <1>1 DEF FileInv, LiveFilesOnDisk
<1> QED
  BY <1>1, <1>2 DEF FileInv

\* A reader takes hold of the current version, or lets go of one.
LEMMA ReaderKeeps ==
  ASSUME FileInv, NEW r \in Readers, NEW hold, hold \subseteq {current},
         held' = [held EXCEPT ![r] = hold],
         UNCHANGED <<current, disk, next_file, pending_outputs, flush, compaction,
                     imm, has_imm>>
  PROVE  FileInv'
<1>1. /\ DOMAIN held' = Readers
      /\ \A q \in Readers : held'[q] \subseteq held[q] \cup {current}
  BY DEF FileInv
<1>2. OutputsPending' = OutputsPending
  BY DEF OutputsPending
<1>3. \A n : InUse(n)' => InUse(n)
  BY <1>1, <1>2 DEF InUse
<1>4. LiveFilesOnDisk'
  BY <1>1, <1>2 DEF FileInv, LiveFilesOnDisk
<1> QED
  BY <1>1, <1>2, <1>3, <1>4 DEF FileInv

\* A flush takes a number nothing has.
LEMMA BeginFlushKeeps ==
  ASSUME FileInv, BeginFlush
  PROVE  FileInv'
<1>1. /\ UNCHANGED <<current, held, compaction, imm, has_imm>>
      /\ has_imm /\ flush' = next_file /\ next_file' = next_file + 1
      /\ pending_outputs' = pending_outputs \cup {next_file}
      /\ disk \subseteq disk' /\ disk' \subseteq disk \cup {next_file}
      /\ imm # {} => next_file \in disk'
  BY DEF BeginFlush, clientVars, memVars
<1>2. (\A n : InUse(n)' <=> InUse(n)) /\ OutputsPending' = OutputsPending
  BY <1>1 DEF InUse, OutputsPending
<1>3. next_file \notin disk /\ next_file \in Nat \ {0}
  BY DEF FileInv
<1>4. ~InUse(next_file)
  BY <1>3, InUseOnDisk DEF FileInv
<1>5. LiveFilesOnDisk'
  BY <1>1, <1>2 DEF FileInv, LiveFilesOnDisk
<1> QED
  BY <1>1, <1>2, <1>3, <1>4, <1>5 DEF FileInv

\* A flush that fails takes away no table but its own.
LEMMA FlushFailsKeeps ==
  ASSUME FileInv, FlushFails
  PROVE  FileInv'
<1>1. /\ UNCHANGED <<current, held, compaction, next_file>>
      /\ flush # 0 /\ flush' = 0
      /\ pending_outputs' = pending_outputs \ {flush}
      /\ disk' \subseteq disk /\ disk \ {flush} \subseteq disk'
  BY DEF FlushFails, clientVars
<1>2. (\A n : InUse(n)' <=> InUse(n)) /\ OutputsPending' = OutputsPending
  BY <1>1 DEF InUse, OutputsPending
<1>3. ~InUse(flush)
  BY <1>1 DEF FileInv
<1>4. \A n : InUse(n) => n \in disk'
  BY <1>1, <1>3, InUseOnDisk DEF FileInv
<1>5. LiveFilesOnDisk'
  BY <1>1, <1>2, <1>4 DEF InUse, LiveFilesOnDisk
<1>6. Under(compaction) => flush \notin OutputsPending
  BY <1>3 DEF InUse
<1> QED
  BY <1>1, <1>2, <1>5, <1>6 DEF FileInv

\* What DeleteObsoleteFiles keeps.
LEMMA Removal ==
  ASSUME NEW files, NEW live, NEW pending
  PROVE  /\ DeleteObsoleteFiles(files, live, pending) \subseteq files
         /\ \A v \in live : Numbers(v) \subseteq files =>
              Numbers(v) \subseteq DeleteObsoleteFiles(files, live, pending)
         /\ files \cap pending \subseteq DeleteObsoleteFiles(files, live, pending)
  BY DEF DeleteObsoleteFiles

\* The flushed table is installed, in the middle of a compaction perhaps, and
\* DeleteObsoleteFiles keeps the compaction's inputs and outputs.
LEMMA EndFlushKeeps ==
  ASSUME DataInv, FileInv, EndFlush
  PROVE  FileInv'
<1> DEFINE pending == pending_outputs \ {flush}
<1>1. FlushStep
  BY FlushShape
<1>2. /\ UNCHANGED <<held, compaction, next_file>>
      /\ flush # 0 /\ flush' = 0
      /\ pending_outputs' = pending
      /\ disk' = DeleteObsoleteFiles(disk, Referred \cup {current'}, pending)
  BY DEF EndFlush, LogAndApply, clientVars
<1> HIDE DEF pending
<1>3. DOMAIN current = Levels
  BY DEF DataInv, VersionInv, Holds
<1>5. imm # {} => Numbers(current') \subseteq Numbers(current) \cup {flush}
  <2> SUFFICES ASSUME imm # {}, NEW n \in Numbers(current')
               PROVE  n \in Numbers(current) \cup {flush}
    OBVIOUS
  <2>1. PICK level : \E f \in {[number |-> flush, entries |-> imm]} :
          Placed(current, f, level) /\ current' = Flushed(current, f, level)
    BY <1>1 DEF FlushStep
  <2>2. PICK f \in {[number |-> flush, entries |-> imm]} :
          Placed(current, f, level) /\ current' = Flushed(current, f, level)
    BY <2>1
  <2>3. \A l \in Levels : current'[l] \subseteq current[l] \cup {f}
    <3>1. level \in Levels
      BY <2>2 DEF Placed
    <3>2. \A l \in Levels : Flushed(current, f, level)[l] =
                             IF l = level THEN current[l] \cup {f} ELSE current[l]
      BY <1>3, <3>1, FlushedLevels
    <3> QED
      BY <2>2, <3>2
  <2>4. PICK l \in Levels : \E g \in current'[l] : n = g.number
    BY NumbersOf
  <2>5. PICK g \in current'[l] : n = g.number
    BY <2>4
  <2>6. f.number = flush
    BY <2>2
  <2> QED
    BY <2>3, <2>5, <2>6, NumbersOf
<1>6. Numbers(current') \subseteq disk
  BY <1>1, <1>5 DEF FlushStep, FileInv, LiveFilesOnDisk
<1>7. OutputsPending' = OutputsPending /\ Under(compaction)' = Under(compaction)
  BY <1>2 DEF OutputsPending, Under
<1>8. Under(compaction) => OutputsPending \subseteq disk \cap pending
  BY <1>2 DEF FileInv, LiveFilesOnDisk, InUse, pending
<1>9. LiveFilesOnDisk'
  <2>1. Numbers(current') \subseteq disk'
    BY <1>2, <1>6, Removal
  <2>2. ASSUME NEW r \in Readers, NEW v \in held[r] PROVE Numbers(v) \subseteq disk'
    <3>1. v \in UNION {held[q] : q \in Readers} /\ Numbers(v) \subseteq disk
      BY DEF FileInv, LiveFilesOnDisk
    <3>2. v \in Referred
      BY <3>1 DEF Referred
    <3> QED
      BY <1>2, <3>1, <3>2, Removal
  <2>3. ASSUME Under(compaction)
        PROVE  OutputsPending \cup Numbers(compaction.version) \subseteq disk'
    <3>1. compaction.version \in Referred /\ Numbers(compaction.version) \subseteq disk
      BY <2>3 DEF Referred, FileInv, LiveFilesOnDisk
    <3> QED
      BY <1>2, <1>8, <2>3, <3>1, Removal
  <2> QED
    BY <1>2, <1>7, <2>1, <2>2, <2>3 DEF LiveFilesOnDisk
<1>10. disk' \subseteq disk
  BY <1>2, Removal
<1>11. pending \subseteq pending_outputs
  BY DEF pending
<1>12. /\ next_file' \in Nat \ {0} /\ flush' \in 0..(next_file' - 1)
       /\ disk' \subseteq 1..(next_file' - 1)
       /\ pending_outputs' \subseteq 1..(next_file' - 1)
  <2>1. UNCHANGED next_file /\ flush' = 0 /\ pending_outputs' \subseteq pending_outputs
    BY <1>2, <1>11
  <2> QED
    BY <2>1, <1>10 DEF FileInv
<1>13. Under(compaction)' => OutputsPending' \subseteq pending_outputs'
  BY <1>2, <1>7, <1>8 DEF FileInv
<1> QED
  BY <1>2, <1>9, <1>12, <1>13 DEF FileInv

\* A compaction starts: the version it reads is the current one.
LEMMA StartKeeps ==
  ASSUME FileInv, flush = 0,
         UNCHANGED <<current, disk, next_file, pending_outputs, held, flush>>,
         compaction'.version = current, compaction'.outputs = <<>>
  PROVE  FileInv'
<1>1. OutputsPending' = {}
  BY DEF OutputsPending
<1>2. LiveFilesOnDisk'
  BY <1>1 DEF FileInv, LiveFilesOnDisk
<1> QED
  BY <1>1, <1>2 DEF FileInv

\* BackgroundCompaction for CompactRange, which may find nothing to do.
LEMMA BeginManualKeeps ==
  ASSUME FileInv, BeginManual
  PROVE  FileInv'
<1>1. /\ UNCHANGED <<current, disk, next_file, pending_outputs, held, flush, imm, has_imm>>
      /\ flush = 0
  BY DEF BeginManual, CanCompact, memVars, clientVars
<1>2. CASE ManualInputs = {}
  BY <1>1, <1>2, ClientKeeps DEF BeginManual
<1>3. CASE ManualInputs # {}
  <2>1. compaction' = [SetupOtherInputs(manual.level, ManualInputs)
                         EXCEPT !.is_manual = TRUE]
    BY <1>3 DEF BeginManual, Start
  <2>2. PICK c : c = SetupOtherInputs(manual.level, ManualInputs)
    OBVIOUS
  <2>3. Fresh(c, manual.level, current, SmallestSnapshot)
    BY <2>2, SetupFields, Zenon
  <2>4. compaction'.version = current /\ compaction'.outputs = <<>>
    BY <2>1, <2>2, <2>3 DEF Fresh, CompactionFields
  <2> QED
    BY <1>1, <2>4, StartKeeps
<1> QED
  BY <1>2, <1>3

\* BackgroundCompaction with a file that PickCompaction chose.
LEMMA BeginCompactionKeeps ==
  ASSUME FileInv, NEW level \in CompactLevels, NEW file \in current[level],
         BeginCompaction(level, file)
  PROVE  FileInv'
<1>1. /\ UNCHANGED <<current, disk, next_file, pending_outputs, held, flush>>
      /\ flush = 0 /\ compaction' = PickCompaction(level, file)
  BY DEF BeginCompaction, CanCompact, Start, clientVars
<1>2. PICK c : c = PickCompaction(level, file)
  OBVIOUS
<1>3. c = SetupOtherInputs(level, InitialInputs(level, file))
  BY <1>2 DEF PickCompaction
<1>4. Fresh(c, level, current, SmallestSnapshot)
  BY <1>3, SetupFields, Zenon
<1> QED
  BY <1>1, <1>2, <1>4, StartKeeps DEF Fresh

\* The numbers of a version after a compaction's edit.
LEMMA MovedNumbers ==
  ASSUME NEW v, DOMAIN v = Levels, NEW level \in CompactLevels, NEW in0, NEW in1, NEW outs,
         NEW w, w = Moved(v, level, in0, in1, outs)
  PROVE  Numbers(w) \subseteq Numbers(v) \cup {f.number : f \in outs}
<1> SUFFICES ASSUME NEW n \in Numbers(w) PROVE n \in Numbers(v) \cup {f.number : f \in outs}
  OBVIOUS
<1>1. \A l \in Levels : w[l] \subseteq v[l] \cup outs
  BY MovedLevels
<1>2. PICK l \in Levels : \E g \in w[l] : n = g.number
  BY NumbersOf
<1>3. PICK g \in w[l] : n = g.number
  BY <1>2
<1> QED
  BY <1>1, <1>3, NumbersOf

\* A trivial move gives a file to another level of the next version.
LEMMA TrivialMoveKeeps ==
  ASSUME DataInv, FileInv, NEW level, NEW c, TrivialStep(level, c)
  PROVE  FileInv'
<1>1. /\ UNCHANGED <<disk, next_file, pending_outputs, held, flush, compaction>>
      /\ flush = 0 /\ level \in CompactLevels /\ c.inputs0 \subseteq current[level]
      /\ current' = Moved(current, level, c.inputs0, {}, c.inputs0)
  BY DEF TrivialStep, MovePlan
<1>2. {f.number : f \in c.inputs0} \subseteq Numbers(current)
  BY <1>1, CompactLevel, NumbersOf
<1>3. Numbers(current') \subseteq Numbers(current)
  BY <1>1, <1>2, MovedNumbers DEF DataInv, VersionInv, Holds
<1>4. OutputsPending' = OutputsPending
  BY <1>1 DEF OutputsPending
<1>5. LiveFilesOnDisk'
  BY <1>1, <1>3, <1>4 DEF FileInv, LiveFilesOnDisk
<1> QED
  BY <1>1, <1>4, <1>5 DEF FileInv

\* The numbers of a compaction's outputs after a turn of its loop.
LEMMA TurnNumbers ==
  ASSUME DataInv, NEW e, Turn(e)
  PROVE  \/ OutputsPending' \subseteq OutputsPending /\ UNCHANGED <<disk, next_file, pending_outputs>>
         \/ /\ OutputsPending' \subseteq OutputsPending \cup {next_file}
            /\ next_file' = next_file + 1
            /\ pending_outputs' = pending_outputs \cup {next_file}
            /\ disk' = disk \cup {next_file}
<1> DEFINE outs == compaction.outputs
           new == [number |-> next_file, entries |-> {e}]
<1>1. outs \in Seq(Table) /\ (compaction.open => Len(outs) > 0)
  BY DEF Turn, DataInv, JobInv, Written
<1>2. DOMAIN outs = 1..Len(outs) /\ Len(outs) \in Nat
  BY <1>1
<1> HIDE DEF new
<1>3. CASE /\ compaction'.outputs = outs
           /\ UNCHANGED <<disk, next_file, pending_outputs>>
  BY <1>3 DEF OutputsPending
<1>4. CASE /\ compaction'.outputs = Extended(outs, e) /\ compaction.open
           /\ UNCHANGED <<disk, next_file, pending_outputs>>
  <2>1. /\ DOMAIN compaction'.outputs = DOMAIN outs
        /\ \A i \in DOMAIN outs : compaction'.outputs[i].number = outs[i].number
    BY <1>1, <1>2, <1>4 DEF Extended
  <2>2. OutputsPending' = OutputsPending
    BY <2>1 DEF OutputsPending
  <2> QED
    BY <1>4, <2>2
<1>5. CASE /\ compaction'.outputs = Append(outs, new)
           /\ next_file' = next_file + 1
           /\ pending_outputs' = pending_outputs \cup {next_file}
           /\ disk' = disk \cup {next_file}
  <2>1. /\ DOMAIN compaction'.outputs = 1..(Len(outs) + 1)
        /\ \A i \in 1..(Len(outs) + 1) :
             compaction'.outputs[i] = IF i <= Len(outs) THEN outs[i] ELSE new
    <3>1. Len(Append(outs, new)) = Len(outs) + 1
      BY <1>1
    <3> QED
      BY <1>1, <1>2, <1>5, <3>1
  <2>2. \A i \in 1..(Len(outs) + 1) : i <= Len(outs) => i \in DOMAIN outs
    BY <1>2
  <2>3. new.number = next_file
    BY DEF new
  <2>4. OutputsPending' \subseteq OutputsPending \cup {next_file}
    BY <2>1, <2>2, <2>3 DEF OutputsPending
  <2> QED
    BY <1>5, <2>4
<1> QED
  BY <1>3, <1>4, <1>5 DEF Turn, new

\* An output takes a new number and is pending.
LEMMA TurnKeeps ==
  ASSUME DataInv, FileInv, NEW e, Turn(e)
  PROVE  FileInv'
<1>1. /\ UNCHANGED <<current, held, flush>> /\ flush = 0 /\ Under(compaction)
      /\ compaction'.version = compaction.version
  BY DEF Turn, SamePlan
<1>2. \/ OutputsPending' \subseteq OutputsPending /\ UNCHANGED <<disk, next_file, pending_outputs>>
      \/ /\ OutputsPending' \subseteq OutputsPending \cup {next_file}
         /\ next_file' = next_file + 1
         /\ pending_outputs' = pending_outputs \cup {next_file}
         /\ disk' = disk \cup {next_file}
  BY TurnNumbers
<1>3. LiveFilesOnDisk'
  BY <1>1, <1>2 DEF FileInv, LiveFilesOnDisk
<1>4. OutputsPending' \subseteq pending_outputs'
  BY <1>1, <1>2 DEF FileInv
<1>5. /\ next_file' \in Nat \ {0} /\ flush' \in 0..(next_file' - 1)
      /\ disk' \subseteq 1..(next_file' - 1)
      /\ pending_outputs' \subseteq 1..(next_file' - 1)
  <2>1. /\ next_file \in Nat \ {0} /\ disk \subseteq 1..(next_file - 1)
        /\ pending_outputs \subseteq 1..(next_file - 1)
    BY DEF FileInv
  <2>2. \A S : S \subseteq 1..(next_file - 1) =>
                S \cup {next_file} \subseteq 1..(next_file + 1 - 1)
    BY <2>1
  <2>3. next_file' \in Nat \ {0} /\ flush' = 0
    BY <1>1, <1>2, <2>1
  <2>4. /\ disk' \subseteq 1..(next_file' - 1)
        /\ pending_outputs' \subseteq 1..(next_file' - 1)
    <3>1. CASE UNCHANGED <<disk, next_file, pending_outputs>>
      BY <2>1, <3>1
    <3>2. CASE /\ next_file' = next_file + 1
               /\ pending_outputs' = pending_outputs \cup {next_file}
               /\ disk' = disk \cup {next_file}
      BY <2>1, <2>2, <3>2
    <3> QED
      BY <1>2, <3>1, <3>2
  <2>5. flush' \in 0..(next_file' - 1)
    <3>1. \A n \in Nat \ {0} : 0 \in 0..(n - 1)
      OBVIOUS
    <3> QED
      BY <2>3, <3>1
  <2> QED
    BY <2>3, <2>4, <2>5
<1> QED
  BY <1>1, <1>3, <1>4, <1>5 DEF FileInv

\* The outputs are installed and their inputs removed, unless a reader's
\* version still has them.
LEMMA InstallKeeps ==
  ASSUME DataInv, FileInv, InstallCompactionResults
  PROVE  FileInv'
<1>1. InstallStep
  BY InstallShape
<1>2. PICK pending : pending = pending_outputs \ OutputsPending
  OBVIOUS
<1>3. /\ compaction' = NoCompaction /\ pending_outputs' = pending
      /\ disk' = DeleteObsoleteFiles(disk, {current'} \cup
                    UNION {held[r] : r \in Readers}, pending)
      /\ UNCHANGED <<held, next_file, flush>> /\ flush = 0
      /\ Under(compaction)
  BY <1>2 DEF InstallCompactionResults, LogAndApply, clientVars, Under
<1>4. {f.number : f \in OutputSet(compaction)} = OutputsPending
  <2>1. DOMAIN compaction.outputs = 1..Len(compaction.outputs)
    BY <1>3 DEF DataInv, JobInv, Written
  <2> QED
    BY <2>1 DEF OutputSet, OutputsPending
<1>5. Numbers(current') \subseteq Numbers(current) \cup OutputsPending
  BY <1>1, <1>4, MovedNumbers DEF InstallStep, MovePlan, DataInv, VersionInv, Holds
<1>6. Numbers(current') \subseteq disk
  BY <1>3, <1>5 DEF FileInv, LiveFilesOnDisk
<1>7. ~Under(compaction')
  BY <1>3, NoneUnder
<1>8. LiveFilesOnDisk'
  <2>1. Numbers(current') \subseteq disk'
    BY <1>3, <1>6, Removal
  <2>2. ASSUME NEW r \in Readers, NEW v \in held[r] PROVE Numbers(v) \subseteq disk'
    <3>1. v \in UNION {held[q] : q \in Readers} /\ Numbers(v) \subseteq disk
      BY DEF FileInv, LiveFilesOnDisk
    <3> QED
      BY <1>3, <3>1, Removal
  <2> QED
    BY <1>3, <1>7, <2>1, <2>2 DEF LiveFilesOnDisk
<1>9. disk' \subseteq disk
  BY <1>3, Removal
<1> QED
  BY <1>2, <1>3, <1>7, <1>8, <1>9 DEF FileInv

\* A compaction that fails leaves its outputs to a later removal.
LEMMA CompactionFailsKeeps ==
  ASSUME FileInv, CompactionFails
  PROVE  FileInv'
<1>1. /\ UNCHANGED <<current, held, disk, next_file, flush>> /\ flush = 0
      /\ compaction' = NoCompaction /\ pending_outputs' \subseteq pending_outputs
  BY DEF CompactionFails, clientVars
<1>2. ~Under(compaction')
  BY <1>1 DEF Under, NoCompaction
<1>3. LiveFilesOnDisk'
  BY <1>1, <1>2 DEF FileInv, LiveFilesOnDisk
<1> QED
  BY <1>1, <1>2, <1>3 DEF FileInv

-----------------------------------------------------------------------------
\* A new database has no table.
LEMMA FileInvInit == Init => FileInv
<1> SUFFICES ASSUME Init PROVE FileInv
  OBVIOUS
<1> USE DEF Init
<1>1. ~Under(compaction)
  BY DEF Under, NoCompaction
<1>2. Numbers(current) = {}
  BY DEF Numbers
<1>3. LiveFilesOnDisk
  BY <1>1, <1>2 DEF LiveFilesOnDisk
<1> QED
  BY <1>1, <1>3 DEF FileInv

\* Every step keeps the invariant.
LEMMA FileInvStep == DataInv /\ FileInv /\ [Next]_vars => FileInv'
<1> SUFFICES ASSUME DataInv, FileInv, [Next]_vars PROVE FileInv'
  OBVIOUS
<1>0. flush # 0 => has_imm
  BY DEF FileInv
<1>1. CASE UNCHANGED vars
  BY <1>1, ClientKeeps DEF vars, memVars, clientVars, versionVars
<1>2. CASE \/ \E k \in Keys, t \in ValueTypes : Write(k, t)
           \/ MakeRoomForWrite \/ GetSnapshot
           \/ \E s \in snapshots : ReleaseSnapshot(s)
           \/ \E range \in Ranges : CompactRange(range)
           \/ CompactMemTableCall \/ CompactMemTableReturns
           \/ ManualRound \/ ManualEnds \/ WriteSyncFails
  <2>1. UNCHANGED <<current, disk, next_file, pending_outputs, held, flush, compaction>>
    BY <1>2 DEF Write, MakeRoomForWrite, GetSnapshot, ReleaseSnapshot, CompactRange,
       CompactMemTableCall, CompactMemTableReturns, ManualRound, ManualEnds,
       WriteSyncFails, clientVars, versionVars
  <2>2. has_imm => UNCHANGED <<imm, has_imm>>
    BY <1>2 DEF Write, MakeRoomForWrite, GetSnapshot, ReleaseSnapshot, CompactRange,
       CompactMemTableCall, CompactMemTableReturns, ManualRound, ManualEnds,
       WriteSyncFails, SwitchMemTable, memVars
  <2> QED
    BY <1>0, <2>1, <2>2, ClientKeeps
<1>3. ASSUME NEW r \in Readers, BeginRead(r) \/ EndRead(r)
      PROVE  FileInv'
  <2>1. \E hold \in {{current}, {}} : held' = [held EXCEPT ![r] = hold]
    BY <1>3 DEF BeginRead, EndRead
  <2>2. UNCHANGED <<current, disk, next_file, pending_outputs, flush, compaction,
                    imm, has_imm>>
    BY <1>3 DEF BeginRead, EndRead, memVars, versionVars
  <2> QED
    BY <2>1, <2>2, ReaderKeeps
<1>4. CASE BeginFlush \/ EndFlush \/ FlushFails
  BY <1>4, BeginFlushKeeps, EndFlushKeeps, FlushFailsKeeps
<1>5. CASE BeginManual \/ InstallCompactionResults \/ CompactionFails
  BY <1>5, BeginManualKeeps, InstallKeeps, CompactionFailsKeeps
<1>6. ASSUME NEW l \in CompactLevels, NEW f \in current[l],
             BeginCompaction(l, f) \/ TrivialMove(l, f)
      PROVE  FileInv'
  BY <1>6, BeginCompactionKeeps, TrivialShape, TrivialMoveKeeps
<1>7. CASE DoCompactionWork
  <2>1. PICK e : Turn(e)
    BY <1>7, TurnShape DEF DataInv
  <2> QED
    BY <2>1, TurnKeeps
<1> QED
  BY <1>1, <1>2, <1>3, <1>4, <1>5, <1>6, <1>7 DEF Next

\* DeleteObsoleteFiles never removes a table of the current version, of a
\* version a reader holds, or of the compaction under way, however flushes,
\* compactions, readers and failures interleave.
THEOREM NoFileInUseRemoved == Spec => []LiveFilesOnDisk
<1>1. FileInv => LiveFilesOnDisk
  BY DEF FileInv
<1> QED
  BY <1>1, DataInvInit, DataInvStep, FileInvInit, FileInvStep, PTL DEF Spec

\* The variables keep their types, and every file of the current version is on
\* disk and holds entries that were written.
THEOREM Typed == Spec => []TypeOK
<1>1. DataInv /\ FileInv => TypeOK
  <2> SUFFICES ASSUME DataInv, FileInv PROVE TypeOK
    OBVIOUS
  <2>1. /\ options \in Settings /\ has_imm \in BOOLEAN /\ bg_error \in BOOLEAN
        /\ last_sequence \in 0..MaxSequence /\ snapshots \subseteq 0..last_sequence
        /\ history \subseteq Entry /\ mem \subseteq history /\ imm \subseteq history
    BY DEF DataInv, MemInv, Distinct
  <2>2. /\ DOMAIN current = Levels
        /\ \A l \in Levels : \A f \in current[l] :
             f.entries # {} /\ f.entries \subseteq history
    BY DEF DataInv, VersionInv, Holds
  <2>3. \A l \in Levels : \A f \in current[l] : f.number \in disk
    BY NumbersOf DEF FileInv, LiveFilesOnDisk
  <2>4. disk \subseteq 1..(next_file - 1) /\ pending_outputs \subseteq 1..(next_file - 1)
    BY DEF FileInv
  <2> QED
    BY <2>1, <2>2, <2>3, <2>4 DEF TypeOK
<1> QED
  BY <1>1, DataInvInit, DataInvStep, FileInvInit, FileInvStep, PTL DEF Spec

-----------------------------------------------------------------------------
(* What is visible is kept.                                                *)

\* Entry x is the value that a reader at sequence number s has to find.
VisibleAt(entries, x, s) ==
  /\ x \in entries /\ x.type = "value" /\ x.seq <= s
  /\ \A d \in entries : d.key = x.key /\ d.seq <= s => d.seq <= x.seq

Kept(entries, taken, stored) ==
  \A s \in taken : \A x : VisibleAt(entries, x, s) => x \in stored

\* VisibleKept, entry by entry.
LEMMA KeptOf ==
  ASSUME NEW entries, entries \subseteq Entry, NEW taken, NEW stored
  PROVE  Kept(entries, taken, stored) <=>
           \A k \in Keys : \A s \in taken : Found(Newest(entries, k, s)) \subseteq stored
<1>1. ASSUME NEW k \in Keys, NEW s, NEW x
      PROVE  x \in Found(Newest(entries, k, s)) <=> VisibleAt(entries, x, s) /\ x.key = k
  BY DEF Found, Newest, VisibleAt
<1>2. ASSUME NEW s, NEW x, VisibleAt(entries, x, s) PROVE x.key \in Keys
  BY <1>2, EntryFields DEF VisibleAt
<1>3. ASSUME \A k \in Keys : \A s \in taken : Found(Newest(entries, k, s)) \subseteq stored,
             NEW s \in taken, NEW x, VisibleAt(entries, x, s)
      PROVE  x \in stored
  <2>1. x.key \in Keys
    BY <1>2, <1>3
  <2>2. x \in Found(Newest(entries, x.key, s))
    BY <1>1, <1>3, <2>1
  <2> QED
    BY <1>3, <2>1, <2>2
<1>4. ASSUME Kept(entries, taken, stored)
      PROVE  \A k \in Keys : \A s \in taken : Found(Newest(entries, k, s)) \subseteq stored
  BY <1>1, <1>4 DEF Kept
<1> QED
  BY <1>3, <1>4 DEF Kept

Taken == snapshots \cup {last_sequence}

\* VisibleKept, for the state of the database.
LEMMA VisibleKeptOf ==
  ASSUME DataInv
  PROVE  VisibleKept <=> Kept(history, Taken, Stored)
<1>1. history \subseteq Entry
  BY DEF DataInv, MemInv, Distinct
<1> QED
  BY <1>1, KeptOf DEF VisibleKept, Taken

\* The same after a step.
LEMMA VisibleKeptNext ==
  ASSUME DataInv'
  PROVE  VisibleKept' <=> Kept(history', Taken', Stored')
<1>1. history' \subseteq Entry
  BY DEF DataInv, MemInv, Distinct
<1> QED
  BY <1>1, KeptOf DEF VisibleKept, Taken

\* A step that writes nothing, takes no snapshot but of now, and loses only
\* entries no reader has to find.
LEMMA StoredKeeps ==
  ASSUME DataInv, DataInv', VisibleKept,
         UNCHANGED <<last_sequence, history>>,
         snapshots' \subseteq snapshots \cup {last_sequence},
         \A s \in Taken : \A x \in Stored : VisibleAt(history, x, s) => x \in Stored'
  PROVE  VisibleKept'
<1>1. Kept(history, Taken, Stored)
  BY VisibleKeptOf
<1>2. Taken' \subseteq Taken
  BY DEF Taken
<1>3. Kept(history', Taken', Stored')
  BY <1>1, <1>2 DEF Kept
<1> QED
  BY <1>3, VisibleKeptNext

\* What the levels hold after the edit of a compaction.
LEMMA MovedEntries ==
  ASSUME NEW v, DOMAIN v = Levels, NEW level \in CompactLevels, NEW in0, NEW in1, NEW outs,
         NEW w, w = Moved(v, level, in0, in1, outs)
  PROVE  /\ EntriesOf(outs) \subseteq LevelEntries(w)
         /\ \A e \in LevelEntries(v) : e \in LevelEntries(w) \/ e \in EntriesOf(in0 \cup in1)
<1>1. /\ w[level] = v[level] \ in0 /\ w[level + 1] = (v[level + 1] \ in1) \cup outs
      /\ \A l \in Levels : l # level /\ l # level + 1 => w[l] = v[l]
      /\ level + 1 \in Levels
  BY MovedLevels, CompactLevel
<1>2. \A l \in Levels : \A f \in v[l] : f \in w[l] \/ f \in in0 \cup in1
  BY <1>1
<1>3. outs \subseteq w[level + 1]
  BY <1>1
<1>4. EntriesOf(outs) \subseteq LevelEntries(w)
  BY <1>1, <1>3, LevelEntriesOf DEF EntriesOf
<1>5. ASSUME NEW e \in LevelEntries(v), e \notin LevelEntries(w)
      PROVE  e \in EntriesOf(in0 \cup in1)
  <2>1. PICK l \in Levels : \E f \in v[l] : e \in f.entries
    BY <1>5, LevelEntriesOf
  <2>2. PICK f \in v[l] : e \in f.entries
    BY <2>1
  <2>3. f \notin w[l]
    BY <1>5, <2>2, LevelEntriesOf
  <2> QED
    BY <1>2, <2>2, <2>3 DEF EntriesOf
<1> QED
  BY <1>4, <1>5

\* Stored, in terms of the entries of the levels.
LEMMA StoredOf ==
  /\ Stored = mem \cup imm \cup LevelEntries(current)
  /\ Stored' = mem' \cup imm' \cup LevelEntries(current')
  BY DEF Stored, LevelEntries

\* What a compaction drops, no reader has to find.
LEMMA DroppedHidden ==
  ASSUME NEW c, NEW entries, Inputs(c) \subseteq entries, entries \subseteq Entry,
         NEW s \in Nat, c.smallest_snapshot \in Nat, c.smallest_snapshot <= s,
         NEW x \in entries, Dropped(c, x)
  PROVE  ~VisibleAt(entries, x, s)
<1> SUFFICES ASSUME VisibleAt(entries, x, s) PROVE FALSE
  OBVIOUS
<1>1. x.type = "value" /\ \A d \in entries : d.key = x.key /\ d.seq <= s => d.seq <= x.seq
  BY DEF VisibleAt
<1>2. PICK d \in Inputs(c) : d.key = x.key /\ d.seq > x.seq /\ d.seq <= c.smallest_snapshot
  BY <1>1 DEF Dropped
<1>3. d \in entries /\ d.seq \in Nat /\ x.seq \in Nat
  BY EntryFields
<1>4. d.seq <= s
  BY <1>2, <1>3
<1> QED
  BY <1>1, <1>2, <1>3, <1>4

\* Installing a compaction's outputs loses nothing visible.
LEMMA InstallKept ==
  ASSUME DataInv, DataInv', VisibleKept, InstallStep
  PROVE  VisibleKept'
<1> DEFINE c == compaction
<1>1. /\ Under(c) /\ c.rest = {} /\ c.level \in CompactLevels
      /\ current' = Moved(current, c.level, c.inputs0, c.inputs1, OutputSet(c))
      /\ UNCHANGED <<last_sequence, history, mem, imm, snapshots>>
  BY DEF InstallStep, MovePlan
<1>2. /\ Plan(c, current) /\ Written(c)
      /\ Oldest(c, snapshots, last_sequence, options.snapshots)
  BY <1>1 DEF DataInv, JobInv
<1>3. Inputs(c) \subseteq history /\ history \subseteq Entry
  BY <1>2, PlanInputs DEF DataInv, MemInv, VersionInv, Distinct
<1>4. /\ EntriesOf(OutputSet(c)) \subseteq LevelEntries(current')
      /\ \A e \in LevelEntries(current) :
           e \in LevelEntries(current') \/ e \in EntriesOf(c.inputs0 \cup c.inputs1)
  <2>1. DOMAIN current = Levels
    BY DEF DataInv, VersionInv, Holds
  <2> QED
    BY <1>1, <2>1, MovedEntries
<1>5. \A e \in Inputs(c) : e \in LevelEntries(current') \/ Dropped(c, e)
  <2>1. \A e \in Inputs(c) : Dropped(c, e) \/ \E i \in 1..Len(c.outputs) : e \in c.outputs[i].entries
    BY <1>1, <1>2 DEF Written
  <2>2. \A i \in 1..Len(c.outputs) : c.outputs[i].entries \subseteq EntriesOf(OutputSet(c))
    BY DEF OutputSet, EntriesOf
  <2> QED
    BY <1>4, <2>1, <2>2
<1>6. ASSUME NEW s \in Taken, NEW x \in Stored,
             VisibleAt(history, x, s), x \notin Stored'
      PROVE  FALSE
  <2>1. x \in LevelEntries(current) /\ x \notin LevelEntries(current')
    BY <1>1, <1>6, StoredOf
  <2>2. x \in Inputs(c)
    BY <1>4, <2>1 DEF Inputs
  <2>3. Dropped(c, x)
    BY <1>5, <2>1, <2>2
  <2>4. s \in Nat /\ c.smallest_snapshot \in Nat /\ c.smallest_snapshot <= s
    <3>1. last_sequence \in Nat /\ snapshots \subseteq 0..last_sequence
      BY DEF DataInv, MemInv
    <3>2. /\ c.smallest_snapshot \in 0..last_sequence
          /\ \A t \in snapshots : c.smallest_snapshot <= t
      BY <1>2 DEF Oldest
    <3> QED
      BY <3>1, <3>2 DEF Taken
  <2> QED
    BY <1>3, <1>6, <2>2, <2>3, <2>4, DroppedHidden
<1> QED
  BY <1>1, <1>6, StoredKeeps

\* A trivial move loses nothing.
LEMMA TrivialKept ==
  ASSUME DataInv, DataInv', VisibleKept, NEW level, NEW c, TrivialStep(level, c)
  PROVE  VisibleKept'
<1>1. /\ level \in CompactLevels
      /\ current' = Moved(current, level, c.inputs0, {}, c.inputs0)
      /\ UNCHANGED <<last_sequence, history, mem, imm, snapshots>>
  BY DEF TrivialStep, MovePlan
<1>2. /\ EntriesOf(c.inputs0) \subseteq LevelEntries(current')
      /\ \A e \in LevelEntries(current) :
           e \in LevelEntries(current') \/ e \in EntriesOf(c.inputs0 \cup {})
  BY <1>1, MovedEntries DEF DataInv, VersionInv, Holds
<1>3. EntriesOf(c.inputs0 \cup {}) = EntriesOf(c.inputs0)
  BY DEF EntriesOf
<1>4. Stored \subseteq Stored'
  BY <1>1, <1>2, <1>3, StoredOf
<1> QED
  BY <1>1, <1>4, StoredKeeps

\* A flush loses nothing: its table is in the version before imm_ goes.
LEMMA FlushKept ==
  ASSUME DataInv, DataInv', VisibleKept, FlushStep
  PROVE  VisibleKept'
<1>1. UNCHANGED <<last_sequence, history, mem, snapshots>> /\ imm' = {}
  BY DEF FlushStep
<1>2. LevelEntries(current) \cup imm \subseteq LevelEntries(current')
  <2>1. CASE imm = {} /\ current' = current
    BY <2>1
  <2>2. CASE imm # {}
    <3>1. PICK level : \E f \in {[number |-> flush, entries |-> imm]} :
            Placed(current, f, level) /\ current' = Flushed(current, f, level)
      BY <2>2 DEF FlushStep
    <3>2. PICK f \in {[number |-> flush, entries |-> imm]} :
            Placed(current, f, level) /\ current' = Flushed(current, f, level)
      BY <3>1
    <3>3. /\ f.entries = imm /\ f.entries # {} /\ f.entries \subseteq history
          /\ level \in Levels /\ f \in Table
      BY <2>2, <3>2 DEF DataInv, MemInv, Placed, Distinct, Table
    <3>4. LevelEntries(current') = LevelEntries(current) \cup f.entries
      BY <3>2, <3>3, FlushedHolds DEF DataInv, VersionInv
    <3> QED
      BY <3>3, <3>4
  <2> QED
    BY <2>1, <2>2 DEF FlushStep
<1>3. Stored \subseteq Stored'
  BY <1>1, <1>2, StoredOf
<1> QED
  BY <1>1, <1>3, StoredKeeps

\* A write hides older entries at the last sequence number only.
LEMMA WriteKept ==
  ASSUME DataInv, DataInv', VisibleKept, NEW key \in Keys, NEW type \in ValueTypes, Write(key, type)
  PROVE  VisibleKept'
<1>1. PICK e : e = [key |-> key, seq |-> last_sequence + 1, type |-> type]
  OBVIOUS
<1>2. /\ mem' = mem \cup {e} /\ history' = history \cup {e}
      /\ last_sequence' = last_sequence + 1
      /\ UNCHANGED <<snapshots, imm, current>>
  BY <1>1 DEF Write, clientVars, versionVars
<1>3. e.seq = last_sequence + 1
  BY <1>1
<1>4. history \subseteq Entry
  BY DEF DataInv, MemInv, Distinct
<1>5. Kept(history, Taken, Stored)
  BY VisibleKeptOf
<1>6. Stored' = Stored \cup {e}
  BY <1>2, StoredOf
<1>7. last_sequence \in Nat /\ snapshots \subseteq 0..last_sequence
      /\ \A d \in history : d.seq <= last_sequence /\ d.seq \in Nat
  BY <1>4, EntryFields DEF DataInv, MemInv
<1>8. ASSUME NEW s \in Taken', NEW x, VisibleAt(history', x, s)
      PROVE  x \in Stored'
  <2>1. CASE x = e
    BY <1>6, <2>1
  <2>2. CASE x # e
    <3>1. /\ x \in history /\ x.type = "value" /\ x.seq <= s
          /\ \A d \in history : d.key = x.key /\ d.seq <= s => d.seq <= x.seq
      BY <1>2, <1>8, <2>2 DEF VisibleAt
    <3>2. s \in snapshots => VisibleAt(history, x, s)
      BY <3>1 DEF VisibleAt
    <3>3. s = last_sequence + 1 => VisibleAt(history, x, last_sequence)
      BY <1>7, <3>1 DEF VisibleAt
    <3> QED
      BY <1>2, <1>5, <1>6, <3>2, <3>3 DEF Kept, Taken
  <2> QED
    BY <2>1, <2>2
<1> QED
  BY <1>8, VisibleKeptNext DEF Kept

\* Every step keeps what is visible.
LEMMA VisibleStep == DataInv /\ VisibleKept /\ [Next]_vars => VisibleKept'
<1> SUFFICES ASSUME DataInv, DataInv', VisibleKept, [Next]_vars PROVE VisibleKept'
  BY DataInvStep
<1>1. CASE UNCHANGED vars
  BY <1>1, StoredKeeps DEF vars, memVars, clientVars, versionVars, Stored
<1>2. ASSUME NEW k \in Keys, NEW t \in ValueTypes, Write(k, t) PROVE VisibleKept'
  BY <1>2, WriteKept
<1>3. CASE MakeRoomForWrite \/ CompactMemTableCall
  <2>1. UNCHANGED <<last_sequence, history, snapshots, current>>
    BY <1>3 DEF MakeRoomForWrite, CompactMemTableCall, clientVars, versionVars
  <2>2. SwitchMemTable \/ UNCHANGED <<mem, imm>>
    BY <1>3 DEF MakeRoomForWrite, CompactMemTableCall
  <2>3. SwitchMemTable => imm = {}
    BY DEF SwitchMemTable, DataInv, MemInv
  <2>4. Stored \subseteq Stored'
    BY <2>1, <2>2, <2>3 DEF SwitchMemTable, Stored
  <2> QED
    BY <2>1, <2>4, StoredKeeps
<1>4. CASE \/ GetSnapshot \/ \E s \in snapshots : ReleaseSnapshot(s)
           \/ \E r \in Readers : BeginRead(r) \/ EndRead(r)
           \/ \E range \in Ranges : CompactRange(range)
           \/ CompactMemTableReturns \/ ManualRound \/ ManualEnds
  <2>1. /\ UNCHANGED <<last_sequence, history, mem, imm, current>>
        /\ snapshots' \subseteq snapshots \cup {last_sequence}
    BY <1>4 DEF GetSnapshot, ReleaseSnapshot, BeginRead, EndRead, CompactRange,
       CompactMemTableReturns, ManualRound, ManualEnds, memVars, clientVars, versionVars
  <2> QED
    BY <2>1, StoredKeeps DEF Stored
<1>5. CASE WriteSyncFails \/ BeginFlush \/ FlushFails \/ BeginManual \/ CompactionFails
  <2>1. UNCHANGED <<last_sequence, history, mem, imm, current, snapshots>>
    BY <1>5 DEF WriteSyncFails, BeginFlush, FlushFails, BeginManual, CompactionFails,
       memVars, clientVars, versionVars
  <2> QED
    BY <2>1, StoredKeeps DEF Stored
<1>6. CASE EndFlush
  BY <1>6, FlushShape, FlushKept
<1>7. ASSUME NEW l \in CompactLevels, NEW f \in current[l],
             BeginCompaction(l, f) \/ TrivialMove(l, f)
      PROVE  VisibleKept'
  <2>1. CASE BeginCompaction(l, f)
    <3>1. UNCHANGED <<last_sequence, history, mem, imm, current, snapshots>>
      BY <2>1 DEF BeginCompaction, memVars, clientVars
    <3> QED
      BY <3>1, StoredKeeps DEF Stored
  <2>2. CASE TrivialMove(l, f)
    BY <2>2, TrivialShape, TrivialKept
  <2> QED
    BY <1>7, <2>1, <2>2
<1>8. CASE DoCompactionWork
  <2>1. PICK e : Turn(e)
    BY <1>8, TurnShape DEF DataInv
  <2>2. UNCHANGED <<last_sequence, history, mem, imm, current, snapshots>>
    BY <2>1 DEF Turn
  <2> QED
    BY <2>2, StoredKeeps DEF Stored
<1>9. CASE InstallCompactionResults
  BY <1>9, InstallShape, InstallKept
<1> QED
  BY <1>1, <1>2, <1>3, <1>4, <1>5, <1>6, <1>7, <1>8, <1>9 DEF Next

\* The newest value of every key, as of now and as of every live snapshot, is
\* in a memtable or in a table, however writes, snapshots, flushes and
\* compactions interleave: DoCompactionWork drops nothing a reader has to find.
THEOREM NothingVisibleLost == Spec => []VisibleKept
<1>1. Init => VisibleKept
  BY DEF Init, VisibleKept, Found, Newest
<1> QED
  BY <1>1, DataInvInit, DataInvStep, VisibleStep, PTL DEF Spec

-----------------------------------------------------------------------------
(* How a compaction's inputs lie among the other files when it starts.     *)

\* All of the next level that overlaps the inputs comes along, and in level 0
\* every file that has a key of theirs.
Chosen(c, v) ==
  /\ c.level \in CompactLevels
  /\ c.inputs0 \subseteq v[c.level] /\ c.inputs0 # {}
  /\ c.inputs1 \subseteq v[c.level + 1]
  /\ \A g \in c.inputs1 : Overlaps(g, Low(c.inputs0), High(c.inputs0))
  /\ \A g \in v[c.level + 1] \ c.inputs1 : ~Overlaps(g, Low(c.inputs0), High(c.inputs0))
  /\ c.level = 0 => Closed0(v, c.inputs0)

\* SetupOtherInputs makes such a choice.
LEMMA SetupChosen ==
  ASSUME DataInv, NEW level \in CompactLevels,
         NEW files, files \subseteq current[level], files # {},
         level = 0 => Closed0(current, files),
         NEW c, c = SetupOtherInputs(level, files)
  PROVE  Chosen(c, current)
<1>1. AllProper(current)
  BY HoldsProper DEF DataInv, MemInv, VersionInv
<1>2. c.level = level
  <2>1. Fresh(c, level, current, SmallestSnapshot)
    BY SetupFields, Zenon
  <2> QED
    BY <2>1 DEF Fresh
<1>3. /\ c.inputs0 \subseteq current[level] /\ files \subseteq c.inputs0
      /\ c.inputs1 \subseteq current[level + 1]
      /\ \A g \in current[level + 1] \ c.inputs1 :
           ~Overlaps(g, Low(c.inputs0), High(c.inputs0))
      /\ level = 0 => Closed0(current, c.inputs0)
  BY <1>1, SetupPlan
<1>4. c.inputs1 = NextInputs(level, c.inputs0)
  BY SetupInputs
<1>5. \A g \in c.inputs1 : Overlaps(g, Low(c.inputs0), High(c.inputs0))
  BY <1>4, CompactLevel, Overlapping DEF NextInputs
<1> QED
  BY <1>2, <1>3, <1>5 DEF Chosen

\* BackgroundCompaction starts a compaction.
StartStep ==
  /\ Chosen(compaction', current) /\ compaction'.version = current
  /\ ~Under(compaction) /\ flush = 0
  /\ UNCHANGED <<options, last_sequence, history, mem, imm, has_imm, snapshots,
                 current, next_file, flush>>

\* A compaction for CompactRange starts this way.
LEMMA ManualStarts ==
  ASSUME DataInv, BeginManual, ManualInputs # {}
  PROVE  StartStep
<1>1. /\ ManualSet /\ ~Under(compaction) /\ flush = 0
      /\ UNCHANGED <<options, last_sequence, history, mem, imm, has_imm, snapshots,
                     current, next_file, flush>>
      /\ compaction' = [SetupOtherInputs(manual.level, ManualInputs)
                          EXCEPT !.is_manual = TRUE]
  BY DEF BeginManual, CanCompact, Start, memVars, clientVars
<1>2. /\ manual.level \in CompactLevels
      /\ manual.begin \in Keys /\ manual.end \in Keys
  BY <1>1, ManualFields DEF ManualSet, DataInv
<1>3. AllProper(current)
  BY HoldsProper DEF DataInv, MemInv, VersionInv
<1>4. /\ ManualInputs \subseteq current[manual.level]
      /\ manual.level = 0 => Closed0(current, ManualInputs)
  BY <1>2, <1>3, ManualPlan
<1>5. PICK c : c = SetupOtherInputs(manual.level, ManualInputs)
  OBVIOUS
<1>6. Chosen(c, current)
  BY <1>2, <1>4, <1>5, SetupChosen
<1>7. Fresh(c, manual.level, current, SmallestSnapshot)
  BY <1>5, SetupFields, Zenon
<1>8. /\ compaction'.level = c.level /\ compaction'.inputs0 = c.inputs0
      /\ compaction'.inputs1 = c.inputs1 /\ compaction'.version = current
  BY <1>1, <1>5, <1>7 DEF Fresh, CompactionFields
<1> QED
  BY <1>1, <1>6, <1>8 DEF StartStep, Chosen

\* PickCompaction's files, for a compaction or for a trivial move.
LEMMA PickChosen ==
  ASSUME DataInv, NEW level \in CompactLevels, NEW file \in current[level],
         NEW c, c = PickCompaction(level, file)
  PROVE  Chosen(c, current) /\ c.version = current /\ c.level = level
<1>1. PICK files : /\ files \subseteq current[level] /\ files # {}
                   /\ level = 0 => Closed0(current, files)
                   /\ c = SetupOtherInputs(level, files)
  BY PickedPlan
<1>2. Fresh(c, level, current, SmallestSnapshot)
  BY <1>1, SetupFields, Zenon
<1> QED
  BY <1>1, <1>2, SetupChosen DEF Fresh

\* And so does one that PickCompaction chose.
LEMMA CompactionStarts ==
  ASSUME DataInv, NEW level \in CompactLevels, NEW file \in current[level],
         BeginCompaction(level, file)
  PROVE  StartStep
<1>1. /\ ~Under(compaction) /\ flush = 0
      /\ UNCHANGED <<options, last_sequence, history, mem, imm, has_imm, snapshots,
                     current, next_file, flush>>
      /\ compaction' = PickCompaction(level, file)
  BY DEF BeginCompaction, CanCompact, Start, memVars, clientVars
<1>2. PICK c : c = PickCompaction(level, file)
  OBVIOUS
<1>3. Chosen(c, current) /\ c.version = current
  BY <1>2, PickChosen
<1> QED
  BY <1>1, <1>2, <1>3 DEF StartStep

-----------------------------------------------------------------------------
(* The files of a level are disjoint.                                      *)

Apart(f, g) == Precede(f.entries, g.entries) \/ Precede(g.entries, f.entries)

Ordered(v) == \A l \in Levels \ {0} : \A f, g \in v[l] : f = g \/ Apart(f, g)

\* A file of the next level that is no input lies before all inputs or after
\* them all.
Aside(v, c) ==
  \A g \in v[c.level + 1] \ c.inputs1 :
    Precede(g.entries, Inputs(c)) \/ Precede(Inputs(c), g.entries)

DisjInv ==
  ~options.manual => /\ Ordered(current)
                     /\ Under(compaction) => Aside(current, compaction)

\* Tables whose key ranges are apart are in order.
LEMMA PrecedeByKey ==
  ASSUME NEW f, Proper(f), NEW g, Proper(g), largest(f).key < smallest(g).key
  PROVE  Precede(f.entries, g.entries)
<1> SUFFICES ASSUME NEW d \in f.entries, NEW e \in g.entries PROVE d.key < e.key
  BY DEF Precede, InternalKeyLess
<1>1. /\ d.key \in Nat /\ e.key \in Nat /\ largest(f).key \in Nat /\ smallest(g).key \in Nat
      /\ d.key <= largest(f).key /\ smallest(g).key <= e.key
  BY KeyRange
<1> QED
  BY <1>1

\* A table that overlaps no other is before it or after it.
LEMMA NoOverlapApart ==
  ASSUME NEW f, Proper(f), NEW g, Proper(g),
         ~Overlaps(g, smallest(f).key, largest(f).key)
  PROVE  Apart(f, g)
  BY ApartShareNoKey, PrecedeByKey DEF Apart

\* Files that lie before a set of files, one by one, lie before its entries.
LEMMA PrecedeAll ==
  ASSUME NEW c, NEW D
  PROVE  /\ (\A h \in c.inputs0 \cup c.inputs1 : Precede(D, h.entries)) => Precede(D, Inputs(c))
         /\ (\A h \in c.inputs0 \cup c.inputs1 : Precede(h.entries, D)) => Precede(Inputs(c), D)
  BY InputsOf DEF Precede

\* When the compaction starts, every other file of the next level is aside.
LEMMA ChosenAside ==
  ASSUME NEW v, AllProper(v), Ordered(v), NEW c, Chosen(c, v)
  PROVE  Aside(v, c)
<1> DEFINE low == Low(c.inputs0)
           high == High(c.inputs0)
<1>0. c.level \in Levels /\ c.level + 1 \in Levels \ {0}
  BY CompactLevel DEF Chosen
<1>1. /\ \A f \in c.inputs0 : Proper(f)
      /\ \A f \in v[c.level + 1] : Proper(f)
  BY <1>0 DEF Chosen, AllProper
<1>2. /\ low \in Nat /\ high \in Nat
      /\ \A f \in c.inputs0 : low <= smallest(f).key /\ largest(f).key <= high
  BY <1>1, LowHigh DEF Chosen
<1> HIDE DEF low, high
<1> SUFFICES ASSUME NEW g \in v[c.level + 1] \ c.inputs1
             PROVE  Precede(g.entries, Inputs(c)) \/ Precede(Inputs(c), g.entries)
  BY DEF Aside
<1>3. Proper(g) /\ smallest(g).key \in Nat /\ largest(g).key \in Nat
      /\ smallest(g).key <= largest(g).key
  BY <1>1, KeyRange
<1>4. largest(g).key < low \/ high < smallest(g).key
  <2>1. ~Overlaps(g, low, high)
    BY DEF Chosen, low, high
  <2> QED
    BY <1>2, <1>3, <2>1 DEF Overlaps
<1>5. \A f \in c.inputs0 : /\ smallest(f).key \in Nat /\ largest(f).key \in Nat
  BY <1>1, KeyRange
<1>6. \A h \in c.inputs1 : /\ Proper(h) /\ h # g /\ Overlaps(h, low, high)
                           /\ h \in v[c.level + 1]
  BY <1>1 DEF Chosen, low, high
<1>7. \A h \in c.inputs1 : Apart(g, h)
  BY <1>0, <1>6 DEF Ordered, Apart
<1>8. CASE largest(g).key < low
  <2>1. ASSUME NEW f \in c.inputs0 PROVE Precede(g.entries, f.entries)
    BY <1>1, <1>2, <1>3, <1>5, <1>8, PrecedeByKey
  <2>2. ASSUME NEW h \in c.inputs1 PROVE Precede(g.entries, h.entries)
    <3>1. largest(h).key >= low /\ largest(h).key \in Nat /\ largest(h) \in h.entries
      BY <1>6, KeyRange DEF Overlaps
    <3>2. smallest(g) \in g.entries
      BY <1>3, KeyRange
    <3>3. ~InternalKeyLess(largest(h), smallest(g))
      BY <1>2, <1>3, <1>8, <3>1 DEF InternalKeyLess
    <3>4. ~Precede(h.entries, g.entries)
      BY <3>1, <3>2, <3>3 DEF Precede
    <3> QED
      BY <1>7, <3>4 DEF Apart
  <2> QED
    BY <2>1, <2>2, PrecedeAll
<1>9. CASE high < smallest(g).key
  <2>1. ASSUME NEW f \in c.inputs0 PROVE Precede(f.entries, g.entries)
    BY <1>1, <1>2, <1>3, <1>5, <1>9, PrecedeByKey
  <2>2. ASSUME NEW h \in c.inputs1 PROVE Precede(h.entries, g.entries)
    <3>1. smallest(h).key <= high /\ smallest(h).key \in Nat /\ smallest(h) \in h.entries
      BY <1>6, KeyRange DEF Overlaps
    <3>2. largest(g) \in g.entries
      BY <1>3, KeyRange
    <3>3. ~InternalKeyLess(largest(g), smallest(h))
      BY <1>2, <1>3, <1>9, <3>1 DEF InternalKeyLess
    <3>4. ~Precede(g.entries, h.entries)
      BY <3>1, <3>2, <3>3 DEF Precede
    <3> QED
      BY <1>7, <3>4 DEF Apart
  <2> QED
    BY <2>1, <2>2, PrecedeAll
<1> QED
  BY <1>4, <1>8, <1>9

\* A flushed table overlaps no file of its level, nor of those above, and fits
\* into no gap between a compaction's inputs.
LEMMA FlushDisjoint ==
  ASSUME DataInv, DisjInv, FlushStep
  PROVE  DisjInv'
<1> SUFFICES ASSUME ~options.manual
             PROVE  /\ Ordered(current')
                    /\ Under(compaction) => Aside(current', compaction)
  BY DEF FlushStep, DisjInv
<1>1. Ordered(current) /\ (Under(compaction) => Aside(current, compaction))
  BY DEF DisjInv
<1>2. CASE imm = {} /\ current' = current
  BY <1>1, <1>2
<1>3. CASE imm # {}
  <2>1. PICK level : \E f \in {[number |-> flush, entries |-> imm]} :
          Proper(f) /\ Placed(current, f, level) /\ current' = Flushed(current, f, level)
    BY <1>3 DEF FlushStep
  <2>2. PICK f \in {[number |-> flush, entries |-> imm]} :
          Proper(f) /\ Placed(current, f, level) /\ current' = Flushed(current, f, level)
    BY <2>1
  <2>3. AllProper(current) /\ DOMAIN current = Levels
    BY HoldsProper DEF DataInv, MemInv, VersionInv, Holds
  <2>4. level \in Levels
    BY <2>2 DEF Placed
  <2>5. \A l \in Levels : current'[l] = IF l = level THEN current[l] \cup {f} ELSE current[l]
    BY <2>2, <2>3, <2>4, FlushedLevels
  <2>6. CASE level = 0
    BY <1>1, <2>5, <2>6, CompactLevel DEF Ordered, Aside, DataInv, JobInv, Plan
  <2>7. CASE level # 0
    <3>1. \A m \in 0..level : \A g \in current[m] : ~Overlaps(g, smallest(f).key, largest(f).key)
      BY <2>2, <2>7 DEF Placed
    <3>2. level \in 0..level /\ \A m \in Levels : m <= level => m \in 0..level
      BY <2>4, Constants DEF Levels
    <3>3. \A g \in current[level] : Apart(f, g)
      BY <2>2, <2>3, <2>4, <3>1, <3>2, NoOverlapApart DEF AllProper
    <3>4. Ordered(current')
      BY <1>1, <2>5, <3>3 DEF Ordered, Apart
    <3>5. ASSUME Under(compaction) PROVE Aside(current', compaction)
      <4> DEFINE c == compaction
                 all == c.inputs0 \cup c.inputs1
      <4>1. /\ c.level \in CompactLevels
            /\ c.inputs0 \subseteq current[c.level] /\ c.inputs1 \subseteq current[c.level + 1]
            /\ Contiguous(all)
        BY <3>5 DEF DataInv, JobInv, Plan
      <4>2. /\ c.level \in Levels /\ c.level + 1 \in Levels /\ c.level + 1 > c.level
            /\ c.level \in Nat
        BY <4>1, CompactLevel
      <4>3. CASE c.level + 1 # level
        BY <1>1, <2>5, <3>5, <4>2, <4>3 DEF Aside
      <4>4. CASE c.level + 1 = level
        <5>1. c.level <= level
          BY <4>2, <4>4
        <5>2. \A h \in all : Proper(h) /\ ~Overlaps(h, smallest(f).key, largest(f).key)
          BY <2>3, <3>1, <3>2, <4>1, <4>2, <4>4, <5>1 DEF AllProper
        <5>3. \A h \in all : largest(h).key < smallest(f).key \/ largest(f).key < smallest(h).key
          BY <2>2, <5>2, ApartShareNoKey
        <5>4. /\ smallest(f).key \in Keys /\ smallest(f).key \in Nat /\ largest(f).key \in Nat
              /\ smallest(f).key <= largest(f).key
          BY <2>2, KeyRange
        <5>5. \A h \in all : smallest(h).key \in Nat /\ largest(h).key \in Nat
          BY <5>2, KeyRange
        <5>6. \A h \in all : ~Covers(h, smallest(f).key)
          BY <5>3, <5>4, <5>5 DEF Covers
        <5> HIDE DEF all
        <5>7. \/ \A h \in all : smallest(f).key < smallest(h).key
              \/ \A h \in all : largest(h).key < smallest(f).key
          BY <4>1, <5>4, <5>6 DEF Contiguous
        <5>8. \/ \A h \in all : largest(f).key < smallest(h).key
              \/ \A h \in all : largest(h).key < smallest(f).key
          <6>1. \A h \in all : smallest(h).key <= largest(h).key
            BY <5>2, KeyRange
          <6> QED
            BY <5>3, <5>4, <5>5, <5>7, <6>1
        <5>9. \/ \A h \in all : Precede(f.entries, h.entries)
              \/ \A h \in all : Precede(h.entries, f.entries)
          BY <2>2, <5>2, <5>8, PrecedeByKey
        <5>10. Precede(f.entries, Inputs(c)) \/ Precede(Inputs(c), f.entries)
          BY <5>9, PrecedeAll DEF all
        <5> QED
          BY <1>1, <2>5, <3>5, <4>2, <5>10 DEF Aside
      <4> QED
        BY <4>3, <4>4
    <3> QED
      BY <3>4, <3>5
  <2> QED
    BY <2>6, <2>7
<1> QED
  BY <1>2, <1>3 DEF FlushStep

\* A version in which outputs, in order, have taken the place of their inputs.
LEMMA MovedOrdered ==
  ASSUME NEW v, DOMAIN v = Levels, Ordered(v), NEW level \in CompactLevels,
         NEW in0, NEW in1, NEW outs,
         \A f, g \in outs : f = g \/ Apart(f, g),
         \A f \in outs, g \in v[level + 1] \ in1 : Apart(f, g),
         NEW w, w = Moved(v, level, in0, in1, outs)
  PROVE  Ordered(w)
<1>1. /\ w[level] = v[level] \ in0 /\ w[level + 1] = (v[level + 1] \ in1) \cup outs
      /\ \A l \in Levels : l # level /\ l # level + 1 => w[l] = v[l]
      /\ level + 1 \in Levels
  BY MovedLevels, CompactLevel
<1>2. ASSUME NEW l \in Levels \ {0}, NEW f \in w[l], NEW g \in w[l], f # g
      PROVE  Apart(f, g)
  <2>1. CASE f \in v[l] /\ g \in v[l]
    BY <1>2, <2>1 DEF Ordered
  <2>2. CASE f \notin v[l] \/ g \notin v[l]
    <3>1. l = level + 1
      BY <1>1, <1>2, <2>2
    <3> QED
      BY <1>1, <1>2, <2>2, <3>1 DEF Apart
  <2> QED
    BY <2>1, <2>2
<1> QED
  BY <1>2 DEF Ordered

\* Installing a compaction's outputs keeps the levels disjoint.
LEMMA InstallDisjoint ==
  ASSUME DataInv, DisjInv, InstallStep
  PROVE  DisjInv'
<1> DEFINE c == compaction
<1>1. /\ Under(c) /\ c.level \in CompactLevels
      /\ current' = Moved(current, c.level, c.inputs0, c.inputs1, OutputSet(c))
      /\ UNCHANGED options /\ compaction' = NoCompaction
  BY DEF InstallStep, MovePlan
<1> SUFFICES ASSUME ~options.manual PROVE Ordered(current')
  BY <1>1, NoneUnder DEF DisjInv
<1>2. Ordered(current) /\ Aside(current, c) /\ Written(c)
  BY <1>1 DEF DisjInv, DataInv, JobInv
<1>3. ASSUME NEW f \in OutputSet(c), NEW g \in OutputSet(c), f # g PROVE Apart(f, g)
  <2>1. PICK i \in 1..Len(c.outputs) : f = c.outputs[i]
    BY DEF OutputSet
  <2>2. PICK j \in 1..Len(c.outputs) : g = c.outputs[j]
    BY DEF OutputSet
  <2>3. i < j \/ j < i
    BY <1>3, <2>1, <2>2
  <2>4. \A p, q \in 1..Len(c.outputs) :
          p < q => Precede(c.outputs[p].entries, c.outputs[q].entries)
    BY <1>2 DEF Written
  <2> QED
    BY <2>1, <2>2, <2>3, <2>4 DEF Apart
<1>4. ASSUME NEW f \in OutputSet(c), NEW g \in current[c.level + 1] \ c.inputs1
      PROVE  Apart(f, g)
  <2>1. f.entries \subseteq Inputs(c)
    BY <1>2 DEF Written, OutputSet
  <2>2. Precede(g.entries, Inputs(c)) \/ Precede(Inputs(c), g.entries)
    BY <1>2 DEF Aside
  <2> QED
    BY <2>1, <2>2 DEF Apart, Precede
<1>5. DOMAIN current = Levels
  BY DEF DataInv, VersionInv, Holds
<1> QED
  BY <1>1, <1>2, <1>3, <1>4, <1>5, MovedOrdered

\* One file at a time is moved, or files that were in order already.
LEMMA OneInput ==
  ASSUME NEW S, IsFiniteSet(S), NEW T, T \subseteq S, Cardinality(T) = 1, NEW f \in T, NEW g \in T
  PROVE  f = g
<1>1. IsFiniteSet(T)
  BY FS_Subset
<1>2. PICK x : T = {x}
  BY <1>1, FS_Singleton
<1> QED
  BY <1>2

\* A trivial move keeps the levels disjoint.
LEMMA TrivialDisjoint ==
  ASSUME DataInv, DisjInv, NEW level, NEW c, TrivialStep(level, c),
         Chosen(c, current), c.level = level
  PROVE  DisjInv'
<1>1. /\ level \in CompactLevels /\ c.inputs0 \subseteq current[level]
      /\ current' = Moved(current, level, c.inputs0, {}, c.inputs0)
      /\ UNCHANGED <<options, compaction>> /\ ~Under(compaction)
      /\ Cardinality(c.inputs0) = 1 /\ c.inputs1 = {}
  BY DEF TrivialStep, MovePlan
<1> SUFFICES ASSUME ~options.manual PROVE Ordered(current')
  BY <1>1 DEF DisjInv
<1>2. Ordered(current)
  BY DEF DisjInv
<1>3. AllProper(current) /\ DOMAIN current = Levels /\ IsFiniteSet(current[0])
  BY HoldsProper DEF DataInv, MemInv, VersionInv, Holds
<1>4. Aside(current, c)
  BY <1>2, <1>3, ChosenAside
<1>5. ASSUME NEW f \in c.inputs0, NEW g \in c.inputs0 PROVE f = g \/ Apart(f, g)
  <2>1. CASE level = 0
    BY <1>1, <1>3, <1>5, <2>1, OneInput
  <2>2. CASE level # 0
    BY <1>1, <1>2, <1>5, <2>2, CompactLevel DEF Ordered
  <2> QED
    BY <2>1, <2>2
<1>6. ASSUME NEW f \in c.inputs0, NEW g \in current[level + 1] \ {} PROVE Apart(f, g)
  <2>1. f.entries \subseteq Inputs(c)
    BY InputsOf
  <2>2. Precede(g.entries, Inputs(c)) \/ Precede(Inputs(c), g.entries)
    BY <1>1, <1>4 DEF Aside
  <2> QED
    BY <2>1, <2>2 DEF Apart, Precede
<1> QED
  BY <1>1, <1>2, <1>3, <1>5, <1>6, MovedOrdered

\* When a compaction starts, the next level's other files are aside.
LEMMA StartDisjoint ==
  ASSUME DataInv, DisjInv, StartStep
  PROVE  DisjInv'
<1>1. UNCHANGED <<options, current>> /\ Chosen(compaction', current)
  BY DEF StartStep
<1>2. AllProper(current)
  BY HoldsProper DEF DataInv, MemInv, VersionInv
<1> QED
  BY <1>1, <1>2, ChosenAside DEF DisjInv

\* Every step keeps the levels disjoint.
LEMMA DisjStep == DataInv /\ DisjInv /\ [Next]_vars => DisjInv'
<1> SUFFICES ASSUME DataInv, DisjInv, [Next]_vars PROVE DisjInv'
  OBVIOUS
<1>1. CASE UNCHANGED <<options, current, compaction>>
  BY <1>1 DEF DisjInv
<1>2. CASE \/ UNCHANGED vars
           \/ \E k \in Keys, t \in ValueTypes : Write(k, t)
           \/ MakeRoomForWrite
           \/ GetSnapshot \/ \E s \in snapshots : ReleaseSnapshot(s)
           \/ \E r \in Readers : BeginRead(r) \/ EndRead(r)
           \/ \E range \in Ranges : CompactRange(range)
           \/ CompactMemTableCall \/ CompactMemTableReturns
           \/ ManualRound \/ ManualEnds
           \/ WriteSyncFails \/ BeginFlush \/ FlushFails
  <2>1. UNCHANGED <<options, current, compaction>>
    BY <1>2 DEF vars, Write, MakeRoomForWrite, GetSnapshot, ReleaseSnapshot, BeginRead,
       EndRead, CompactRange, CompactMemTableCall, CompactMemTableReturns, ManualRound,
       ManualEnds, WriteSyncFails, BeginFlush, FlushFails, clientVars, versionVars
  <2> QED
    BY <1>1, <2>1
<1>3. CASE EndFlush
  BY <1>3, FlushShape, FlushDisjoint
<1>4. CASE BeginManual
  <2>1. CASE ManualInputs = {}
    <3>1. UNCHANGED <<options, current, compaction>>
      BY <1>4, <2>1 DEF BeginManual, clientVars
    <3> QED
      BY <1>1, <3>1
  <2>2. CASE ManualInputs # {}
    BY <1>4, <2>2, ManualStarts, StartDisjoint
  <2> QED
    BY <2>1, <2>2
<1>5. ASSUME NEW l \in CompactLevels, NEW f \in current[l],
             BeginCompaction(l, f) \/ TrivialMove(l, f)
      PROVE  DisjInv'
  <2>1. CASE BeginCompaction(l, f)
    BY <2>1, CompactionStarts, StartDisjoint
  <2>2. CASE TrivialMove(l, f)
    <3>1. PICK c : c = PickCompaction(l, f)
      OBVIOUS
    <3>2. TrivialStep(l, c) /\ Chosen(c, current) /\ c.level = l
      BY <2>2, <3>1, TrivialShape, PickChosen
    <3> QED
      BY <3>2, TrivialDisjoint
  <2> QED
    BY <1>5, <2>1, <2>2
<1>6. CASE DoCompactionWork
  <2>1. PICK e : Turn(e)
    BY <1>6, TurnShape DEF DataInv
  <2>2. /\ UNCHANGED <<options, current>> /\ Under(compaction)
        /\ SamePlan(compaction, compaction')
    BY <2>1 DEF Turn
  <2>3. Inputs(compaction') = Inputs(compaction)
    BY <2>2, SamePlanDrops
  <2> QED
    BY <2>2, <2>3 DEF DisjInv, Aside, SamePlan
<1>7. CASE InstallCompactionResults
  BY <1>7, InstallShape, InstallDisjoint
<1>8. CASE CompactionFails
  <2>1. UNCHANGED <<options, current>> /\ ~Under(compaction')
    BY <1>8, NoneUnder DEF CompactionFails, clientVars
  <2> QED
    BY <2>1 DEF DisjInv
<1> QED
  BY <1>2, <1>3, <1>4, <1>5, <1>6, <1>7, <1>8 DEF Next

\* A new database has no files.
LEMMA DisjInit == Init => DisjInv
  BY NoneUnder DEF Init, DisjInv, Ordered

\* Unless a client calls CompactRange, the files of every level but level 0
\* have disjoint ranges, whatever is flushed into a level while a compaction
\* rewrites it: FindFile's binary search is right.
THEOREM LevelsStayDisjoint == Spec => []DisjointUnlessManual
<1>1. DataInv /\ DisjInv => DisjointUnlessManual
  <2> SUFFICES ASSUME DataInv, DisjInv, ~options.manual,
                      NEW l \in Levels \ {0}, NEW f \in current[l], NEW g \in current[l], f # g
               PROVE  \/ InternalKeyLess(largest(f), smallest(g))
                      \/ InternalKeyLess(largest(g), smallest(f))
    BY DEF DisjointUnlessManual, LevelsDisjoint
  <2>1. Apart(f, g)
    BY DEF DisjInv, Ordered
  <2>2. Proper(f) /\ Proper(g)
    BY HoldsProper DEF DataInv, MemInv, VersionInv, AllProper
  <2>3. /\ smallest(f) \in f.entries /\ largest(f) \in f.entries
        /\ smallest(g) \in g.entries /\ largest(g) \in g.entries
    BY <2>2, KeyRange
  <2> QED
    BY <2>1, <2>3 DEF Apart, Precede
<1> QED
  BY <1>1, DataInvInit, DataInvStep, DisjInit, DisjStep, PTL DEF Spec

-----------------------------------------------------------------------------
(* Without snapshots, entries of a key get older from level to level.      *)

\* From level to level, and in level 0 from file to file.
Aged(v) ==
  /\ \A l, m \in Levels : l < m =>
       \A d \in EntriesOf(v[l]), e \in EntriesOf(v[m]) : d.key = e.key => d.seq > e.seq
  /\ \A f, g \in v[0] : f.number < g.number =>
       \A d \in f.entries, e \in g.entries : d.key = e.key => d.seq < e.seq

\* A compaction leaves one entry of a key, so a key is in one file of a level.
SingleFile(v) ==
  \A l \in Levels \ {0} : \A f, g \in v[l] :
    \A d \in f.entries, e \in g.entries : d.key = e.key => f = g

\* Level 0's files have numbers of their own, below that of a flush under way.
Numbered(v, number) ==
  /\ \A f, g \in v[0] : f.number = g.number => f = g
  /\ number # 0 => \A f \in v[0] : f.number < number

SharesNoKey(files, entries) ==
  \A f \in files : \A d \in f.entries, e \in entries : d.key # e.key

\* The files around a compaction: newer in its level, apart from it in the
\* next; what was flushed below meanwhile has none of its keys.
Beside(v, c) ==
  /\ \A f \in v[c.level] \ c.inputs0 : \A d \in f.entries, e \in EntriesOf(c.inputs0) :
       d.key = e.key => d.seq > e.seq
  /\ SharesNoKey(v[c.level + 1] \ c.inputs1, Inputs(c))
  /\ \A l \in (c.level + 2)..(kNumLevels - 1) :
       SharesNoKey(v[l] \ c.version[l], Inputs(c))

\* The newest entry of a key is stored, or it is a deletion that has nothing
\* left to hide.
IsNewest(entries, x) == \A d \in entries : d.key = x.key => d.seq <= x.seq
NewestKept(entries, stored) ==
  \A x \in entries : IsNewest(entries, x) =>
    x \in stored \/ (x.type = "deletion" /\ \A d \in stored : d.key # x.key)

HopInv ==
  ~options.snapshots =>
    /\ Aged(current) /\ SingleFile(current) /\ Numbered(current, flush)
    /\ NewestKept(history, Stored)
    /\ Under(compaction) => Beside(current, compaction)

\* Aged, for the entries of two files.
LEMMA AgedOf ==
  ASSUME NEW v, Aged(v), NEW l \in Levels, NEW m \in Levels, l < m,
         NEW f \in v[l], NEW g \in v[m], NEW d \in f.entries, NEW e \in g.entries,
         d.key = e.key
  PROVE  d.seq > e.seq
<1>1. d \in EntriesOf(v[l]) /\ e \in EntriesOf(v[m])
  BY DEF EntriesOf
<1> QED
  BY <1>1 DEF Aged

\* When a compaction starts.
LEMMA ChosenBeside ==
  ASSUME NEW v, AllProper(v), SingleFile(v), NEW c, Chosen(c, v), c.version = v
  PROVE  Beside(v, c)
<1>0. c.level \in Levels /\ c.level + 1 \in Levels \ {0}
  BY CompactLevel DEF Chosen
<1>1. ASSUME NEW f \in v[c.level] \ c.inputs0, NEW d \in f.entries,
             NEW e \in EntriesOf(c.inputs0), d.key = e.key
      PROVE  FALSE
  <2>1. PICK h \in c.inputs0 : e \in h.entries
    BY DEF EntriesOf
  <2>2. h \in v[c.level]
    BY <2>1 DEF Chosen
  <2>3. CASE c.level = 0
    BY <1>1, <2>1, <2>3 DEF Chosen, Closed0
  <2>4. CASE c.level # 0
    BY <1>0, <1>1, <2>1, <2>2, <2>4 DEF SingleFile
  <2> QED
    BY <2>3, <2>4
<1>2. ASSUME NEW g \in v[c.level + 1] \ c.inputs1, NEW d \in g.entries,
             NEW e \in Inputs(c), d.key = e.key
      PROVE  FALSE
  <2>1. PICK h \in c.inputs0 \cup c.inputs1 : e \in h.entries
    BY InputsOf
  <2>2. CASE h \in c.inputs1
    BY <1>0, <1>2, <2>1, <2>2 DEF SingleFile, Chosen
  <2>3. CASE h \in c.inputs0
    <3>1. /\ \A f \in c.inputs0 : Proper(f)
          /\ Proper(g) /\ c.inputs0 # {}
      BY <1>0 DEF Chosen, AllProper
    <3>2. /\ Low(c.inputs0) \in Nat /\ High(c.inputs0) \in Nat
          /\ Low(c.inputs0) <= smallest(h).key /\ largest(h).key <= High(c.inputs0)
      BY <2>3, <3>1, LowHigh
    <3>3. /\ smallest(h).key \in Nat /\ largest(h).key \in Nat /\ e.key \in Nat
          /\ smallest(h).key <= e.key /\ e.key <= largest(h).key
      BY <2>1, <2>3, <3>1, KeyRange
    <3>4. /\ smallest(g).key \in Nat /\ largest(g).key \in Nat
          /\ smallest(g).key <= d.key /\ d.key <= largest(g).key
      BY <3>1, KeyRange
    <3>5. Overlaps(g, Low(c.inputs0), High(c.inputs0))
      BY <1>2, <3>2, <3>3, <3>4 DEF Overlaps
    <3> QED
      BY <3>5 DEF Chosen
  <2> QED
    BY <2>1, <2>2, <2>3
<1> QED
  BY <1>1, <1>2 DEF Beside, SharesNoKey

\* A compaction's edit, or a trivial move's.
LEMMA MovedAged ==
  ASSUME NEW v, DOMAIN v = Levels, Aged(v), SingleFile(v),
         NEW c, c.level \in CompactLevels,
         c.inputs0 \subseteq v[c.level], c.inputs1 \subseteq v[c.level + 1], Beside(v, c),
         NEW outs, \A f \in outs : f.entries \subseteq Inputs(c),
         \A f, g \in outs : \A d \in f.entries, e \in g.entries : d.key = e.key => f = g,
         NEW w, w = Moved(v, c.level, c.inputs0, c.inputs1, outs)
  PROVE  Aged(w) /\ SingleFile(w) /\ w[0] \subseteq v[0]
<1> DEFINE L == c.level
<1>0. /\ L \in Levels /\ L + 1 \in Levels \ {0} /\ L \in Nat /\ 0 \in Levels
      /\ Levels \subseteq Nat
  BY CompactLevel, Constants DEF Levels
<1>1. /\ w[L] = v[L] \ c.inputs0 /\ w[L + 1] = (v[L + 1] \ c.inputs1) \cup outs
      /\ \A l \in Levels : l # L /\ l # L + 1 => w[l] = v[l]
  BY MovedLevels
<1>2. /\ \A f \in v[L] \ c.inputs0 : \A d \in f.entries, e \in EntriesOf(c.inputs0) :
           d.key = e.key => d.seq > e.seq
      /\ SharesNoKey(v[L + 1] \ c.inputs1, Inputs(c))
  BY DEF Beside
<1>3. \A f \in outs : \A d \in f.entries :
        \/ d \in EntriesOf(c.inputs0) /\ \E h \in v[L] : d \in h.entries
        \/ \E h \in v[L + 1] : d \in h.entries
  <2>1. \A d \in Inputs(c) : \E h \in c.inputs0 \cup c.inputs1 : d \in h.entries
    BY InputsOf
  <2> QED
    BY <2>1 DEF EntriesOf
<1>4. w[0] \subseteq v[0]
  BY <1>0, <1>1
<1> HIDE DEF L
<1>5. ASSUME NEW l \in Levels, NEW m \in Levels, l < m, NEW f \in w[l], NEW g \in w[m],
             NEW d \in f.entries, NEW e \in g.entries, d.key = e.key
      PROVE  d.seq > e.seq
  <2>0. l \in Nat /\ m \in Nat
    BY <1>0
  <2>1. CASE f \in v[l] /\ g \in v[m]
    BY <1>5, <2>1, AgedOf
  <2>2. CASE f \notin v[l]
    <3>1. l = L + 1 /\ f \in outs
      BY <1>1, <1>5, <2>2
    <3>2. m # L /\ m # L + 1 /\ L < m
      BY <1>0, <1>5, <2>0, <3>1
    <3>3. g \in v[m]
      BY <1>1, <3>2
    <3> QED
      BY <1>0, <1>3, <1>5, <3>1, <3>2, <3>3, AgedOf
  <2>3. CASE g \notin v[m]
    <3>1. m = L + 1 /\ g \in outs
      BY <1>1, <1>5, <2>3
    <3>2. l # L + 1 /\ (l < L \/ l = L)
      BY <1>0, <1>5, <2>0, <3>1
    <3>3. f \in v[l] /\ (l = L => f \in v[L] \ c.inputs0)
      BY <1>1, <3>2
    <3>4. CASE \E h \in v[L + 1] : e \in h.entries
      BY <1>0, <1>5, <3>1, <3>3, <3>4, AgedOf
    <3>5. CASE e \in EntriesOf(c.inputs0) /\ \E h \in v[L] : e \in h.entries
      <4>1. CASE l = L
        BY <1>2, <1>5, <3>3, <3>5, <4>1
      <4>2. CASE l < L
        BY <1>0, <1>5, <3>3, <3>5, <4>2, AgedOf
      <4> QED
        BY <3>2, <4>1, <4>2
    <3> QED
      BY <1>3, <3>1, <3>4, <3>5
  <2> QED
    BY <2>1, <2>2, <2>3
<1>6. Aged(w)
  <2>1. ASSUME NEW l \in Levels, NEW m \in Levels, l < m,
               NEW d \in EntriesOf(w[l]), NEW e \in EntriesOf(w[m]), d.key = e.key
        PROVE  d.seq > e.seq
    <3>1. PICK f \in w[l] : d \in f.entries
      BY DEF EntriesOf
    <3>2. PICK g \in w[m] : e \in g.entries
      BY DEF EntriesOf
    <3> QED
      BY <1>5, <2>1, <3>1, <3>2
  <2>2. \A f, g \in w[0] : f.number < g.number =>
          \A d \in f.entries, e \in g.entries : d.key = e.key => d.seq < e.seq
    BY <1>4 DEF Aged
  <2> QED
    BY <2>1, <2>2 DEF Aged
<1>7. SingleFile(w)
  <2> SUFFICES ASSUME NEW l \in Levels \ {0}, NEW f \in w[l], NEW g \in w[l],
                      NEW d \in f.entries, NEW e \in g.entries, d.key = e.key
               PROVE  f = g
    BY DEF SingleFile
  <2>1. CASE f \in v[l] /\ g \in v[l]
    BY <2>1 DEF SingleFile
  <2>2. CASE ~(f \in v[l] /\ g \in v[l])
    <3>1. /\ l = L + 1 /\ (f \in outs \/ f \in v[L + 1] \ c.inputs1)
          /\ g \in outs \/ g \in v[L + 1] \ c.inputs1
      BY <1>1, <2>2
    <3>2. CASE f \in outs /\ g \in outs
      BY <3>2
    <3>3. CASE f \in outs /\ g \in v[L + 1] \ c.inputs1
      BY <1>2, <3>3 DEF SharesNoKey
    <3>4. CASE g \in outs /\ f \in v[L + 1] \ c.inputs1
      BY <1>2, <3>4 DEF SharesNoKey
    <3> QED
      BY <2>2, <3>1, <3>2, <3>3, <3>4
  <2> QED
    BY <2>1, <2>2
<1> QED
  BY <1>4, <1>6, <1>7

\* A flushed table: newer than the levels, and apart from the files of its
\* level and above unless that is level 0.
LEMMA FlushedAged ==
  ASSUME NEW v, NEW entries, Distinct(entries), Holds(v, entries), Aged(v), SingleFile(v),
         NEW number \in Nat \ {0}, Numbered(v, number),
         NEW f, f.number = number, Proper(f), NEW level, Placed(v, f, level),
         Newer(f.entries, LevelEntries(v)),
         NEW w, w = Flushed(v, f, level)
  PROVE  Aged(w) /\ SingleFile(w) /\ Numbered(w, 0)
<1>a. AllProper(v) /\ DOMAIN v = Levels
  BY HoldsProper DEF Holds
<1>0. level \in Levels /\ 0 \in Levels /\ Levels \subseteq Nat
  BY Constants DEF Placed, Levels
<1>1. \A l \in Levels : w[l] = IF l = level THEN v[l] \cup {f} ELSE v[l]
  BY <1>0, <1>a, FlushedLevels
<1>2. \A l \in Levels : \A g \in v[l] : \A d \in f.entries, e \in g.entries : d.seq > e.seq
  BY LevelEntriesOf DEF Newer
<1>3. ASSUME NEW l \in Levels, level # 0, l <= level, NEW g \in v[l],
             NEW d \in g.entries, NEW e \in f.entries
      PROVE  d.key # e.key
  <2>1. l \in 0..level
    BY <1>0, <1>3
  <2>2. ~Overlaps(g, smallest(f).key, largest(f).key) /\ Proper(g)
    BY <1>a, <1>3, <2>1 DEF Placed, AllProper
  <2> QED
    BY <2>2, ApartShareNoKey
<1>4. ASSUME NEW l \in Levels, NEW m \in Levels, l < m, NEW p \in w[l], NEW g \in w[m],
             NEW d \in p.entries, NEW e \in g.entries, d.key = e.key
      PROVE  d.seq > e.seq
  <2>0. l \in Nat /\ m \in Nat /\ level \in Nat
    BY <1>0
  <2>1. CASE p \in v[l] /\ g \in v[m]
    BY <1>4, <2>1, AgedOf
  <2>2. CASE p \notin v[l]
    <3>1. p = f /\ l = level
      BY <1>1, <1>4, <2>2
    <3>2. m # level
      BY <1>4, <2>0, <3>1
    <3>3. g \in v[m]
      BY <1>1, <1>4, <3>2
    <3> QED
      BY <1>2, <1>4, <3>1, <3>3
  <2>3. CASE p \in v[l] /\ g \notin v[m]
    <3>1. g = f /\ m = level
      BY <1>1, <1>4, <2>3
    <3>2. level # 0 /\ l <= level
      BY <1>4, <2>0, <3>1
    <3> QED
      BY <1>3, <1>4, <2>3, <3>1, <3>2
  <2> QED
    BY <2>1, <2>2, <2>3
<1>5. \A g \in w[0] : g \in v[0] \/ g = f
  BY <1>0, <1>1
<1>6. \A g \in v[0] : g.number < number
  BY DEF Numbered
<1>7. ASSUME NEW p \in w[0], NEW g \in w[0], p.number < g.number,
             NEW d \in p.entries, NEW e \in g.entries, d.key = e.key
      PROVE  d.seq < e.seq
  <2>1. CASE p \in v[0] /\ g \in v[0]
    BY <1>7, <2>1 DEF Aged
  <2>2. CASE p \in v[0] /\ g = f
    <3>1. e.seq > d.seq
      BY <1>0, <1>2, <2>2
    <3>2. d \in Entry /\ e \in Entry
      BY <1>0, <1>a, <2>2, KeyRange DEF AllProper
    <3> QED
      BY <3>1, <3>2, EntryFields
  <2>3. CASE p = f
    <3>1. g = f \/ g.number < number
      BY <1>5, <1>6
    <3>2. f.number \in Nat /\ g.number \in Nat
      BY <1>0, <1>5 DEF Holds, Table
    <3> QED
      BY <1>7, <2>3, <3>1, <3>2
  <2> QED
    BY <1>5, <2>1, <2>2, <2>3
<1>8. Aged(w)
  <2>1. ASSUME NEW l \in Levels, NEW m \in Levels, l < m,
               NEW d \in EntriesOf(w[l]), NEW e \in EntriesOf(w[m]), d.key = e.key
        PROVE  d.seq > e.seq
    <3>1. PICK p \in w[l] : d \in p.entries
      BY DEF EntriesOf
    <3>2. PICK g \in w[m] : e \in g.entries
      BY DEF EntriesOf
    <3> QED
      BY <1>4, <2>1, <3>1, <3>2
  <2> QED
    BY <1>7, <2>1 DEF Aged
<1>9. SingleFile(w)
  <2> SUFFICES ASSUME NEW l \in Levels \ {0}, NEW p \in w[l], NEW g \in w[l],
                      NEW d \in p.entries, NEW e \in g.entries, d.key = e.key
               PROVE  p = g
    BY DEF SingleFile
  <2>1. CASE p \in v[l] /\ g \in v[l]
    BY <2>1 DEF SingleFile
  <2>2. CASE ~(p \in v[l] /\ g \in v[l])
    <3>1. l = level
      BY <1>1, <2>2
    <3>2. level # 0 /\ level <= level
      BY <1>0, <3>1
    <3>3. (p \in v[l] \/ p = f) /\ (g \in v[l] \/ g = f)
      BY <1>1
    <3> QED
      BY <1>3, <2>2, <3>1, <3>2, <3>3
  <2> QED
    BY <2>1, <2>2
<1>10. Numbered(w, 0)
  <2> SUFFICES ASSUME NEW p \in w[0], NEW g \in w[0], p.number = g.number PROVE p = g
    BY DEF Numbered
  <2>1. ~(number < number)
    OBVIOUS
  <2> QED
    BY <1>5, <1>6, <2>1 DEF Numbered
<1> QED
  BY <1>8, <1>9, <1>10

\* The flush does not disturb a compaction under way.
LEMMA FlushedBeside ==
  ASSUME NEW v, DOMAIN v = Levels, AllProper(v),
         NEW c, c.level \in CompactLevels,
         c.inputs0 \subseteq v[c.level], c.inputs1 \subseteq v[c.level + 1], Beside(v, c),
         NEW f, Proper(f), NEW level, Placed(v, f, level),
         Newer(f.entries, LevelEntries(v)),
         NEW w, w = Flushed(v, f, level)
  PROVE  Beside(w, c)
<1> DEFINE L == c.level
<1>0. /\ level \in Levels /\ Levels \subseteq Nat /\ L \in Levels /\ L + 1 \in Levels /\ L \in Nat
      /\ kNumLevels \in Nat
  BY CompactLevel, Constants DEF Placed, Levels
<1>1. \A l \in Levels : w[l] = IF l = level THEN v[l] \cup {f} ELSE v[l]
  BY <1>0, FlushedLevels
<1>2. ASSUME L + 1 <= level PROVE \A d \in f.entries, e \in Inputs(c) : d.key # e.key
  <2>1. level # 0 /\ L \in 0..level /\ L + 1 \in 0..level
    BY <1>0, <1>2
  <2>2. \A h \in c.inputs0 \cup c.inputs1 :
          Proper(h) /\ ~Overlaps(h, smallest(f).key, largest(f).key)
    BY <1>0, <2>1 DEF Placed, AllProper
  <2>3. \A h \in c.inputs0 \cup c.inputs1 : \A d \in f.entries, e \in h.entries : d.key # e.key
    BY <2>2, ApartShareNoKey
  <2> QED
    BY <2>3, InputsOf
<1>3. /\ \A g \in v[L] \ c.inputs0 : \A d \in g.entries, e \in EntriesOf(c.inputs0) :
           d.key = e.key => d.seq > e.seq
      /\ SharesNoKey(v[L + 1] \ c.inputs1, Inputs(c))
      /\ \A l \in (L + 2)..(kNumLevels - 1) : SharesNoKey(v[l] \ c.version[l], Inputs(c))
  BY DEF Beside
<1>4. \A d \in f.entries, e \in EntriesOf(c.inputs0) : d.seq > e.seq
  <2>1. EntriesOf(c.inputs0) \subseteq LevelEntries(v)
    BY <1>0, LevelEntriesOf DEF EntriesOf
  <2> QED
    BY <2>1 DEF Newer
<1>5. \A g \in w[L] \ c.inputs0 : \A d \in g.entries, e \in EntriesOf(c.inputs0) :
        d.key = e.key => d.seq > e.seq
  BY <1>0, <1>1, <1>3, <1>4, ZenonT(60)
<1>6. SharesNoKey(w[L + 1] \ c.inputs1, Inputs(c))
  <2>1. L + 1 = level => L + 1 <= level
    BY <1>0
  <2> QED
    BY <1>0, <1>1, <1>2, <1>3, <2>1, ZenonT(60) DEF SharesNoKey
<1>7. ASSUME NEW l \in (L + 2)..(kNumLevels - 1)
      PROVE  SharesNoKey(w[l] \ c.version[l], Inputs(c))
  <2>1. l \in Levels /\ (l = level => L + 1 <= level)
    BY <1>0 DEF Levels
  <2>2. SharesNoKey(v[l] \ c.version[l], Inputs(c))
    BY <1>3
  <2> QED
    BY <1>1, <1>2, <2>1, <2>2 DEF SharesNoKey
<1> QED
  BY <1>5, <1>6, <1>7 DEF Beside

-----------------------------------------------------------------------------
(* The ages of entries, action by action.                                  *)

\* What is stored was written.
LEMMA StoredWritten ==
  ASSUME DataInv
  PROVE  Stored \subseteq history
<1>1. LevelEntries(current) \subseteq history
  BY HoldsProper DEF DataInv, MemInv, VersionInv
<1> QED
  BY <1>1, StoredOf DEF DataInv, MemInv

\* Steps that leave the levels and what is stored alone.
LEMMA SameHop ==
  ASSUME HopInv, UNCHANGED <<options, history, current>>, Stored' = Stored,
         flush' = flush \/ flush' = 0,
         ~Under(compaction)' \/ UNCHANGED compaction
  PROVE  HopInv'
  BY DEF HopInv, Numbered

\* A flush takes a number above those of level 0.
LEMMA BeginFlushHop ==
  ASSUME DataInv, FileInv, HopInv, BeginFlush
  PROVE  HopInv'
<1>1. /\ UNCHANGED <<options, history, mem, imm, current, compaction>>
      /\ flush' = next_file
  BY DEF BeginFlush, memVars, clientVars
<1>2. Stored' = Stored
  BY <1>1 DEF Stored
<1>3. \A f \in current[0] : f.number < next_file
  <2>1. 0 \in Levels
    BY Constants DEF Levels
  <2>2. \A f \in current[0] : f.number \in disk
    BY <2>1, NumbersOf DEF FileInv, LiveFilesOnDisk
  <2>3. \A n \in disk : n < next_file
    BY DEF FileInv
  <2> QED
    BY <2>2, <2>3
<1> QED
  BY <1>1, <1>2, <1>3 DEF HopInv, Numbered

\* The newest entries after a write.
LEMMA WriteHop ==
  ASSUME DataInv, HopInv, NEW key \in Keys, NEW type \in ValueTypes, Write(key, type)
  PROVE  HopInv'
<1>1. PICK e : e = [key |-> key, seq |-> last_sequence + 1, type |-> type]
  OBVIOUS
<1>2. /\ mem' = mem \cup {e} /\ history' = history \cup {e}
      /\ UNCHANGED <<options, imm, current, flush, compaction>>
  BY <1>1 DEF Write, clientVars, versionVars
<1>3. Stored' = Stored \cup {e}
  BY <1>2 DEF Stored
<1>4. e.seq = last_sequence + 1 /\ last_sequence \in Nat
      /\ \A d \in history : d.seq <= last_sequence /\ d.seq \in Nat
  BY <1>1, EntryFields DEF DataInv, MemInv, Distinct
<1>5. ASSUME NewestKept(history, Stored) PROVE NewestKept(history', Stored')
  <2> SUFFICES ASSUME NEW x \in history', IsNewest(history', x), x \notin Stored'
               PROVE  x.type = "deletion" /\ \A d \in Stored' : d.key # x.key
    BY DEF NewestKept
  <2>1. x \in history /\ IsNewest(history, x) /\ x \notin Stored
    BY <1>2, <1>3 DEF IsNewest
  <2>2. x.type = "deletion" /\ \A d \in Stored : d.key # x.key
    BY <1>5, <2>1 DEF NewestKept
  <2>3. ~(e.seq <= x.seq)
    BY <1>4, <2>1
  <2>4. e.key # x.key
    BY <1>2, <2>3 DEF IsNewest
  <2> QED
    BY <1>3, <2>2, <2>4
<1> QED
  BY <1>2, <1>5 DEF HopInv

\* The flush ends.
LEMMA EndFlushHop ==
  ASSUME DataInv, HopInv, FlushStep
  PROVE  HopInv'
<1> SUFFICES ASSUME ~options.snapshots
             PROVE  /\ Aged(current') /\ SingleFile(current') /\ Numbered(current', 0)
                    /\ NewestKept(history, Stored')
                    /\ Under(compaction) => Beside(current', compaction)
  BY DEF FlushStep, HopInv
<1>1. /\ Aged(current) /\ SingleFile(current) /\ Numbered(current, flush)
      /\ NewestKept(history, Stored)
      /\ Under(compaction) => Beside(current, compaction)
  BY DEF HopInv
<1>2. /\ UNCHANGED mem /\ imm' = {} /\ flush # 0
  BY DEF FlushStep
<1>3. CASE imm = {} /\ current' = current
  <2>1. Stored' = Stored
    BY <1>2, <1>3 DEF Stored
  <2> QED
    BY <1>1, <1>3, <2>1 DEF Numbered
<1>4. CASE imm # {}
  <2>0. PICK level : \E f \in {[number |-> flush, entries |-> imm]} :
          Proper(f) /\ Placed(current, f, level) /\ current' = Flushed(current, f, level)
    BY <1>4 DEF FlushStep
  <2>1. PICK f \in {[number |-> flush, entries |-> imm]} :
          Proper(f) /\ Placed(current, f, level) /\ current' = Flushed(current, f, level)
    BY <2>0
  <2>2. /\ f.entries = imm /\ f.number = flush /\ f.entries # {} /\ f.entries \subseteq history
        /\ level \in Levels /\ f \in Table /\ flush \in Nat \ {0}
    BY <1>2, <1>4, <2>1 DEF DataInv, MemInv, Placed, Distinct, Table
  <2>3. /\ Distinct(history) /\ Holds(current, history)
        /\ Newer(f.entries, LevelEntries(current))
    BY <2>2 DEF DataInv, MemInv, VersionInv
  <2>4. LevelEntries(current') = LevelEntries(current) \cup imm
    BY <2>1, <2>2, <2>3, FlushedHolds
  <2>5. Stored' = Stored
    BY <1>2, <2>4, StoredOf
  <2>6. Aged(current') /\ SingleFile(current') /\ Numbered(current', 0)
    BY <1>1, <2>1, <2>2, <2>3, FlushedAged
  <2>7. ASSUME Under(compaction) PROVE Beside(current', compaction)
    <3>1. Plan(compaction, current)
      BY <2>7 DEF DataInv, JobInv
    <3>2. AllProper(current) /\ DOMAIN current = Levels
      BY <2>3, HoldsProper DEF Holds
    <3> QED
      BY <1>1, <2>1, <2>3, <2>7, <3>1, <3>2, FlushedBeside DEF Plan
  <2> QED
    BY <1>1, <2>5, <2>6, <2>7
<1> QED
  BY <1>3, <1>4 DEF FlushStep

\* A compaction starts.
LEMMA StartHop ==
  ASSUME DataInv, HopInv, StartStep
  PROVE  HopInv'
<1>1. /\ UNCHANGED <<options, history, mem, imm, current, flush>>
      /\ Chosen(compaction', current) /\ compaction'.version = current
  BY DEF StartStep
<1>2. Stored' = Stored
  BY <1>1 DEF Stored
<1>3. AllProper(current)
  BY HoldsProper DEF DataInv, MemInv, VersionInv
<1>4. SingleFile(current) => Beside(current, compaction')
  BY <1>1, <1>3, ChosenBeside
<1> QED
  BY <1>1, <1>2, <1>4 DEF HopInv

\* A turn of its loop.
LEMMA TurnHop ==
  ASSUME HopInv, NEW e, Turn(e)
  PROVE  HopInv'
<1>1. /\ UNCHANGED <<options, history, mem, imm, current, flush>> /\ Under(compaction)
      /\ SamePlan(compaction, compaction')
  BY DEF Turn
<1>2. Stored' = Stored
  BY <1>1 DEF Stored
<1>3. Inputs(compaction') = Inputs(compaction)
  BY <1>1, SamePlanDrops
<1>4. Beside(current, compaction) => Beside(current, compaction')
  BY <1>1, <1>3 DEF SamePlan, Beside
<1> QED
  BY <1>1, <1>2, <1>4 DEF HopInv

\* A trivial move.
LEMMA TrivialHop ==
  ASSUME DataInv, HopInv, NEW level, NEW c, TrivialStep(level, c),
         Chosen(c, current), c.level = level, c.version = current
  PROVE  HopInv'
<1>1. /\ level \in CompactLevels /\ c.inputs0 \subseteq current[level]
      /\ current' = Moved(current, level, c.inputs0, {}, c.inputs0)
      /\ UNCHANGED <<options, history, mem, imm, flush, compaction>>
      /\ flush = 0 /\ ~Under(compaction)
      /\ Cardinality(c.inputs0) = 1 /\ c.inputs1 = {}
  BY DEF TrivialStep, MovePlan
<1> SUFFICES ASSUME ~options.snapshots
             PROVE  /\ Aged(current') /\ SingleFile(current') /\ Numbered(current', flush)
                    /\ NewestKept(history, Stored')
  BY <1>1 DEF HopInv
<1>2. /\ Aged(current) /\ SingleFile(current) /\ Numbered(current, flush)
      /\ NewestKept(history, Stored)
  BY DEF HopInv
<1>3. AllProper(current) /\ DOMAIN current = Levels /\ IsFiniteSet(current[0])
  BY HoldsProper DEF DataInv, MemInv, VersionInv, Holds
<1>4. Beside(current, c)
  BY <1>2, <1>3, ChosenBeside
<1>5. ASSUME NEW f \in c.inputs0, NEW g \in c.inputs0,
             NEW d \in f.entries, NEW e \in g.entries, d.key = e.key
      PROVE  f = g
  <2>1. CASE level = 0
    BY <1>1, <1>3, <1>5, <2>1, OneInput
  <2>2. CASE level # 0
    BY <1>1, <1>2, <1>5, <2>2, CompactLevel DEF SingleFile
  <2> QED
    BY <2>1, <2>2
<1>6. \A f \in c.inputs0 : f.entries \subseteq Inputs(c)
  BY InputsOf
<1>7. Aged(current') /\ SingleFile(current') /\ current'[0] \subseteq current[0]
  BY <1>1, <1>2, <1>3, <1>4, <1>5, <1>6, MovedAged DEF Chosen
<1>8. Stored' = Stored
  <2>1. /\ EntriesOf(c.inputs0) \subseteq LevelEntries(current')
        /\ \A e \in LevelEntries(current) :
             e \in LevelEntries(current') \/ e \in EntriesOf(c.inputs0 \cup {})
    BY <1>1, <1>3, MovedEntries
  <2>2. EntriesOf(c.inputs0 \cup {}) = EntriesOf(c.inputs0)
    BY DEF EntriesOf
  <2>3. LevelEntries(current') \subseteq LevelEntries(current)
    BY MovedHolds, ZenonT(60) DEF TrivialStep, MovePlan, DataInv, VersionInv
  <2> QED
    BY <1>1, <2>1, <2>2, <2>3, StoredOf
<1> QED
  BY <1>1, <1>2, <1>7, <1>8 DEF Numbered

\* Outputs have one entry of a key: without snapshots all but the newest are
\* dropped.
LEMMA OneEntry ==
  ASSUME NEW c, Distinct(Inputs(c)), \A e \in Inputs(c) : e.seq <= c.smallest_snapshot,
         NEW d \in Inputs(c), NEW e \in Inputs(c), d.key = e.key, ~Dropped(c, d), ~Dropped(c, e)
  PROVE  d = e
<1>1. d.seq \in Nat /\ e.seq \in Nat
  BY EntryFields DEF Distinct
<1>2. ~(d.seq > e.seq) /\ ~(e.seq > d.seq)
  BY DEF Dropped
<1>3. d.seq = e.seq
  BY <1>1, <1>2
<1> QED
  BY <1>3 DEF Distinct

\* The newest entry of its key is a deletion that DoCompactionWork drops.
Obsolete(v, entries, c, x) ==
  /\ Distinct(entries) /\ Holds(v, entries) /\ Plan(c, v) /\ Aged(v) /\ Beside(v, c)
  /\ x \in Inputs(c) /\ IsNewest(entries, x) /\ x.seq <= c.smallest_snapshot
  /\ IsBaseLevelForKey(c, x.key)

NothingDropped(outs, c) ==
  \A f \in outs : \A d \in f.entries : d \in Inputs(c) /\ ~Dropped(c, d)

Installs(v, c, outs, w) == w = Moved(v, c.level, c.inputs0, c.inputs1, outs)

\* A deletion dropped because nothing below has its key leaves nothing of that
\* key in the levels.
LEMMA DroppedLast ==
  ASSUME NEW v, NEW entries, NEW c, NEW x, Obsolete(v, entries, c, x),
         NEW outs, NothingDropped(outs, c),
         NEW w, Installs(v, c, outs, w), x \notin LevelEntries(w),
         NEW y, y \in LevelEntries(w), y \in entries
  PROVE  y.key # x.key
<1> USE DEF Obsolete, NothingDropped, Installs
<1> SUFFICES ASSUME y.key = x.key PROVE FALSE
  OBVIOUS
<1> DEFINE L == c.level
<1>0. /\ L \in CompactLevels /\ c.inputs0 \subseteq v[L] /\ c.inputs1 \subseteq v[L + 1]
      /\ L \in Levels /\ L + 1 \in Levels /\ L \in Nat
  BY CompactLevel DEF Plan
<1>1. /\ DOMAIN v = Levels /\ AllProper(v) /\ Inputs(c) \subseteq entries
  BY HoldsProper, PlanInputs DEF Holds
<1>2. /\ w[L] = v[L] \ c.inputs0 /\ w[L + 1] = (v[L + 1] \ c.inputs1) \cup outs
      /\ \A l \in Levels : l # L /\ l # L + 1 => w[l] = v[l]
  BY <1>0, <1>1, MovedLevels
<1>3. /\ x.seq \in Nat /\ y.seq \in Nat /\ y \in entries /\ x \in entries
      /\ y.key \in Nat
  BY <1>1, EntryFields DEF Distinct
<1>4. y.seq < x.seq
  <2>1. y.seq # x.seq
    BY <1>3 DEF Distinct
  <2>2. y.seq <= x.seq
    BY <1>3 DEF IsNewest
  <2> QED
    BY <1>3, <2>1, <2>2
<1>5. ~(y.seq > x.seq)
  BY <1>3, <1>4
<1>6. PICK l \in Levels : \E g \in w[l] : y \in g.entries
  BY LevelEntriesOf
<1>7. PICK g \in w[l] : y \in g.entries
  BY <1>6
<1>8. PICK h \in c.inputs0 \cup c.inputs1 : x \in h.entries
  BY InputsOf
<1>9. l \in Nat /\ l <= kNumLevels - 1 /\ kNumLevels \in Nat
  BY Constants DEF Levels
<1> HIDE DEF L
<1>10. CASE l < L
  <2>1. l # L /\ l # L + 1 /\ l < L + 1
    BY <1>0, <1>9, <1>10
  <2>2. g \in v[l]
    BY <1>2, <2>1
  <2> QED
    BY <1>0, <1>5, <1>7, <1>8, <1>10, <2>1, <2>2, AgedOf
<1>11. CASE l = L
  <2>1. g \in v[L] \ c.inputs0
    BY <1>2, <1>11
  <2>2. CASE h \in c.inputs0
    <3>1. x \in EntriesOf(c.inputs0)
      BY <1>8, <2>2 DEF EntriesOf
    <3> QED
      BY <1>5, <1>7, <2>1, <3>1 DEF Beside, L
  <2>3. CASE h \in c.inputs1
    <3>1. L < L + 1
      BY <1>0
    <3> QED
      BY <1>0, <1>5, <1>7, <1>8, <2>1, <2>3, <3>1, AgedOf
  <2> QED
    BY <1>8, <2>2, <2>3
<1>12. CASE l = L + 1
  <2>1. CASE g \in v[L + 1] \ c.inputs1
    BY <1>7, <2>1 DEF Beside, SharesNoKey, L
  <2>2. CASE g \in outs
    <3>1. y \in Inputs(c) /\ ~Dropped(c, y)
      BY <1>7, <2>2
    <3> QED
      BY <1>3, <1>4, <3>1 DEF Dropped
  <2> QED
    BY <1>2, <1>12, <2>1, <2>2
<1>13. CASE l > L + 1
  <2>1. l # L /\ l # L + 1 /\ l \in (L + 2)..(kNumLevels - 1)
    BY <1>0, <1>9, <1>13
  <2>2. g \in v[l] /\ Proper(g)
    BY <1>1, <1>2, <2>1 DEF AllProper
  <2>3. Overlaps(g, y.key, y.key)
    BY <1>7, <2>2, KeyRange DEF Overlaps
  <2>4. g \notin c.version[l]
    BY <2>1, <2>3 DEF IsBaseLevelForKey, OverlapInLevel, L
  <2> QED
    BY <1>7, <2>1, <2>2, <2>4 DEF Beside, SharesNoKey, L
<1> QED
  BY <1>0, <1>9, <1>10, <1>11, <1>12, <1>13

\* The outputs are installed.
LEMMA InstallHop ==
  ASSUME DataInv, DataInv', HopInv, InstallStep
  PROVE  HopInv'
<1> DEFINE c == compaction
<1>1. /\ Under(c) /\ c.rest = {} /\ flush = 0
      /\ current' = Moved(current, c.level, c.inputs0, c.inputs1, OutputSet(c))
      /\ compaction' = NoCompaction
      /\ UNCHANGED <<options, history, mem, imm, flush>>
  BY DEF InstallStep
<1> SUFFICES ASSUME ~options.snapshots
             PROVE  /\ Aged(current') /\ SingleFile(current') /\ Numbered(current', flush)
                    /\ NewestKept(history, Stored')
  BY <1>1, NoneUnder DEF HopInv
<1>2. /\ Aged(current) /\ SingleFile(current) /\ Numbered(current, flush)
      /\ NewestKept(history, Stored) /\ Beside(current, c)
  BY <1>1 DEF HopInv
<1>3. /\ Plan(c, current) /\ Written(c)
      /\ \A e \in Inputs(c) : e.seq <= c.smallest_snapshot
  BY <1>1 DEF DataInv, JobInv, Oldest
<1>4. /\ Distinct(history) /\ Holds(current, history) /\ DOMAIN current = Levels
  BY DEF DataInv, MemInv, VersionInv, Holds
<1>5. Inputs(c) \subseteq LevelEntries(current) /\ Inputs(c) \subseteq history /\ Distinct(Inputs(c))
  BY <1>3, <1>4, PlanInputs
<1>6. \A f \in OutputSet(c) : /\ f.entries \subseteq Inputs(c)
                              /\ \A d \in f.entries : d \in Inputs(c) /\ ~Dropped(c, d)
  BY <1>3 DEF Written, OutputSet
<1>7. ASSUME NEW f \in OutputSet(c), NEW g \in OutputSet(c),
             NEW d \in f.entries, NEW e \in g.entries, d.key = e.key
      PROVE  f = g
  <2>1. PICK i \in 1..Len(c.outputs) : f = c.outputs[i]
    BY DEF OutputSet
  <2>2. PICK j \in 1..Len(c.outputs) : g = c.outputs[j]
    BY DEF OutputSet
  <2>3. d = e /\ d \in Entry
    BY <1>3, <1>5, <1>6, <1>7, OneEntry DEF Distinct
  <2>4. ~InternalKeyLess(d, e) /\ ~InternalKeyLess(e, d)
    BY <2>3, LessIrreflexive
  <2>5. \A p, q \in 1..Len(c.outputs) :
          p < q => Precede(c.outputs[p].entries, c.outputs[q].entries)
    BY <1>3 DEF Written
  <2>6. ~(i < j) /\ ~(j < i)
    BY <2>1, <2>2, <2>4, <2>5 DEF Precede
  <2>7. i = j
    BY <2>6
  <2> QED
    BY <2>1, <2>2, <2>7
<1>8. Aged(current') /\ SingleFile(current') /\ current'[0] \subseteq current[0]
  <2>1. /\ c.level \in CompactLevels /\ c.inputs0 \subseteq current[c.level]
        /\ c.inputs1 \subseteq current[c.level + 1]
    BY <1>3 DEF Plan
  <2> QED
    BY <1>1, <1>2, <1>4, <1>6, <1>7, <2>1, MovedAged
<1>9. /\ EntriesOf(OutputSet(c)) \subseteq LevelEntries(current')
      /\ \A e \in LevelEntries(current) :
           e \in LevelEntries(current') \/ e \in EntriesOf(c.inputs0 \cup c.inputs1)
  <2>1. c.level \in CompactLevels
    BY <1>3 DEF Plan
  <2> QED
    BY <1>1, <1>4, <2>1, MovedEntries
<1>10. NewestKept(history, Stored')
  <2> SUFFICES ASSUME NEW x \in history, IsNewest(history, x), x \notin Stored'
               PROVE  x.type = "deletion" /\ \A d \in Stored' : d.key # x.key
    BY DEF NewestKept
  <2>1. LevelEntries(current') \subseteq LevelEntries(current)
    BY <1>4, MovedHolds DEF InstallStep, MovePlan
  <2>2. Stored' \subseteq Stored
    BY <1>1, <2>1, StoredOf
  <2>3. CASE x \notin Stored
    BY <1>2, <2>2, <2>3 DEF NewestKept
  <2>4. CASE x \in Stored
    <3>1. x \in LevelEntries(current) /\ x \notin LevelEntries(current')
      BY <1>1, <2>4, StoredOf
    <3>3. x \in Inputs(c)
      BY <1>9, <3>1 DEF Inputs
    <3>4. Dropped(c, x)
      <4>1. \A i \in 1..Len(c.outputs) : c.outputs[i].entries \subseteq EntriesOf(OutputSet(c))
        BY DEF OutputSet, EntriesOf
      <4> QED
        BY <1>1, <1>3, <1>9, <3>1, <3>3, <4>1 DEF Written
    <3>5. \A d \in Inputs(c) : d.key = x.key => ~(d.seq > x.seq)
      <4>1. \A d \in Inputs(c) : d.seq \in Nat /\ x.seq \in Nat
        BY <1>5, <3>3, EntryFields DEF Distinct
      <4> QED
        BY <1>5, <4>1 DEF IsNewest
    <3>6. x.type = "deletion" /\ x.seq <= c.smallest_snapshot /\ IsBaseLevelForKey(c, x.key)
      BY <3>4, <3>5 DEF Dropped
    <3>7. ASSUME NEW y \in Stored' PROVE y.key # x.key
      <4>1. y \in history
        BY <2>2, StoredWritten
      <4>2. CASE y \in LevelEntries(current')
        <5>1. PICK w : w = current'
          OBVIOUS
        <5>2. PICK outs : outs = OutputSet(c)
          OBVIOUS
        <5>3. /\ Installs(current, c, outs, w)
              /\ y \in LevelEntries(w) /\ x \notin LevelEntries(w)
              /\ NothingDropped(outs, c)
          BY <1>1, <1>6, <3>1, <4>2, <5>1, <5>2 DEF NothingDropped, Installs
        <5>4. Obsolete(current, history, c, x)
          BY <1>2, <1>3, <1>4, <3>3, <3>6 DEF Obsolete
        <5> QED
          BY <4>1, <5>3, <5>4, DroppedLast, ZenonT(30)
      <4>3. CASE y \in mem \cup imm
        <5>1. y.seq > x.seq
          BY <3>1, <4>3 DEF DataInv, VersionInv, Newer
        <5>2. y.seq \in Nat /\ x.seq \in Nat
          BY <1>4, <4>1, EntryFields DEF Distinct
        <5> QED
          BY <4>1, <5>1, <5>2 DEF IsNewest
      <4> QED
        BY <1>1, <4>2, <4>3, StoredOf
    <3> QED
      BY <3>6, <3>7
  <2> QED
    BY <2>3, <2>4
<1> QED
  BY <1>2, <1>8, <1>10 DEF Numbered

-----------------------------------------------------------------------------
(* The ages of entries hold.                                               *)

\* A new database has no entry.
LEMMA HopInit == Init => HopInv
<1> SUFFICES ASSUME Init PROVE HopInv
  OBVIOUS
<1>1. \A l \in Levels : current[l] = {}
  BY DEF Init
<1>2. 0 \in Levels
  BY Constants DEF Levels
<1>3. Aged(current)
  BY <1>1, <1>2 DEF Aged, EntriesOf
<1>4. SingleFile(current) /\ Numbered(current, flush)
  BY <1>1, <1>2 DEF SingleFile, Numbered
<1>5. NewestKept(history, Stored) /\ ~Under(compaction)
  BY NoneUnder DEF NewestKept, Init
<1> QED
  BY <1>3, <1>4, <1>5 DEF HopInv

\* Every step keeps the ages.
LEMMA HopStep == DataInv /\ DataInv' /\ FileInv /\ HopInv /\ [Next]_vars => HopInv'
<1> SUFFICES ASSUME DataInv, DataInv', FileInv, HopInv, [Next]_vars PROVE HopInv'
  OBVIOUS
<1>1. CASE \/ UNCHANGED vars
           \/ GetSnapshot \/ \E s \in snapshots : ReleaseSnapshot(s)
           \/ \E r \in Readers : BeginRead(r) \/ EndRead(r)
           \/ \E range \in Ranges : CompactRange(range)
           \/ CompactMemTableReturns \/ ManualRound \/ ManualEnds
           \/ WriteSyncFails \/ FlushFails
  <2>1. /\ UNCHANGED <<options, history, current, mem, imm, compaction>>
        /\ flush' = flush \/ flush' = 0
    BY <1>1 DEF vars, GetSnapshot, ReleaseSnapshot, BeginRead, EndRead, CompactRange,
       CompactMemTableReturns, ManualRound, ManualEnds, WriteSyncFails, FlushFails,
       memVars, clientVars, versionVars
  <2>2. Stored' = Stored
    BY <2>1 DEF Stored
  <2> QED
    BY <2>1, <2>2, SameHop
<1>2. CASE MakeRoomForWrite \/ CompactMemTableCall
  <2>1. /\ UNCHANGED <<options, history, current, compaction, flush>>
        /\ SwitchMemTable \/ UNCHANGED <<mem, imm>>
    BY <1>2 DEF MakeRoomForWrite, CompactMemTableCall, clientVars, versionVars
  <2>2. SwitchMemTable => imm = {} /\ imm' = mem /\ mem' = {}
    BY DEF SwitchMemTable, DataInv, MemInv
  <2>3. Stored' = Stored
    BY <2>1, <2>2 DEF Stored
  <2> QED
    BY <2>1, <2>3, SameHop
<1>3. ASSUME NEW k \in Keys, NEW t \in ValueTypes, Write(k, t) PROVE HopInv'
  BY <1>3, WriteHop
<1>4. CASE BeginFlush
  BY <1>4, BeginFlushHop
<1>5. CASE EndFlush
  BY <1>5, FlushShape, EndFlushHop
<1>6. CASE BeginManual
  <2>1. CASE ManualInputs = {}
    <3>1. UNCHANGED <<options, history, current, mem, imm, compaction, flush>>
      BY <1>6, <2>1 DEF BeginManual, memVars, clientVars
    <3>2. Stored' = Stored
      BY <3>1 DEF Stored
    <3> QED
      BY <3>1, <3>2, SameHop
  <2>2. CASE ManualInputs # {}
    BY <1>6, <2>2, ManualStarts, StartHop
  <2> QED
    BY <2>1, <2>2
<1>7. ASSUME NEW l \in CompactLevels, NEW f \in current[l],
             BeginCompaction(l, f) \/ TrivialMove(l, f)
      PROVE  HopInv'
  <2>1. CASE BeginCompaction(l, f)
    BY <2>1, CompactionStarts, StartHop
  <2>2. CASE TrivialMove(l, f)
    <3>1. PICK c : c = PickCompaction(l, f)
      OBVIOUS
    <3>2. TrivialStep(l, c) /\ Chosen(c, current) /\ c.level = l /\ c.version = current
      BY <2>2, <3>1, TrivialShape, PickChosen
    <3> QED
      BY <3>2, TrivialHop
  <2> QED
    BY <1>7, <2>1, <2>2
<1>8. CASE DoCompactionWork
  <2>1. PICK e : Turn(e)
    BY <1>8, TurnShape DEF DataInv
  <2> QED
    BY <2>1, TurnHop
<1>9. CASE InstallCompactionResults
  BY <1>9, InstallShape, InstallHop
<1>10. CASE CompactionFails
  <2>1. UNCHANGED <<options, history, current, mem, imm, flush>> /\ ~Under(compaction)'
    BY <1>10, NoneUnder DEF CompactionFails, memVars, clientVars
  <2>2. Stored' = Stored
    BY <2>1 DEF Stored
  <2> QED
    BY <2>1, <2>2, SameHop
<1> QED
  BY <1>1, <1>2, <1>3, <1>4, <1>5, <1>6, <1>7, <1>8, <1>9, <1>10 DEF Next

\* Unless a client takes snapshots, the entries of a key get older from level
\* to level, and in level 0 from file to file: Version::Get may stop at the
\* first level that has the key.
THEOREM EntriesAge == Spec => [](~options.snapshots => NeverHop)
<1>1. HopInv => (~options.snapshots => NeverHop)
  BY DEF HopInv, Aged, NeverHop
<1> QED
  BY <1>1, DataInvInit, DataInvStep, FileInvInit, FileInvStep, HopInit, HopStep, PTL
     DEF Spec

-----------------------------------------------------------------------------
(* Without snapshots and CompactRange, Get returns the newest entry.       *)

\* Entries with numbers of their own, that a reader at s may all see.
Seen(entries, s) == Distinct(entries) /\ s \in Nat /\ \A e \in entries : e.seq <= s

\* Of fewer entries a reader may see all, too.
LEMMA SeenSubset ==
  ASSUME NEW E, NEW s, Seen(E, s), NEW D, D \subseteq E
  PROVE  Seen(D, s)
  BY DistinctSubset DEF Seen

\* What Newest returns has the key.
LEMMA NewestIn ==
  ASSUME NEW E, NEW k, NEW s, NEW x \in Newest(E, k, s)
  PROVE  x \in E /\ x.key = k
  BY DEF Newest

\* Nothing is found of a key with no entries.
LEMMA NewestNone ==
  ASSUME NEW E, NEW k, NEW s, \A e \in E : e.key # k
  PROVE  Newest(E, k, s) = {}
  BY DEF Newest

\* Where the newest entry is, Newest returns it alone.
LEMMA NewestIs ==
  ASSUME NEW E, NEW s, Seen(E, s), NEW x \in E, IsNewest(E, x)
  PROVE  Newest(E, x.key, s) = {x}
<1>1. ASSUME NEW y \in Newest(E, x.key, s) PROVE y = x
  <2>1. /\ y \in E /\ y.key = x.key
        /\ \A d \in E : d.key = x.key /\ d.seq <= s => d.seq <= y.seq
    BY DEF Newest
  <2>2. x.seq <= y.seq /\ y.seq <= x.seq
    BY <2>1 DEF Seen, IsNewest
  <2>3. x.seq \in Nat /\ y.seq \in Nat
    BY <2>1, EntryFields DEF Seen, Distinct
  <2>4. x.seq = y.seq
    BY <2>2, <2>3
  <2> QED
    BY <2>1, <2>4 DEF Seen, Distinct
<1>2. x \in Newest(E, x.key, s)
  BY DEF Newest, Seen, IsNewest
<1> QED
  BY <1>1, <1>2

\* A key that was written has a newest entry.
LEMMA NewestExists ==
  ASSUME NEW E, NEW s, Seen(E, s), NEW d \in E
  PROVE  \E x \in E : x.key = d.key /\ IsNewest(E, x)
<1> DEFINE S == {e.seq : e \in {c \in E : c.key = d.key}}
<1>1. S \subseteq Nat /\ S # {} /\ s \in Nat /\ \A n \in S : n <= s
  BY EntryFields DEF Seen, Distinct
<1>2. \E m \in S : \A n \in S : n <= m
  <2> HIDE DEF S
  <2> QED
    BY <1>1, GreatestOf
<1>3. PICK m \in S : \A n \in S : n <= m
  BY <1>2
<1>4. PICK x \in E : x.key = d.key /\ x.seq = m
  OBVIOUS
<1>5. IsNewest(E, x)
  BY <1>3, <1>4 DEF IsNewest
<1> QED
  BY <1>4, <1>5

\* FindFile: above level 0 the first of some files is one of them.
LEMMA FirstOfIn ==
  ASSUME NEW v, AllProper(v), SingleFile(v), NEW l \in Levels \ {0},
         NEW files, files \subseteq v[l], files # {}
  PROVE  FirstOf(files) \in files
<1> DEFINE S == {smallest(f).key : f \in files}
<1>1. \A f \in files : Proper(f) /\ f \in v[l]
  BY DEF AllProper
<1>2. S \subseteq Nat /\ S # {}
  BY <1>1, KeyRange
<1>3. \E m \in S : \A n \in S : m <= n
  <2> HIDE DEF S
  <2> QED
    BY <1>2, LeastOf
<1>4. PICK f \in files : \A g \in files : smallest(f).key <= smallest(g).key
  BY <1>3
<1>5. ASSUME NEW g \in files, g # f PROVE BySmallestKey(f, g)
  <2>1. /\ smallest(f) \in f.entries /\ smallest(g) \in g.entries
        /\ smallest(f).key \in Nat /\ smallest(g).key \in Nat
    BY <1>1, KeyRange
  <2>2. smallest(f).key # smallest(g).key
    BY <1>1, <1>5, <2>1 DEF SingleFile
  <2>3. smallest(f).key < smallest(g).key
    BY <1>4, <2>1, <2>2
  <2> QED
    BY <2>3 DEF BySmallestKey, InternalKeyLess
<1>6. \E h \in files : \A g \in files : g = h \/ BySmallestKey(h, g)
  BY <1>5
<1> QED
  BY <1>6, Zenon DEF FirstOf

After(v, l, k, s) ==
  {f \in v[l] : \/ largest(f).key > k
                \/ largest(f).key = k /\ largest(f).seq <= s}

\* Version::Get above level 0: the first file at or after the key.
LEMMA InHigherLevel ==
  ASSUME NEW v, NEW l, l # 0, NEW k, NEW s
  PROVE  GetInLevel(v, l, k, s) =
           IF After(v, l, k, s) = {} THEN {}
           ELSE Newest(FirstOf(After(v, l, k, s)).entries, k, s)
  BY DEF GetInLevel, After

Hits(v, k, s) == {f \in v[0] : Newest(f.entries, k, s) # {}}

\* Version::Get in level 0: the newest file that has the key.
LEMMA InLevel0 ==
  ASSUME NEW v, NEW k, NEW s
  PROVE  GetInLevel(v, 0, k, s) =
           UNION {Newest(f.entries, k, s) : f \in
                    {g \in Hits(v, k, s) : \A h \in Hits(v, k, s) : h.number <= g.number}}
  BY DEF GetInLevel, Hits

\* What Version::Get finds in a level, a file of the level has.
LEMMA FoundInLevel ==
  ASSUME NEW v, AllProper(v), SingleFile(v), NEW l \in Levels, NEW k, NEW s,
         NEW x \in GetInLevel(v, l, k, s)
  PROVE  x.key = k /\ \E f \in v[l] : x \in f.entries
<1>1. CASE l = 0
  <2>1. PICK f \in Hits(v, k, s) : x \in Newest(f.entries, k, s)
    BY <1>1, InLevel0
  <2>2. f \in v[0]
    BY <2>1 DEF Hits
  <2> QED
    BY <1>1, <2>1, <2>2, NewestIn
<1>2. CASE l # 0
  <2>1. After(v, l, k, s) # {} /\ x \in Newest(FirstOf(After(v, l, k, s)).entries, k, s)
    BY <1>2, InHigherLevel
  <2>2. After(v, l, k, s) \subseteq v[l]
    BY DEF After
  <2>3. FirstOf(After(v, l, k, s)) \in v[l]
    BY <1>2, <2>1, <2>2, FirstOfIn
  <2> QED
    BY <2>1, <2>3, NewestIn
<1> QED
  BY <1>1, <1>2

\* The newest entry of a key, in a file of level 0: that file is the newest
\* one with the key.
LEMMA NewestInLevel0 ==
  ASSUME NEW v, NEW E, NEW s, Seen(E, s), Holds(v, E), Aged(v), Numbered(v, 0),
         NEW f \in v[0], NEW x \in f.entries, IsNewest(E, x)
  PROVE  GetInLevel(v, 0, x.key, s) = {x}
<1> DEFINE k == x.key
           H == Hits(v, k, s)
           T == {g \in H : \A h \in H : h.number <= g.number}
<1>0. 0 \in Levels
  BY Constants DEF Levels
<1>1. \A g \in v[0] : g.number \in Nat /\ g.entries \subseteq E
  BY <1>0 DEF Holds, Table
<1>2. Newest(f.entries, k, s) = {x}
  <2>1. Seen(f.entries, s) /\ IsNewest(f.entries, x)
    BY <1>1, SeenSubset DEF IsNewest
  <2> QED
    BY <2>1, NewestIs
<1>3. f \in H
  BY <1>2 DEF Hits
<1>4. ASSUME NEW h \in H PROVE h.number <= f.number
  <2>1. PICK y : y \in Newest(h.entries, k, s)
    BY DEF Hits
  <2>2. y \in h.entries /\ y.key = k /\ h \in v[0]
    BY <2>1, NewestIn DEF Hits
  <2>3. y.seq <= x.seq /\ y.seq \in Nat /\ x.seq \in Nat
    BY <1>1, <2>2, EntryFields DEF IsNewest, Seen, Distinct
  <2>4. ~(x.seq < y.seq)
    BY <2>3
  <2>5. ~(f.number < h.number)
    BY <2>2, <2>4 DEF Aged
  <2> QED
    BY <1>1, <2>2, <2>5
<1>5. T = {f}
  <2>1. f \in T
    BY <1>3, <1>4
  <2>2. ASSUME NEW g \in T PROVE g = f
    <3>1. g \in v[0] /\ g.number <= f.number /\ f.number <= g.number
      BY <1>3, <1>4 DEF Hits
    <3>2. g.number = f.number
      BY <1>1, <3>1
    <3> QED
      BY <3>1, <3>2 DEF Numbered
  <2> HIDE DEF T
  <2> QED
    BY <2>1, <2>2
<1>6. GetInLevel(v, 0, k, s) = UNION {Newest(g.entries, k, s) : g \in T}
  BY InLevel0
<1> HIDE DEF T
<1> QED
  BY <1>2, <1>5, <1>6

\* In a file of a higher level: FindFile returns that file.
LEMMA NewestInHigherLevel ==
  ASSUME NEW v, NEW E, NEW s, Seen(E, s), Holds(v, E), Ordered(v),
         NEW l \in Levels \ {0}, NEW f \in v[l], NEW x \in f.entries, IsNewest(E, x)
  PROVE  GetInLevel(v, l, x.key, s) = {x}
<1> DEFINE k == x.key
           A == After(v, l, k, s)
<1>1. \A g \in v[l] : Proper(g) /\ g.entries \subseteq E
  BY HoldsProper DEF Seen, AllProper, Holds
<1>2. x \in E /\ x \in Entry /\ x.key \in Nat /\ x.seq \in Nat
  BY <1>1, EntryFields DEF Seen, Distinct
<1>3. ASSUME NEW g \in v[l]
      PROVE  /\ largest(g) \in g.entries /\ largest(g) \in E /\ largest(g) \in Entry
             /\ largest(g).key \in Nat /\ largest(g).seq \in Nat
             /\ largest(g).seq <= s /\ smallest(g) \in g.entries
  BY <1>1, KeyRange, EntryFields DEF Seen
<1>4. f \in A
  <2>1. k <= largest(f).key
    BY <1>1, KeyRange
  <2> QED
    BY <1>2, <1>3, <2>1 DEF After
<1>5. ASSUME NEW g \in A, g # f PROVE Precede(f.entries, g.entries)
  <2>1. g \in v[l] /\ (largest(g).key > k \/ largest(g).key = k)
    BY DEF After
  <2>2. SUFFICES ASSUME Precede(g.entries, f.entries) PROVE FALSE
    BY <1>5, <2>1 DEF Ordered, Apart
  <2>3. InternalKeyLess(largest(g), x)
    BY <1>3, <2>1, <2>2 DEF Precede
  <2>4. largest(g).key = k => largest(g).seq <= x.seq
    BY <1>3, <2>1 DEF IsNewest
  <2> QED
    BY <1>2, <1>3, <2>1, <2>3, <2>4 DEF InternalKeyLess
<1>6. ASSUME NEW g \in A, g # f
      PROVE  BySmallestKey(f, g) /\ ~BySmallestKey(g, f)
  <2>1. g \in v[l]
    BY DEF After
  <2>2. InternalKeyLess(smallest(f), smallest(g))
    BY <1>3, <1>5, <1>6, <2>1 DEF Precede
  <2>3. smallest(f) \in Entry /\ smallest(g) \in Entry
    BY <1>1, <2>1, KeyRange
  <2>4. ~InternalKeyLess(smallest(g), smallest(f)) /\ smallest(g) # smallest(f)
    BY <2>2, <2>3, LessIrreflexive, LessTransitive
  <2> QED
    BY <2>2, <2>4 DEF BySmallestKey
<1>7. FirstOf(A) = f
  <2>1. \E h \in A : \A g \in A : g = h \/ BySmallestKey(h, g)
    BY <1>4, <1>6
  <2>2. ASSUME NEW h \in A, \A g \in A : g = h \/ BySmallestKey(h, g) PROVE h = f
    BY <1>4, <1>6, <2>2
  <2> HIDE DEF A
  <2> QED
    BY <2>1, <2>2, Zenon DEF FirstOf
<1>8. Seen(f.entries, s) /\ IsNewest(f.entries, x)
  BY <1>1, SeenSubset DEF IsNewest
<1>9. Newest(f.entries, k, s) = {x}
  BY <1>8, NewestIs
<1>10. GetInLevel(v, l, k, s) = IF A = {} THEN {} ELSE Newest(FirstOf(A).entries, k, s)
  BY InHigherLevel
<1> QED
  BY <1>4, <1>7, <1>9, <1>10

-----------------------------------------------------------------------------
(* DBImpl::Get.                                                            *)

HitLevels(v, k, s) == {l \in Levels : GetInLevel(v, l, k, s) # {}}
TopOf(levels) == CHOOSE l \in levels : \A m \in levels : l <= m

\* DBImpl::Get, one place after the other.
LEMMA GetOf ==
  ASSUME NEW k, NEW s
  PROVE  Get(k, s) =
           IF Newest(mem, k, s) # {} THEN Newest(mem, k, s)
           ELSE IF Newest(imm, k, s) # {} THEN Newest(imm, k, s)
           ELSE IF HitLevels(current, k, s) = {} THEN {}
           ELSE GetInLevel(current, TopOf(HitLevels(current, k, s)), k, s)
<1> DEFINE inLevel == [l \in Levels |-> GetInLevel(current, l, k, s)]
           hit == {l \in Levels : inLevel[l] # {}}
           H == HitLevels(current, k, s)
           top == CHOOSE l \in hit : \A m \in hit : l <= m
<1>1. Get(k, s) = IF Newest(mem, k, s) # {} THEN Newest(mem, k, s)
                  ELSE IF Newest(imm, k, s) # {} THEN Newest(imm, k, s)
                  ELSE IF hit = {} THEN {} ELSE inLevel[top]
  BY DEF Get
<1>2. hit = H /\ H \subseteq Levels
  BY DEF HitLevels
<1>3. H # {} => TopOf(H) \in H
  <2>1. Levels \subseteq Nat
    BY DEF Levels
  <2>2. H # {} => \E l \in H : \A m \in H : l <= m
    <3> HIDE DEF H
    <3> QED
      BY <1>2, <2>1, LeastOf
  <2> HIDE DEF H
  <2> QED
    BY <2>2, Zenon DEF TopOf
<1>4. top = TopOf(H)
  <2> HIDE DEF hit, H
  <2> QED
    BY <1>2, Zenon DEF TopOf
<1>5. H # {} => inLevel[top] = GetInLevel(current, TopOf(H), k, s)
  <2> HIDE DEF top, H
  <2> QED
    BY <1>2, <1>3, <1>4
<1> HIDE DEF inLevel, hit, top, H
<1>6. Get(k, s) = IF Newest(mem, k, s) # {} THEN Newest(mem, k, s)
                  ELSE IF Newest(imm, k, s) # {} THEN Newest(imm, k, s)
                  ELSE IF H = {} THEN {} ELSE GetInLevel(current, TopOf(H), k, s)
  BY <1>1, <1>2, <1>5
<1> QED
  BY <1>6 DEF H

\* The first level where something is found.
LEMMA TopIs ==
  ASSUME NEW H, H \subseteq Nat, NEW l \in H, \A m \in H : l <= m
  PROVE  TopOf(H) = l
<1>1. ASSUME NEW n \in H, \A m \in H : n <= m PROVE n = l
  <2>1. n <= l /\ l <= n /\ n \in Nat /\ l \in Nat
    BY <1>1
  <2> QED
    BY <2>1
<1> QED
  BY <1>1, Zenon DEF TopOf

\* What is stored of a key that has no entry stored: nothing.
LEMMA GetNone ==
  ASSUME AllProper(current), SingleFile(current), NEW k, NEW s,
         \A d \in Stored : d.key # k
  PROVE  Get(k, s) = {}
<1>1. Newest(mem, k, s) = {} /\ Newest(imm, k, s) = {}
  BY NewestNone DEF Stored
<1>2. HitLevels(current, k, s) = {}
  <2> SUFFICES ASSUME NEW l \in Levels, NEW x \in GetInLevel(current, l, k, s) PROVE FALSE
    BY DEF HitLevels
  <2>1. x.key = k /\ \E f \in current[l] : x \in f.entries
    BY FoundInLevel
  <2>2. x \in Stored
    BY <2>1, LevelEntriesOf, StoredOf
  <2> QED
    BY <2>1, <2>2
<1> QED
  BY <1>1, <1>2, GetOf

\* The newest entry of a key, stored, is what Get returns.
LEMMA GetNewest ==
  ASSUME DataInv, Ordered(current), Aged(current), SingleFile(current),
         Numbered(current, 0), NEW x \in Stored, IsNewest(history, x)
  PROVE  Get(x.key, last_sequence) = {x}
<1> DEFINE k == x.key
           s == last_sequence
<1>1. Seen(history, s)
  BY DEF DataInv, MemInv, Seen
<1>2. /\ mem \subseteq history /\ imm \subseteq history /\ Holds(current, history)
      /\ Newer(mem, imm) /\ Newer(mem \cup imm, LevelEntries(current))
  BY DEF DataInv, MemInv, VersionInv, Newer
<1>3. ASSUME NEW d \in history, d.key = k PROVE ~(d.seq > x.seq)
  <2>1. d.seq <= x.seq /\ d.seq \in Nat /\ x.seq \in Nat
    BY <1>1, <1>3, StoredWritten, EntryFields DEF IsNewest, Seen, Distinct
  <2> QED
    BY <2>1
<1>4. \A E : E \subseteq history /\ x \in E => Newest(E, k, s) = {x}
  BY <1>1, SeenSubset, NewestIs DEF IsNewest
<1>5. CASE x \in mem
  BY <1>2, <1>4, <1>5, GetOf
<1>6. CASE x \in imm
  <2>1. \A d \in mem : d.key # k
    BY <1>2, <1>3, <1>6 DEF Newer
  <2>2. Newest(mem, k, s) = {}
    BY <2>1, NewestNone
  <2> QED
    BY <1>2, <1>4, <1>6, <2>2, GetOf
<1>7. CASE x \in LevelEntries(current)
  <2>1. \A d \in mem \cup imm : d.key # k
    BY <1>2, <1>3, <1>7 DEF Newer
  <2>2. Newest(mem, k, s) = {} /\ Newest(imm, k, s) = {}
    BY <2>1, NewestNone
  <2>3. PICK l \in Levels : \E f \in current[l] : x \in f.entries
    BY <1>7, LevelEntriesOf
  <2>4. PICK f \in current[l] : x \in f.entries
    BY <2>3
  <2>5. GetInLevel(current, l, k, s) = {x}
    <3>1. CASE l = 0
      BY <1>1, <1>2, <2>4, <3>1, NewestInLevel0
    <3>2. CASE l # 0
      BY <1>1, <1>2, <2>4, <3>2, NewestInHigherLevel
    <3> QED
      BY <3>1, <3>2
  <2>6. AllProper(current) /\ LevelEntries(current) \subseteq history
    BY <1>1, <1>2, HoldsProper DEF Seen
  <2>7. ASSUME NEW m \in HitLevels(current, k, s) PROVE ~(m < l)
    <3>1. m \in Levels
      BY DEF HitLevels
    <3>2. PICK y : y \in GetInLevel(current, m, k, s)
      BY DEF HitLevels
    <3>3. y.key = k /\ \E g \in current[m] : y \in g.entries
      BY <2>6, <3>1, <3>2, FoundInLevel
    <3>4. y \in history
      BY <2>6, <3>1, <3>3, LevelEntriesOf
    <3>5. ~(y.seq > x.seq)
      BY <1>3, <3>3, <3>4
    <3> QED
      BY <2>4, <3>1, <3>3, <3>5, AgedOf
  <2>8. TopOf(HitLevels(current, k, s)) = l
    <3>1. HitLevels(current, k, s) \subseteq Nat /\ l \in HitLevels(current, k, s) /\ l \in Nat
      BY <2>5 DEF HitLevels, Levels
    <3>2. \A m \in HitLevels(current, k, s) : l <= m
      BY <2>7, <3>1
    <3> QED
      BY <3>1, <3>2, TopIs
  <2>9. HitLevels(current, k, s) # {}
    BY <2>5 DEF HitLevels
  <2> QED
    BY <2>2, <2>5, <2>8, <2>9, GetOf
<1> QED
  BY <1>5, <1>6, <1>7, StoredOf

\* A read without a snapshot, in a database whose clients take no snapshots
\* and do not call CompactRange, returns the newest write of the key, or
\* nothing if that is a deletion, at every moment of every flush, compaction
\* and trivial move (DBImpl::Get, Version::Get, DoCompactionWork).
THEOREM GetReadsNewest ==
  Spec => [](~options.manual /\ ~options.snapshots => ReadsNewest)
<1>1. ASSUME DataInv, DisjInv, HopInv, ~options.manual, ~options.snapshots
      PROVE  ReadsNewest
  <2>1. snapshots = {}
    BY <1>1 DEF DataInv, MemInv
  <2>2. /\ Ordered(current) /\ Aged(current) /\ SingleFile(current) /\ Numbered(current, 0)
        /\ NewestKept(history, Stored)
    BY <1>1 DEF DisjInv, HopInv, Numbered
  <2>3. AllProper(current) /\ Seen(history, last_sequence)
    BY <1>1, HoldsProper DEF DataInv, MemInv, VersionInv, Seen
  <2> SUFFICES ASSUME NEW k \in Keys
               PROVE  Found(Get(k, last_sequence)) = Found(Newest(history, k, last_sequence))
    BY <2>1 DEF ReadsNewest
  <2>4. CASE \A d \in history : d.key # k
    <3>1. \A d \in Stored : d.key # k
      BY <1>1, <2>4, StoredWritten
    <3>2. Get(k, last_sequence) = {}
      BY <2>2, <2>3, <3>1, GetNone
    <3>3. Newest(history, k, last_sequence) = {}
      BY <2>4, NewestNone
    <3> QED
      BY <3>2, <3>3
  <2>5. CASE \E d \in history : d.key = k
    <3>1. PICK x \in history : x.key = k /\ IsNewest(history, x)
      BY <2>3, <2>5, NewestExists
    <3>2. Newest(history, k, last_sequence) = {x}
      BY <2>3, <3>1, NewestIs
    <3>3. CASE x \in Stored
      <4>1. Get(k, last_sequence) = {x}
        BY <1>1, <2>2, <3>1, <3>3, GetNewest
      <4> QED
        BY <3>2, <4>1
    <3>4. CASE x \notin Stored
      <4>1. x.type = "deletion" /\ \A d \in Stored : d.key # k
        BY <2>2, <3>1, <3>4 DEF NewestKept
      <4>2. Get(k, last_sequence) = {}
        BY <2>2, <2>3, <4>1, GetNone
      <4> QED
        BY <3>2, <4>1, <4>2 DEF Found
    <3> QED
      BY <3>3, <3>4
  <2> QED
    BY <2>4, <2>5
<1>2. DataInv /\ DisjInv /\ HopInv => (~options.manual /\ ~options.snapshots => ReadsNewest)
  BY <1>1
<1> QED
  BY <1>2, DataInvInit, DataInvStep, FileInvInit, FileInvStep, DisjInit, DisjStep, HopInit,
     HopStep, PTL DEF Spec
=============================================================================
