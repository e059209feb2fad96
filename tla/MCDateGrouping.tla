--------------------------- MODULE MCDateGrouping ---------------------------
(***************************************************************************)
(* The two groupings on every array of at most MaxLength dates, checked    *)
(* against a plain definition of grouping by month.                        *)
(*                                                                         *)
(* Five dates in three months: two days of January 2014, one of February   *)
(* 2014 and two of January 2015.  A date is the number of days since the   *)
(* first of January 2014.                                                  *)
(***************************************************************************)
EXTENDS DateGrouping

CONSTANT MaxLength   \* bound: the length of the array

Dates == {0, 27, 58, 365, 392}

monthOf == [d \in Dates |-> [year |-> IF d < 365 THEN 2014 ELSE 2015,
                             month |-> IF d = 58 THEN 2 ELSE 1]]

Arrays == UNION {[1..n -> Dates] : n \in 0..MaxLength}

VARIABLE inputArray   \* the array of dates that is grouped

----------------------------------------------------------------------------
(* Properties. *)

\* dividePhotosIntoSections: each month that occurs has one section, sections
\* come in the order of their first photo, and a section holds exactly its
\* month's photos in the order of the array.
DivideGroupsByMonth ==
  LET s == dividePhotosIntoSections(inputArray, monthOf)
      first(m) == SelectInSeq(inputArray, LAMBDA d : monthOf[d] = m)
  IN /\ IsInjective(s.sectionsAll)
     /\ ToSet(s.sectionsAll) = {monthOf[d] : d \in ToSet(inputArray)}
     /\ DOMAIN s.photosbySection = ToSet(s.sectionsAll)
     /\ \A i, j \in DOMAIN s.sectionsAll :
          i < j => first(s.sectionsAll[i]) < first(s.sectionsAll[j])
     /\ \A m \in DOMAIN s.photosbySection :
          s.photosbySection[m] =
            SelectSeq(inputArray, LAMBDA d : monthOf[d] = m)

\* sortDateByMonth: the groups put end to end are the sorted array, no group
\* is empty, each is of one month, and no month has two groups.
SortedGroupsByMonth ==
  inputArray # <<>> =>
    LET groups == sortDateByMonth(inputArray, monthOf)
    IN /\ FlattenSeq(groups) = SortSeq(inputArray, <)
       /\ \A g \in DOMAIN groups :
            /\ groups[g] # <<>>
            /\ \A d, e \in ToSet(groups[g]) : monthOf[d] = monthOf[e]
       /\ \A g, h \in DOMAIN groups :
            monthOf[groups[g][1]] = monthOf[groups[h][1]] => g = h
=============================================================================
