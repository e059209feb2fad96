---------------------------- MODULE DateGrouping ----------------------------
(***************************************************************************)
(* The two ways the code groups what it shows by month:                    *)
(* CategoryViewController.dividePhotosIntoSections keeps the order of the  *)
(* photos and finds the section of each in a dictionary;                   *)
(* DateArrayConversionHelper.sortDateByMonth sorts first and then starts a *)
(* new group wherever the year or the month changes.                       *)
(*                                                                         *)
(* A date is an integer; monthOf gives its yearInt and its monthInt, and   *)
(* monthYearDate the title of a photo's section.                           *)
(***************************************************************************)
EXTENDS Integers, SequencesExt

----------------------------------------------------------------------------
\* The sections of no photo.
noSections == [sectionsAll |-> <<>>, photosbySection |-> << >>]

\* Faulty variant: a new section does not get its first photo.
addPhoto_EmptySection(sections, photo, title) ==
  IF title \in DOMAIN sections.photosbySection
  THEN [sections EXCEPT !.photosbySection[title] = Append(@, photo)]
  ELSE [sectionsAll |-> Append(sections.sectionsAll, title),
        photosbySection |-> sections.photosbySection @@ (title :> <<>>)]

\* One turn of the loop of dividePhotosIntoSections.
addPhoto(sections, photo, title) ==
  IF title \in DOMAIN sections.photosbySection
  THEN [sections EXCEPT !.photosbySection[title] = Append(@, photo)]
  ELSE [sectionsAll |-> Append(sections.sectionsAll, title),
        photosbySection |->
          [t \in DOMAIN sections.photosbySection \cup {title} |->
             IF t = title THEN <<photo>> ELSE sections.photosbySection[t]]]

\* The loop: sections[n] after n photos.  monthYearDate is the title of each
\* photo's section.
dividePhotosIntoSections(photos, monthYearDate) ==
  LET sections[n \in 0..Len(photos)] ==
        IF n = 0 THEN noSections
        ELSE addPhoto(sections[n - 1], photos[n], monthYearDate[photos[n]])
  IN sections[Len(photos)]

----------------------------------------------------------------------------
\* Faulty variant: the year is forgotten.
sameMonth_NoYear(d, e) == d.month = e.month

sameMonth(d, e) ==
  /\ d.year = e.year
  /\ d.month = e.month

\* inputArray.sort()
sortedDates(dates) == SortSeq(dates, <)

\* The loop starts from a group with the first date, so an empty array is an
\* index out of range: the operator is for arrays that have a first date.
sortDateByMonth(dates, monthOf) ==
  LET sorted == sortedDates(dates)
      turn(groups, i) ==
        IF sameMonth(monthOf[sorted[i]], monthOf[sorted[i - 1]])
        THEN [groups EXCEPT ![Len(groups)] = Append(@, sorted[i])]
        ELSE Append(groups, <<sorted[i]>>)
  IN FoldLeft(turn, <<<<sorted[1]>>>>, [j \in 1..(Len(sorted) - 1) |-> j + 1])
=============================================================================
