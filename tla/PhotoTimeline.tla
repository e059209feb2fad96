---------------------------- MODULE PhotoTimeline ---------------------------
(***************************************************************************)
(* CategoryViewController: the photos of viewDidLoad in a table, one       *)
(* section per month, and a search field that filters them by tags.        *)
(*                                                                         *)
(* The table view asks for the number of sections and rows at its first    *)
(* layout and at reloadData, and keeps the answers; the row a user taps is *)
(* one of those, while the handler indexes the arrays as they are now.     *)
(*                                                                         *)
(* A search text is known by whether it is empty and by its words: a text  *)
(* of blanks is not empty and has none.  Sections and rows count from 1.   *)
(***************************************************************************)
EXTENDS Integers, SequencesExt, DateGrouping

CONSTANTS
  photoArray,      \* the photos of viewDidLoad, in order
  monthYearDate,   \* the title of a photo's month
  SearchTexts,     \* the texts typed: [isEmpty, words]
  withHash,        \* a word with "#" in front unless it starts with one
  contained,       \* the tags contained in a photo's name
  Nothing          \* no photo is shown full screen

Photos == ToSet(photoArray)
Titles == {monthYearDate[p] : p \in Photos}
EmptyText == [isEmpty |-> TRUE, words |-> {}]

ASSUME TimelineAssumption ==
  /\ photoArray \in Seq(Photos) /\ IsInjective(photoArray)
  /\ EmptyText \in SearchTexts
  /\ \A t \in SearchTexts : t.isEmpty <=> t = EmptyText
  /\ Nothing \notin Photos

VARIABLES
  sectionsAll,       \* the titles of the sections
  photosbySection,   \* the photos of each title
  dictionaryOrder,   \* the order in which photosbySection is iterated
  searchText,        \* searchView.text
  photosWithTag,     \* the photos found by the last search
  tableRows,         \* what the table view knows: the rows of each section
  tapped,            \* the row whose photo is shown full screen
  opened             \* DetailPhotoViewController.photo

vars == <<sectionsAll, photosbySection, dictionaryOrder, searchText,
          photosWithTag, tableRows, tapped, opened>>

----------------------------------------------------------------------------
(* Data source.  The operators take the state they read, because the table *)
(* asks in the middle of a handler.                                        *)

isFilterNow(text) == ~text.isEmpty

numberOfRowsInSection(text, found, sections, bySection, s) ==
  IF isFilterNow(text) THEN Len(found) ELSE Len(bySection[sections[s]])

\* numberOfSections does not depend on the filter.
reloadData(text, found, sections, bySection) ==
  [s \in DOMAIN sections |->
     numberOfRowsInSection(text, found, sections, bySection, s)]

titleForHeaderInSection(s) ==
  IF isFilterNow(searchText) THEN Nothing ELSE sectionsAll[s]

----------------------------------------------------------------------------
(* Search. *)

makeSearchTagsFromText(text) == {withHash[w] : w \in text.words}

\* Faulty variant: a photo must have every tag.
isHasTags_All(photo, tags) == tags \subseteq contained[photo]

isHasTags(photo, tags) == tags \cap contained[photo] # {}

\* photos.filter: the photos that have a tag, in their order.
filtered(photos, tags) ==
  LET kept[n \in 0..Len(photos)] ==
        IF n = 0 THEN <<>>
        ELSE IF isHasTags(photos[n], tags) THEN Append(kept[n - 1], photos[n])
        ELSE kept[n - 1]
  IN kept[Len(photos)]

\* Appended to photosWithTag, month by month in the dictionary's order.
filterPhotosToShow(text, found, bySection, order) ==
  LET tags == makeSearchTagsFromText(text)
      after[i \in 0..Len(order)] ==
        IF i = 0 THEN found
        ELSE after[i - 1] \o filtered(bySection[order[i]], tags)
  IN after[Len(order)]

----------------------------------------------------------------------------
\* viewDidLoad, and the table's first layout.  The order of a Swift dictionary
\* is arbitrary, and stays while the dictionary does.
Init ==
  LET s == dividePhotosIntoSections(photoArray, monthYearDate)
  IN /\ sectionsAll = s.sectionsAll
     /\ photosbySection = s.photosbySection
     /\ dictionaryOrder \in SetToSeqs(DOMAIN s.photosbySection)
     /\ searchText = EmptyText
     /\ photosWithTag = <<>>
     /\ tableRows = reloadData(EmptyText, <<>>, s.sectionsAll, s.photosbySection)
     /\ tapped = <<>>
     /\ opened = Nothing

\* Faulty variant: the results of the last search are kept.
textDidChange_NoRemoveAll(text) ==
  /\ opened = Nothing
  /\ searchText' = text
  /\ photosWithTag' = filterPhotosToShow(text, photosWithTag, photosbySection,
                                       dictionaryOrder)
  /\ tableRows' = reloadData(text, photosWithTag', sectionsAll, photosbySection)
  /\ UNCHANGED <<sectionsAll, photosbySection, dictionaryOrder, tapped, opened>>

\* Faulty variant: the table is not told.
textDidChange_NoReload(text) ==
  /\ opened = Nothing
  /\ searchText' = text
  /\ photosWithTag' = filterPhotosToShow(text, <<>>, photosbySection,
                                       dictionaryOrder)
  /\ UNCHANGED <<sectionsAll, photosbySection, dictionaryOrder, tableRows,
                 tapped, opened>>

\* The text changes: remove the old results, filter, reload.
textDidChange(text) ==
  /\ opened = Nothing
  /\ searchText' = text
  /\ photosWithTag' = filterPhotosToShow(text, <<>>, photosbySection,
                                       dictionaryOrder)
  /\ tableRows' = reloadData(text, photosWithTag', sectionsAll, photosbySection)
  /\ UNCHANGED <<sectionsAll, photosbySection, dictionaryOrder, tapped, opened>>

\* Faulty variant: the photo is looked up in the whole array.
photoAt_Array(s, row) == photoArray[row]

\* The photo didSelectRowAt opens, Nothing if it ignores the tap.
photoAt(s, row) ==
  IF isFilterNow(searchText) THEN photosWithTag[row]
  ELSE IF row <= Len(sectionsAll) THEN photosbySection[sectionsAll[s]][row]
  ELSE Nothing

\* A row of the table is tapped and its photo shown full screen.
didSelectRowAt(s, row) ==
  /\ opened = Nothing
  /\ opened' = photoAt(s, row)
  /\ tapped' = IF opened' = Nothing THEN <<>> ELSE <<s, row>>
  /\ UNCHANGED <<sectionsAll, photosbySection, dictionaryOrder, searchText,
                 photosWithTag, tableRows>>

\* DetailPhotoViewController is dismissed.
backButtonPressed ==
  /\ opened # Nothing
  /\ opened' = Nothing
  /\ tapped' = <<>>
  /\ UNCHANGED <<sectionsAll, photosbySection, dictionaryOrder, searchText,
                 photosWithTag, tableRows>>

Next ==
  \/ \E text \in SearchTexts : textDidChange(text)
  \/ \E s \in DOMAIN tableRows : \E row \in 1..tableRows[s] :
       didSelectRowAt(s, row)
  \/ backButtonPressed

Spec == Init /\ [][Next]_vars

----------------------------------------------------------------------------
(* Properties. *)

\* The types of the arrays of CategoryViewController, of the table's cached
\* counts and of the photo handed to DetailPhotoViewController.
TypeOK ==
  /\ sectionsAll \in Seq(Titles)
  /\ photosbySection \in [Titles -> Seq(Photos)]
  /\ dictionaryOrder \in Seq(Titles)
  /\ searchText \in SearchTexts
  /\ photosWithTag \in Seq(Photos)
  /\ tableRows \in [DOMAIN sectionsAll -> 0..Len(photoArray)]
  /\ tapped = <<>> \/ tapped \in Nat \X Nat
  /\ opened \in Photos \cup {Nothing}

\* Every row the table believes in can be asked for and tapped: no array is
\* indexed out of its range, whatever was typed before.
RowsInBounds ==
  \A s \in DOMAIN tableRows :
    /\ tableRows[s] <= Len(photoArray)
    /\ tableRows[s] <= IF isFilterNow(searchText) THEN Len(photosWithTag)
                       ELSE Len(photosbySection[sectionsAll[s]])

\* The search finds exactly the photos that have one of the tags, each once,
\* after any sequence of texts.
FilteredOnce ==
  /\ IsInjective(photosWithTag)
  /\ ToSet(photosWithTag) =
       {p \in Photos : \E w \in searchText.words : withHash[w] \in contained[p]}

\* The photo shown full screen is of the month in the header of the tapped
\* section; while the table is filtered it has one of the tags.
OpenedBelongs ==
  opened # Nothing =>
    IF isFilterNow(searchText)
    THEN \E w \in searchText.words : withHash[w] \in contained[opened]
    ELSE monthYearDate[opened] = titleForHeaderInSection(tapped[1])
=============================================================================
