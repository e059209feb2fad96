-------------------------- MODULE MCPhotoTimeline ---------------------------
(***************************************************************************)
(* The nine photos of viewDidLoad, known by their ids, with the months and *)
(* the tags of their names.  Beside the timeline, and apart from it, is an *)
(* array of dates for the two groupings: every array with one order of the *)
(* dictionary, none with the others.                                       *)
(***************************************************************************)
EXTENDS PhotoTimeline, MCDateGrouping

MCphotoArray == <<1, 2, 3, 4, 5, 6, 7, 8, 9>>

MCmonthYearDate ==
  <<"April 2014", "February 2014", "January 2014", "January 2014",
    "January 2014", "April 2015", "March 2015", "April 2013", "January 2012">>

text(words) == [isEmpty |-> FALSE, words |-> words]

\* No text, blanks, a tag of two photos typed with and without "#", the "#"
\* every tag begins with, two tags, and a word that is no tag.
MCSearchTexts ==
  {EmptyText, text({}), text({"tag"}), text({"#tag"}), text({"#"}),
   text({"vvv", "tag"}), text({"photo2"})}

MCwithHash ==
  [w \in {"tag", "#tag", "#", "vvv", "photo2"} |->
     CASE w = "tag" -> "#tag"
       [] w = "vvv" -> "#vvv"
       [] w = "photo2" -> "#photo2"
       [] OTHER -> w]

MCcontained ==
  <<{"#", "#vvv"}, {"#"}, {}, {"#"}, {}, {"#"}, {}, {"#", "#tag"},
    {"#", "#tag"}>>

MCInit ==
  /\ Init
  /\ inputArray \in IF dictionaryOrder = sectionsAll THEN Arrays ELSE {<<>>}

MCNext == Next /\ UNCHANGED inputArray

MCSpec == MCInit /\ [][MCNext]_<<vars, inputArray>>
=============================================================================
