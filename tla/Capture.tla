------------------------------ MODULE Capture -------------------------------
(***************************************************************************)
(* From the map to a saved photo: MapViewController, the image picker and  *)
(* NewPhotoViewController, with the full-screen view of the new photo.     *)
(*                                                                         *)
(* Photo is a value: prepare(for:) copies the map's photo into the         *)
(* new-photo screen, didClickImage copies that one into the full-screen    *)
(* view, and savePhoto gets a copy.  The edits live in the fields and, by  *)
(* way of the delegates' callbacks, in the screen's copy.                  *)
(*                                                                         *)
(* Of a photo only what the user can edit is kept: its name and category.  *)
(***************************************************************************)
EXTENDS Integers

CONSTANTS
  Titles,            \* the texts typed into the title
  Categories,        \* Category
  DefaultCategory,   \* Category.Default
  SampleTitle,       \* the name imagePickerController gives every photo
  NoPhoto,           \* photo == nil
  MaxPicks           \* bound: photos picked on one map

VARIABLES
  screen,            \* what is on top
  picks,             \* photos picked on this map
  photo,             \* NewPhotoViewController.photo
  editTextView,      \* its title field
  categoryViewText,  \* its category field
  detailPhoto,       \* DetailPhotoViewController.photo
  savedPhoto         \* the photo last handed to Repo.savePhoto

vars == <<screen, picks, photo, editTextView, categoryViewText, detailPhoto,
          savedPhoto>>

----------------------------------------------------------------------------
\* What imagePickerController makes of every image, whatever was picked.
pickedPhoto == [name |-> SampleTitle, category |-> DefaultCategory]

Init ==
  /\ screen = "map"
  /\ picks = 0
  /\ photo = NoPhoto
  /\ editTextView = SampleTitle
  /\ categoryViewText = DefaultCategory
  /\ detailPhoto = NoPhoto
  /\ savedPhoto = NoPhoto

show(from, to) ==
  /\ screen = from
  /\ screen' = to

editorVars == <<picks, photo, editTextView, categoryViewText, detailPhoto,
                savedPhoto>>

----------------------------------------------------------------------------
(* The map. *)

categoryOnClick ==
  /\ show("map", "categories")
  /\ UNCHANGED editorVars

didDoneButtonClick ==
  /\ show("categories", "map")
  /\ UNCHANGED editorVars

\* The camera button, or the end of a long press, which also adds a point to
\* the map.
showPictureOption ==
  /\ picks < MaxPicks
  /\ show("map", "sheet")
  /\ UNCHANGED editorVars

\* A device may have no camera.
startCamera ==
  /\ show("sheet", "picker") \/ show("sheet", "toast")
  /\ UNCHANGED editorVars

getImageFromLibrary ==
  /\ show("sheet", "picker")
  /\ UNCHANGED editorVars

\* The sheet's or the picker's cancel button, the toast's OK.
Cancelled ==
  /\ show("sheet", "map") \/ show("picker", "map") \/ show("toast", "map")
  /\ UNCHANGED editorVars

\* NewPhotoViewController.viewDidLoad fills the fields from its photo.
viewDidLoad(p) ==
  /\ photo' = p
  /\ editTextView' = p.name
  /\ categoryViewText' = p.category

\* An image is picked: the picker is dismissed and the segue performed at once.
\* UIKit may refuse to present while the dismissal is going on.  The new screen
\* gets a copy of the photo.  (Anything but an image is ignored.)
imagePickerController ==
  /\ picks' = picks + 1
  /\ \/ /\ show("picker", "newPhoto")
        /\ viewDidLoad(pickedPhoto)
     \/ /\ show("picker", "map")
        /\ UNCHANGED <<photo, editTextView, categoryViewText>>
  /\ UNCHANGED <<detailPhoto, savedPhoto>>

----------------------------------------------------------------------------
(* The new photo. *)

\* Faulty variant: the screen's copy is brought up to date by Done only.
textViewDidChange_NotStored(title) ==
  /\ screen = "newPhoto"
  /\ editTextView' = title
  /\ UNCHANGED <<screen, picks, photo, categoryViewText, detailPhoto,
                 savedPhoto>>

textViewDidChange(title) ==
  /\ screen = "newPhoto"
  /\ editTextView' = title
  /\ photo' = [photo EXCEPT !.name = title]
  /\ UNCHANGED <<screen, picks, categoryViewText, detailPhoto, savedPhoto>>

\* Faulty variant: update changes what is shown only.
update_ShownOnly(category) ==
  /\ categoryViewText' = category
  /\ UNCHANGED photo

update(category) ==
  /\ categoryViewText' = category
  /\ photo' = [photo EXCEPT !.category = category]

didSelectRow(category) ==
  /\ screen = "newPhoto"
  /\ update(category)
  /\ UNCHANGED <<screen, picks, editTextView, detailPhoto, savedPhoto>>

didClickImage ==
  /\ show("newPhoto", "detail")
  /\ detailPhoto' = photo
  /\ UNCHANGED <<picks, photo, editTextView, categoryViewText, savedPhoto>>

backButtonPressed ==
  /\ show("detail", "newPhoto")
  /\ detailPhoto' = NoPhoto
  /\ UNCHANGED <<picks, photo, editTextView, categoryViewText, savedPhoto>>

\* The screen goes away with its copy.
dismiss ==
  /\ show("newPhoto", "map")
  /\ photo' = NoPhoto
  /\ editTextView' = SampleTitle
  /\ categoryViewText' = DefaultCategory
  /\ UNCHANGED <<picks, detailPhoto>>

cancelButton ==
  /\ dismiss
  /\ UNCHANGED savedPhoto

doneButton ==
  /\ dismiss
  /\ savedPhoto' = [photo EXCEPT !.name = editTextView]

----------------------------------------------------------------------------
\* Every step but doneButton, which also calls Repo.
Browse ==
  \/ categoryOnClick
  \/ didDoneButtonClick
  \/ showPictureOption
  \/ startCamera
  \/ getImageFromLibrary
  \/ Cancelled
  \/ imagePickerController
  \/ \E title \in Titles : textViewDidChange(title)
  \/ \E category \in Categories : didSelectRow(category)
  \/ didClickImage
  \/ backButtonPressed
  \/ cancelButton

Next == Browse \/ doneButton

Spec == Init /\ [][Next]_vars

----------------------------------------------------------------------------
(* Properties. *)

\* What the fields show.
shown == [name |-> editTextView, category |-> categoryViewText]

\* doneButton hands savePhoto what the screen shows at the tap: the title and
\* the category the user chose last, in whatever order and however often, also
\* after looking at the photo full screen.
SavedAsShown ==
  [][savedPhoto' # savedPhoto /\ savedPhoto' # NoPhoto => savedPhoto' = shown]_vars

\* The full-screen view opened from the new photo shows the edits made so far,
\* although nothing was saved yet.
DetailShowsEdited == screen = "detail" => detailPhoto = shown
=============================================================================
