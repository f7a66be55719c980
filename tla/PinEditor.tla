------------------------------ MODULE PinEditor ------------------------------
(***************************************************************************)
(* The two screens that save a spot: CustomPinViewController, a tab whose  *)
(* pin is dropped by a long press, and NewPinViewController, presented for *)
(* one search result whose pin is there from the start. Both read the pin  *)
(* back from the map's annotations, which also hold the dot that shows the *)
(* user's position, and both upload the photo from the callback of a query *)
(* for the user's spots, issued after the spot's document was added.       *)
(*                                                                         *)
(* The device's position reaches the app twice: through the location       *)
(* manager and through the map's dot, each at its own time.                *)
(***************************************************************************)
EXTENDS Naturals, Sequences

CONSTANTS
  Places,     \* coordinates, told apart as the code does: to 4 decimals
  NoPlace,    \* nil
  Records,    \* genre records the dropdown's rows are parsed to
  NoGenre,    \* the record "null"
  MaxDrops,   \* bound on the pins dropped
  MaxPhotos,  \* bound on the photos picked; a photo is its number, 0 is none
  MaxSpots    \* bound on the spots saved; a spot is its number

ASSUME PlaceAssumption == NoPlace \notin Places
ASSUME PinBounds == MaxDrops \in Nat /\ MaxPhotos \in Nat /\ MaxSpots \in Nat

VARIABLES
  screen,            \* which of the two: "custom" or "search"
  coordinateData,    \* where the pin in progress was put, or NoPlace
  mapPin,            \* the pin's annotation on the map
  currentAnnotation, \* does the screen hold on to that annotation
  drops,             \* pins put on the map so far
  here,              \* manager.location
  dot,               \* the map's annotation of the user's position
  title,             \* is there text in the title field
  preview,           \* the photo shown
  imageData,         \* the photo whose PNG data is at hand
  photos,            \* photos picked so far
  unreadable,        \* photos UIImage could make no PNG data of
  selectedGenre,
  spots,             \* the "spots" documents, in the order of addDocument
  queries,           \* the photo queries without an answer, by the spot's number
  mainQ,             \* their answers: how many documents each one lists
  uploads,           \* putData calls under way
  stored,            \* Storage: the photo kept for each spot
  crashed,           \* what stopped the program, or "no"
  failed             \* observed: a query or an upload ended in an error

pin == <<screen, coordinateData, mapPin, currentAnnotation, drops>>
device == <<here, dot>>
photo == <<preview, imageData, photos, unreadable>>
cloud == <<spots, queries, mainQ, uploads, stored>>
vars == <<pin, device, title, photo, selectedGenre, cloud, crashed, failed>>

Spots == 1..MaxSpots
Pins == [place : Places, drop : 1..MaxDrops]
NoPin == [place |-> NoPlace, drop |-> 0]

\* A document, with what the properties compare it to: the pin it was saved
\* for, the photo shown then, and whether dot and manager agreed.
Documents == [place : Places, pin : Pins, genre : Records \cup {NoGenre},
              photo : 0..MaxPhotos, agreed : BOOLEAN]

TypeOK ==
  /\ screen \in {"custom", "search"}
  /\ coordinateData \in Places \cup {NoPlace}
  /\ mapPin \in Pins \cup {NoPin}
  /\ currentAnnotation \in BOOLEAN
  /\ coordinateData # NoPlace => mapPin.place = coordinateData
  /\ drops \in 0..MaxDrops
  /\ here \in Places \cup {NoPlace} /\ dot \in Places \cup {NoPlace}
  /\ title \in BOOLEAN
  /\ preview \in 0..photos /\ imageData \in 0..photos
  /\ photos \in 0..MaxPhotos /\ unreadable \subseteq 1..photos
  /\ selectedGenre \in Records \cup {NoGenre}
  /\ spots \in Seq(Documents) /\ Len(spots) <= MaxSpots
  /\ queries \subseteq 1..Len(spots)
  /\ mainQ \in Seq(1..Len(spots))
  /\ uploads \subseteq [spot : 1..Len(spots), photo : 1..photos]
  /\ stored \in [Spots -> 0..MaxPhotos]
  /\ crashed \in {"no", "annotation", "imageData"}
  /\ failed \in BOOLEAN

\* viewDidLoad: the search screen puts the result's pin on the map and its name
\* in the title field; a result may lack either.
Init ==
  /\ screen \in {"custom", "search"}
  /\ \/ /\ screen = "search" /\ MaxDrops > 0
        /\ coordinateData \in Places
        /\ mapPin = [place |-> coordinateData, drop |-> 1]
        /\ drops = 1
     \/ /\ coordinateData = NoPlace
        /\ mapPin = NoPin
        /\ drops = 0
  /\ currentAnnotation = FALSE
  /\ title \in {FALSE, screen = "search"}
  /\ here = NoPlace /\ dot = NoPlace
  /\ preview = 0 /\ imageData = 0 /\ photos = 0 /\ unreadable = {}
  /\ selectedGenre = NoGenre
  /\ spots = <<>> /\ queries = {} /\ mainQ = <<>> /\ uploads = {}
  /\ stored = [s \in Spots |-> 0]
  /\ crashed = "no" /\ failed = FALSE

Running == crashed = "no"

-----------------------------------------------------------------------------
(* The device and the person.                                               *)

\* The location manager, or the map, learns of a position. A position known
\* once stays known.
Locate(p) ==
  /\ Running
  /\ \/ here' = p /\ UNCHANGED dot
     \/ dot' = p /\ UNCHANGED here
  /\ UNCHANGED <<pin, title, photo, selectedGenre, cloud, crashed, failed>>

TypeTitle ==
  /\ Running
  /\ title' \in BOOLEAN
  /\ UNCHANGED <<pin, device, photo, selectedGenre, cloud, crashed, failed>>

\* Mutant of addPin: the old pin stays on the map's first place.
AddPinBeside(p) ==
  /\ Running /\ screen = "custom"
  /\ drops < MaxDrops
  /\ drops' = drops + 1
  /\ coordinateData' = p
  /\ mapPin' = IF mapPin = NoPin THEN [place |-> p, drop |-> drops'] ELSE mapPin
  /\ currentAnnotation' = TRUE
  /\ UNCHANGED <<screen, device, title, photo, selectedGenre, cloud, crashed, failed>>

\* addPin, called for each phase of a long press. The dot cannot be removed.
AddPin(p) ==
  /\ Running /\ screen = "custom"
  /\ drops < MaxDrops
  /\ drops' = drops + 1
  /\ coordinateData' = p
  /\ mapPin' = [place |-> p, drop |-> drops']
  /\ currentAnnotation' = TRUE
  /\ UNCHANGED <<screen, device, title, photo, selectedGenre, cloud, crashed, failed>>

\* Mutant of Pick: the data of the first photo is kept.
PickKeepingData(readable) ==
  /\ Running
  /\ photos < MaxPhotos
  /\ photos' = photos + 1
  /\ preview' = photos'
  /\ imageData' = IF readable /\ imageData = 0 THEN photos' ELSE imageData
  /\ unreadable' = IF readable THEN unreadable ELSE unreadable \cup {photos'}
  /\ UNCHANGED <<pin, device, title, selectedGenre, cloud, crashed, failed>>

\* imagePickerController: the photo is shown even if it has no PNG data.
Pick(readable) ==
  /\ Running
  /\ photos < MaxPhotos
  /\ photos' = photos + 1
  /\ preview' = photos'
  /\ imageData' = IF readable THEN photos' ELSE imageData
  /\ unreadable' = IF readable THEN unreadable ELSE unreadable \cup {photos'}
  /\ UNCHANGED <<pin, device, title, selectedGenre, cloud, crashed, failed>>

\* didSelectRowAt of the custom screen's dropdown.
SelectGenre(r) ==
  /\ Running /\ screen = "custom"
  /\ selectedGenre' = r
  /\ UNCHANGED <<pin, device, title, photo, cloud, crashed, failed>>

-----------------------------------------------------------------------------
(* Saving.                                                                  *)

\* Mutant of ClearPin: the coordinates are not forgotten.
ClearPinKeepingCoordinates ==
  /\ title' = FALSE
  /\ preview' = 0
  /\ UNCHANGED coordinateData
  /\ mapPin' = IF currentAnnotation THEN NoPin ELSE mapPin
  /\ currentAnnotation' = FALSE
  /\ UNCHANGED <<screen, drops, imageData, photos, unreadable, selectedGenre>>

\* clearPin, in both of its modes. The pin leaves the map only if the screen
\* holds on to its annotation; photo data and genre are kept.
ClearPin ==
  /\ title' = FALSE
  /\ preview' = 0
  /\ coordinateData' = NoPlace
  /\ mapPin' = IF currentAnnotation THEN NoPin ELSE mapPin
  /\ currentAnnotation' = FALSE
  /\ UNCHANGED <<screen, drops, imageData, photos, unreadable, selectedGenre>>

\* resetDataButtonTapped, confirmed.
Reset ==
  /\ Running
  /\ ClearPin
  /\ UNCHANGED <<device, cloud, crashed, failed>>

\* Mutant of Annotation: an annotation that is not where the user is is always
\* the first one.
AnnotationFirst(first, second) == first

\* The annotation finishTapped takes for the pin, given the map's two.
Annotation(first, second) == IF first = here THEN second ELSE first

\* finishTapped past its two alerts and the silent return without a position.
\* The map lists pin and dot in an order of its own; annotation[1] stops the
\* program when there is no dot yet.
Finish ==
  /\ Running
  /\ coordinateData # NoPlace
  /\ title
  /\ here # NoPlace
  /\ Len(spots) < MaxSpots
  /\ \/ /\ dot = NoPlace
        /\ crashed' = "annotation"
        /\ UNCHANGED <<pin, title, photo, selectedGenre, cloud>>
     \/ /\ dot # NoPlace
        /\ \E place \in {Annotation(mapPin.place, dot), Annotation(dot, mapPin.place)} :
             spots' = Append(spots,
               [place |-> place, pin |-> mapPin, photo |-> preview,
                genre |-> IF screen = "custom" THEN selectedGenre ELSE NoGenre,
                agreed |-> here = dot])
        /\ queries' = IF preview = 0 THEN queries ELSE queries \cup {Len(spots')}
        /\ ClearPin
        /\ UNCHANGED <<mainQ, uploads, stored, crashed>>
  /\ UNCHANGED <<device, failed>>

-----------------------------------------------------------------------------
(* Firestore, the main queue and Storage.                                   *)

\* A query's snapshot holds every document the user has saved by now.
Answer(q) ==
  /\ Running
  /\ queries' = queries \ {q}
  /\ mainQ' = Append(mainQ, Len(spots))
  /\ UNCHANGED <<pin, device, title, photo, selectedGenre, spots, uploads, stored,
                 crashed, failed>>

\* The callback of a failed query only prints.
QueryFails(q) ==
  /\ Running
  /\ queries' = queries \ {q}
  /\ failed' = TRUE
  /\ UNCHANGED <<pin, device, title, photo, selectedGenre, spots, mainQ, uploads,
                 stored, crashed>>

\* The callback of the photo query, uploading for the spots whose numbers are
\* in chosen: imageData is read now, not when finishTapped ran.
UploadFor(chosen) ==
  /\ Running
  /\ mainQ # <<>>
  /\ mainQ' = Tail(mainQ)
  /\ \/ /\ imageData = 0
        /\ crashed' = "imageData"
        /\ UNCHANGED uploads
     \/ /\ imageData # 0
        /\ uploads' = uploads \cup {[spot |-> s, photo |-> imageData] : s \in chosen}
        /\ UNCHANGED crashed
  /\ UNCHANGED <<pin, device, title, photo, selectedGenre, spots, queries, stored,
                 failed>>

\* Mutant of RunPhotos: only the newest document gets the photo.
RunPhotosForNewest == UploadFor({Head(mainQ)})

RunPhotos == UploadFor(1..Head(mainQ))

\* putData ends. Uploads for one spot may end in any order; a failed one is
\* only printed.
Stored(u) ==
  /\ Running
  /\ uploads' = uploads \ {u}
  /\ stored' = [stored EXCEPT ![u.spot] = u.photo]
  /\ UNCHANGED <<pin, device, title, photo, selectedGenre, spots, queries, mainQ,
                 crashed, failed>>

UploadFails(u) ==
  /\ Running
  /\ uploads' = uploads \ {u}
  /\ failed' = TRUE
  /\ UNCHANGED <<pin, device, title, photo, selectedGenre, spots, queries, mainQ,
                 stored, crashed>>

-----------------------------------------------------------------------------
Next ==
  \/ \E p \in Places : Locate(p) \/ AddPin(p)
  \/ TypeTitle
  \/ \E readable \in BOOLEAN : Pick(readable)
  \/ \E r \in Records \cup {NoGenre} : SelectGenre(r)
  \/ Reset
  \/ Finish
  \/ \E q \in queries : Answer(q) \/ QueryFails(q)
  \/ RunPhotos
  \/ \E u \in uploads : Stored(u) \/ UploadFails(u)

Spec == Init /\ [][Next]_vars

\* Firestore answers every query, the main queue is served and every upload
\* ends, well or not; nobody has to touch the screen.
FairSpec ==
  /\ Spec
  /\ WF_vars(\E q \in queries : Answer(q) \/ QueryFails(q))
  /\ WF_vars(RunPhotos)
  /\ WF_vars(\E u \in uploads : Stored(u) \/ UploadFails(u))

-----------------------------------------------------------------------------
(* Properties.                                                              *)

\* CustomPinViewController.swift:323, 312. A pin put on the map is saved at most
\* once, however often Finish is tapped; a search result's screen saves at most
\* one spot.
OneSpotPerPin ==
  \A i, j \in DOMAIN spots : spots[i].pin.drop = spots[j].pin.drop => i = j

\* CustomPinViewController.swift:357-379. A spot is saved where its pin was,
\* unless the map's dot was not where the location manager said.
SavedAtItsPin ==
  \A i \in DOMAIN spots : spots[i].agreed => spots[i].place = spots[i].pin.place

\* CustomPinViewController.swift:382-399. The photo kept for a spot that was
\* saved with one is that photo or one picked later, never an earlier one,
\* whatever order queries and uploads end in.
PhotoNeverOlder ==
  \A i \in DOMAIN spots :
    (stored[i] # 0 /\ spots[i].photo \notin unreadable) => stored[i] >= spots[i].photo

\* The same lines. A spot saved with a photo gets one, or something failed.
PhotoArrives ==
  \A s \in Spots :
    (s \in DOMAIN spots /\ spots[s].photo # 0) ~> (stored[s] # 0 \/ failed \/ ~Running)

\* ProfileViewController.swift:152, "delete associated images", takes the image
\* under a document's name for the one associated with that spot: the photo a
\* spot is given is one shown while it was edited.
PhotosAreTheirSpots ==
  \A i \in DOMAIN spots : stored[i] # 0 => stored[i] = spots[i].photo
=============================================================================
