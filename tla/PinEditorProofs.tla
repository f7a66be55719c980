--------------------------- MODULE PinEditorProofs ---------------------------
(* Theorems about PinEditor, for both screens, every set of places and every *)
(* bound.                                                                    *)
EXTENDS PinEditor, TLAPS

\* clearPin keeps the types of what it sets.
LEMMA ClearTypes ==
  ASSUME TypeOK, ClearPin
  PROVE  /\ coordinateData' = NoPlace
         /\ mapPin' \in Pins \cup {NoPin}
         /\ currentAnnotation' = FALSE /\ title' = FALSE
         /\ preview' = 0 /\ preview' \in 0..photos
         /\ screen' = screen /\ imageData' = imageData /\ drops' = drops /\ photos' = photos
         /\ unreadable' = unreadable /\ selectedGenre' = selectedGenre
  BY DEF TypeOK, ClearPin

\* Saving makes a document of the right type.
LEMMA FinishTypes ==
  ASSUME TypeOK, Finish
  PROVE  TypeOK'
  <1>1. coordinateData \in Places /\ mapPin \in Pins /\ mapPin.place \in Places
    BY PlaceAssumption DEF Finish, TypeOK, Pins, NoPin
  <1>2. CASE dot = NoPlace /\ crashed' = "annotation"
             /\ UNCHANGED <<pin, title, photo, selectedGenre, cloud>>
    BY <1>2 DEF Finish, TypeOK, pin, photo, cloud, device
  <1>3. ASSUME NEW place \in {Annotation(mapPin.place, dot), Annotation(dot, mapPin.place)},
               dot # NoPlace,
               spots' = Append(spots,
                 [place |-> place, pin |-> mapPin, photo |-> preview,
                  genre |-> IF screen = "custom" THEN selectedGenre ELSE NoGenre,
                  agreed |-> here = dot]),
               queries' = IF preview = 0 THEN queries ELSE queries \cup {Len(spots')},
               ClearPin,
               UNCHANGED <<mainQ, uploads, stored, crashed>>
        PROVE  TypeOK'
    <2>1. place \in Places
      BY <1>1, <1>3 DEF Annotation, TypeOK
    <2> DEFINE g == IF screen = "custom" THEN selectedGenre ELSE NoGenre
               same == here = dot
               doc == [place |-> place, pin |-> mapPin, photo |-> preview,
                       genre |-> g, agreed |-> same]
    <2>2. spots' \in Seq(Documents) /\ Len(spots') = Len(spots) + 1
      <3>1. g \in Records \cup {NoGenre}
        BY DEF TypeOK
      <3>5. preview \in 0..MaxPhotos
        BY PinBounds DEF TypeOK
      <3>4. same \in BOOLEAN
        OBVIOUS
      <3>2. spots' = Append(spots, doc)
        BY <1>3
      <3> HIDE DEF g, same
      <3>3. doc \in Documents
        BY <1>1, <2>1, <3>1, <3>4, <3>5 DEF Documents
      <3> HIDE DEF doc
      <3> QED
        BY <3>2, <3>3 DEF TypeOK
    <2>3. Len(spots') <= MaxSpots
      BY <1>3, <2>2, PinBounds DEF Finish, TypeOK
    <2>4. /\ mainQ' \in Seq(1..Len(spots'))
          /\ uploads' \subseteq [spot : 1..Len(spots'), photo : 1..photos]
      <3>1. \A n \in Nat : 1..n \subseteq 1..(n + 1) /\ Seq(1..n) \subseteq Seq(1..(n + 1))
        OBVIOUS
      <3> QED
        BY <1>3, <2>2, <3>1 DEF TypeOK
    <2>5. UNCHANGED <<here, dot, failed>>
      BY DEF Finish, device
    <2>6. queries' \subseteq 1..Len(spots')
      <3>1. \A n \in Nat : 1..n \subseteq 1..(n + 1) /\ (n + 1) \in 1..(n + 1)
        OBVIOUS
      <3>2. queries \subseteq 1..Len(spots) /\ Len(spots) \in Nat
        BY DEF TypeOK
      <3>3. queries' \subseteq queries \cup {Len(spots')}
        BY <1>3
      <3> QED
        BY <2>2, <3>1, <3>2, <3>3
    <2> QED
      BY <1>3, <2>2, <2>3, <2>4, <2>5, <2>6, ClearTypes DEF TypeOK
  <1> QED
    BY <1>2, <1>3 DEF Finish

\* The state of both screens has its types.
THEOREM EditorTypes == Spec => []TypeOK
  <1>1. Init => TypeOK
    <2> SUFFICES ASSUME Init PROVE TypeOK
      OBVIOUS
    <2>1. /\ coordinateData \in Places \cup {NoPlace}
          /\ mapPin \in Pins \cup {NoPin}
          /\ coordinateData # NoPlace => mapPin.place = coordinateData
          /\ drops \in 0..MaxDrops
      BY PinBounds DEF Init, Pins, NoPin
    <2>2. title \in BOOLEAN /\ currentAnnotation \in BOOLEAN /\ failed \in BOOLEAN
      BY DEF Init
    <2>3. stored \in [Spots -> 0..MaxPhotos]
      BY PinBounds DEF Init
    <2>4. /\ spots \in Seq(Documents) /\ Len(spots) = 0
          /\ mainQ \in Seq(1..Len(spots))
          /\ uploads = {} /\ queries = {}
      BY DEF Init
    <2>5. /\ photos = 0 /\ preview = 0 /\ imageData = 0 /\ unreadable = {}
          /\ screen \in {"custom", "search"} /\ crashed = "no"
          /\ here = NoPlace /\ dot = NoPlace /\ selectedGenre = NoGenre
      BY DEF Init
    <2> QED
      BY <2>1, <2>2, <2>3, <2>4, <2>5, PinBounds DEF TypeOK
  <1>2. TypeOK /\ [Next]_vars => TypeOK'
    <2> SUFFICES ASSUME TypeOK, [Next]_vars PROVE TypeOK'
      OBVIOUS
    <2>1. ASSUME NEW p \in Places, Locate(p) PROVE TypeOK'
      BY <2>1 DEF Locate, TypeOK, pin, photo, cloud
    <2>2. ASSUME NEW p \in Places, AddPin(p) PROVE TypeOK'
      BY <2>2, PinBounds DEF AddPin, TypeOK, device, photo, cloud, Pins
    <2>3. CASE TypeTitle
      BY <2>3 DEF TypeTitle, TypeOK, pin, device, photo, cloud
    <2>4. ASSUME NEW readable \in BOOLEAN, Pick(readable) PROVE TypeOK'
      BY <2>4, PinBounds DEF Pick, TypeOK, pin, device, cloud
    <2>5. ASSUME NEW r \in Records \cup {NoGenre}, SelectGenre(r) PROVE TypeOK'
      BY <2>5 DEF SelectGenre, TypeOK, pin, device, photo, cloud
    <2>6. CASE Reset
      BY <2>6, ClearTypes DEF Reset, TypeOK, device, cloud
    <2>7. CASE Finish
      BY <2>7, FinishTypes
    <2>8. ASSUME NEW q \in queries, Answer(q) PROVE TypeOK'
      <3>1. Len(spots) \in 1..Len(spots)
        BY <2>8 DEF TypeOK
      <3> QED
        BY <2>8, <3>1 DEF Answer, TypeOK, pin, device, photo
    <2>9. ASSUME NEW q \in queries, QueryFails(q) PROVE TypeOK'
      BY <2>9 DEF QueryFails, TypeOK, pin, device, photo
    <2>10. CASE RunPhotos
      <3>1. Head(mainQ) \in 1..Len(spots) /\ Tail(mainQ) \in Seq(1..Len(spots))
        BY <2>10 DEF RunPhotos, UploadFor, TypeOK
      <3> QED
        BY <2>10, <3>1 DEF RunPhotos, UploadFor, TypeOK, pin, device, photo
    <2>11. ASSUME NEW u \in uploads, Stored(u) PROVE TypeOK'
      <3>1. u.photo \in 0..MaxPhotos
        BY PinBounds DEF TypeOK
      <3> QED
        BY <2>11, <3>1 DEF Stored, TypeOK, pin, device, photo
    <2>12. ASSUME NEW u \in uploads, UploadFails(u) PROVE TypeOK'
      BY <2>12 DEF UploadFails, TypeOK, pin, device, photo
    <2>13. CASE UNCHANGED vars
      BY <2>13 DEF vars, TypeOK, pin, device, photo, cloud
    <2> QED
      BY <2>1, <2>2, <2>3, <2>4, <2>5, <2>6, <2>7, <2>8, <2>9, <2>10, <2>11,
         <2>12, <2>13 DEF Next
  <1> QED
    BY <1>1, <1>2, PTL DEF Spec

-----------------------------------------------------------------------------
\* A pin still in progress has not been saved, and no pin has been saved that
\* was not dropped.
PinInv ==
  /\ mapPin.drop <= drops
  /\ \A i \in DOMAIN spots : spots[i].pin.drop <= drops
  /\ coordinateData # NoPlace =>
       \A i \in DOMAIN spots : spots[i].pin.drop # mapPin.drop
  /\ OneSpotPerPin

\* What Finish appends.
LEMMA FinishAppends ==
  ASSUME TypeOK, Finish, crashed' = "no"
  PROVE  /\ spots' \in Seq(Documents) /\ Len(spots') = Len(spots) + 1
         /\ \A i \in DOMAIN spots : spots'[i] = spots[i]
         /\ spots'[Len(spots')].pin = mapPin
         /\ spots'[Len(spots')].photo = preview
         /\ spots'[Len(spots')].agreed => spots'[Len(spots')].place = mapPin.place
         /\ ClearPin /\ UNCHANGED <<stored, uploads>>
  <1>1. TypeOK'
    BY FinishTypes
  <1>2. PICK place \in {Annotation(mapPin.place, dot), Annotation(dot, mapPin.place)} :
          spots' = Append(spots,
            [place |-> place, pin |-> mapPin, photo |-> preview,
             genre |-> IF screen = "custom" THEN selectedGenre ELSE NoGenre,
             agreed |-> here = dot])
    BY DEF Finish
  <1>3. ClearPin /\ UNCHANGED <<stored, uploads>>
    BY DEF Finish
  <1> DEFINE d == spots'[Len(spots')]
             g == IF screen = "custom" THEN selectedGenre ELSE NoGenre
             same == here = dot
  <1>4. /\ Len(spots') = Len(spots) + 1
        /\ \A i \in DOMAIN spots : spots'[i] = spots[i]
        /\ d = [place |-> place, pin |-> mapPin, photo |-> preview,
                genre |-> g, agreed |-> same]
    BY <1>2 DEF TypeOK
  <1>5. same => place = mapPin.place
    BY DEF Annotation
  <1>6. spots' \in Seq(Documents)
    BY <1>1 DEF TypeOK
  <1> HIDE DEF same, d
  <1>7. d.pin = mapPin /\ d.photo = preview /\ d.place = place /\ d.agreed = same
    BY <1>4
  <1>8. d.agreed => d.place = mapPin.place
    BY <1>5, <1>7
  <1> QED
    BY <1>3, <1>4, <1>6, <1>7, <1>8 DEF d

\* PinInv is inductive.
LEMMA PinInvariant == Spec => []PinInv
  <1>1. Init => PinInv
    BY DEF Init, PinInv, OneSpotPerPin, NoPin
  <1>2. TypeOK /\ PinInv /\ [Next]_vars => PinInv'
    <2> SUFFICES ASSUME TypeOK, PinInv, [Next]_vars PROVE PinInv'
      OBVIOUS
    <2>0. \A i \in DOMAIN spots : spots[i].pin.drop \in 1..MaxDrops
      <3>1. \A d \in Documents : d.pin.drop \in 1..MaxDrops
        BY DEF Documents, Pins
      <3> QED
        BY <3>1 DEF TypeOK
    <2>1. ASSUME NEW p \in Places, AddPin(p) PROVE PinInv'
      <3>1. drops \in Nat /\ drops' = drops + 1 /\ mapPin'.drop = drops'
            /\ spots' = spots
        BY <2>1 DEF AddPin, TypeOK, cloud
      <3> QED
        BY <2>0, <3>1, PinBounds DEF PinInv, OneSpotPerPin
    <2>2. CASE Reset
      BY <2>2 DEF Reset, ClearPin, PinInv, OneSpotPerPin, TypeOK, cloud, NoPin
    <2>3. CASE Finish /\ crashed' = "no"
      <3>1. spots' \in Seq(Documents) /\ Len(spots') = Len(spots) + 1
        BY <2>3, FinishAppends
      <3>2. \A i \in DOMAIN spots' : spots'[i].pin.drop
              = IF i = Len(spots') THEN mapPin.drop ELSE spots[i].pin.drop
        BY <2>3, <3>1, FinishAppends DEF TypeOK
      <3>3. coordinateData # NoPlace /\ coordinateData' = NoPlace /\ drops' = drops
            /\ mapPin' \in {mapPin, NoPin}
        BY <2>3, FinishAppends DEF ClearPin, Finish
      <3>4. \A i \in DOMAIN spots' : i # Len(spots') => i \in DOMAIN spots
        BY <3>1 DEF TypeOK
      <3>5. mapPin'.drop <= drops'
        BY <3>3 DEF PinInv, TypeOK, NoPin
      <3> QED
        BY <3>2, <3>3, <3>4, <3>5 DEF PinInv, OneSpotPerPin
    <2>4. CASE UNCHANGED <<pin, spots>>
      BY <2>4 DEF pin, PinInv, OneSpotPerPin
    <2> QED
      BY <2>1, <2>2, <2>3, <2>4 DEF Next, Locate, TypeTitle, Pick, SelectGenre,
         Finish, Answer, QueryFails, RunPhotos, UploadFor, Stored, UploadFails,
         vars, cloud, Running
  <1> QED
    BY <1>1, <1>2, EditorTypes, PTL DEF Spec

\* finishTapped and clearPin: however often Finish is tapped, no pin is saved
\* twice.
THEOREM NoPinSavedTwice == Spec => []OneSpotPerPin
  <1>1. PinInv => OneSpotPerPin
    BY DEF PinInv
  <1> QED
    BY <1>1, PinInvariant, PTL

\* finishTapped: with dot and manager in agreement, a spot is saved where its
\* pin was.
THEOREM SavedWherePinned == Spec => []SavedAtItsPin
  <1>1. Init => SavedAtItsPin
    BY DEF Init, SavedAtItsPin
  <1>2. TypeOK /\ SavedAtItsPin /\ [Next]_vars => SavedAtItsPin'
    <2> SUFFICES ASSUME TypeOK, SavedAtItsPin, [Next]_vars PROVE SavedAtItsPin'
      OBVIOUS
    <2>1. CASE Finish /\ crashed' = "no"
      <3>1. spots' \in Seq(Documents) /\ Len(spots') = Len(spots) + 1
        BY <2>1, FinishAppends
      <3>2. \A i \in DOMAIN spots' : i # Len(spots') =>
              i \in DOMAIN spots /\ spots'[i] = spots[i]
        BY <2>1, <3>1, FinishAppends DEF TypeOK
      <3>3. LET d == spots'[Len(spots')] IN d.agreed => d.place = d.pin.place
        BY <2>1, FinishAppends
      <3> QED
        BY <3>2, <3>3 DEF SavedAtItsPin
    <2>2. CASE UNCHANGED spots
      BY <2>2 DEF SavedAtItsPin
    <2> QED
      BY <2>1, <2>2 DEF Next, Locate, AddPin, TypeTitle, Pick, SelectGenre, Reset,
         Finish, Answer, QueryFails, RunPhotos, UploadFor, Stored, UploadFails,
         vars, cloud, Running
  <1> QED
    BY <1>1, <1>2, EditorTypes, PTL DEF Spec

-----------------------------------------------------------------------------
\* The photo of a spot, if it can be read, is not ahead of the data at hand,
\* nor of the data being uploaded for that spot.
PhotoInv ==
  /\ preview \notin unreadable => imageData >= preview
  /\ \A i \in DOMAIN spots :
       spots[i].photo \notin unreadable => imageData >= spots[i].photo
  /\ \A u \in uploads :
       spots[u.spot].photo \notin unreadable => u.photo >= spots[u.spot].photo
  /\ \A s \in Spots : stored[s] # 0 => s \in DOMAIN spots
  /\ PhotoNeverOlder

\* PhotoInv is inductive.
LEMMA PhotoInvariant == Spec => []PhotoInv
  <1>1. Init => PhotoInv
    BY DEF Init, PhotoInv, PhotoNeverOlder, Spots
  <1>2. TypeOK /\ PhotoInv /\ [Next]_vars => PhotoInv'
    <2> SUFFICES ASSUME TypeOK, PhotoInv, [Next]_vars PROVE PhotoInv'
      OBVIOUS
    <2> USE DEF PhotoInv, PhotoNeverOlder
    <2>1. ASSUME NEW readable \in BOOLEAN, Pick(readable) PROVE PhotoInv'
      <3>1. /\ imageData' >= imageData
            /\ preview' \notin unreadable' => imageData' >= preview'
            /\ unreadable \subseteq unreadable'
            /\ UNCHANGED <<spots, uploads, stored>>
        BY <2>1 DEF Pick, cloud, TypeOK
      <3>2. \A i \in DOMAIN spots : spots[i].photo \in Nat
        <4>1. \A d \in Documents : d.photo \in Nat
          BY PinBounds DEF Documents
        <4> QED
          BY <4>1 DEF TypeOK
      <3>3. imageData \in Nat /\ imageData' \in Nat
        BY <2>1 DEF TypeOK, Pick
      <3> QED
        BY <3>1, <3>2, <3>3
    <2>2. CASE Reset
      BY <2>2 DEF Reset, ClearPin, cloud, TypeOK
    <2>3. CASE Finish /\ crashed' = "no"
      <3>1. spots' \in Seq(Documents) /\ Len(spots') = Len(spots) + 1
        BY <2>3, FinishAppends
      <3>2. \A i \in DOMAIN spots' : spots'[i].photo
              = IF i = Len(spots') THEN preview ELSE spots[i].photo
        BY <2>3, <3>1, FinishAppends DEF TypeOK
      <3>3. /\ preview' = 0 /\ UNCHANGED <<imageData, unreadable, stored, uploads>>
            /\ DOMAIN spots' = DOMAIN spots \cup {Len(spots')}
            /\ Len(spots') \notin DOMAIN spots
            /\ imageData \in Nat
        <4>1. DOMAIN spots = 1..Len(spots) /\ DOMAIN spots' = 1..Len(spots')
              /\ Len(spots) \in Nat
          BY <3>1 DEF TypeOK
        <4>2. ClearPin /\ UNCHANGED <<stored, uploads>>
          BY <2>3, FinishAppends
        <4>3. imageData \in Nat
          BY DEF TypeOK
        <4> QED
          BY <3>1, <4>1, <4>2, <4>3 DEF ClearPin
      <3>4. stored[Len(spots')] = 0 /\ Len(spots') \in Spots
        BY <2>3, <3>1, <3>3, PinBounds DEF Finish, Spots, TypeOK
      <3>5. \A u \in uploads : u.spot \in DOMAIN spots
        BY DEF TypeOK
      <3> QED
        BY <3>1, <3>2, <3>3, <3>4, <3>5
    <2>4. CASE RunPhotos
      <3>1. Head(mainQ) \in 1..Len(spots)
        BY <2>4 DEF RunPhotos, UploadFor, TypeOK
      <3>2. /\ UNCHANGED <<preview, imageData, unreadable, spots, stored>>
            /\ uploads' \subseteq uploads \cup
                 {[spot |-> s, photo |-> imageData] : s \in 1..Head(mainQ)}
        BY <2>4 DEF RunPhotos, UploadFor, photo
      <3>3. 1..Head(mainQ) \subseteq DOMAIN spots
        BY <3>1 DEF TypeOK
      <3> QED
        BY <3>2, <3>3
    <2>5. ASSUME NEW u \in uploads, Stored(u) PROVE PhotoInv'
      <3>1. u.spot \in DOMAIN spots
        BY DEF TypeOK
      <3>2. /\ UNCHANGED <<preview, imageData, unreadable, spots>>
            /\ uploads' \subseteq uploads
            /\ stored' = [stored EXCEPT ![u.spot] = u.photo]
        BY <2>5 DEF Stored, photo
      <3>3. stored \in [Spots -> 0..MaxPhotos] /\ DOMAIN spots \subseteq Spots
        BY PinBounds DEF TypeOK, Spots
      <3> QED
        BY <3>1, <3>2, <3>3
    <2>6. CASE UNCHANGED <<photo, spots, stored>> /\ uploads' \subseteq uploads
      BY <2>6 DEF photo
    <2> QED
      BY <2>1, <2>2, <2>3, <2>4, <2>5, <2>6 DEF Next, Locate, AddPin, TypeTitle,
         SelectGenre, Finish, Answer, QueryFails, UploadFails, vars, cloud, Running
  <1> QED
    BY <1>1, <1>2, EditorTypes, PTL DEF Spec

\* The callback of the photo query: it never leaves a spot with a photo older
\* than the one it was saved with.
THEOREM PhotosMoveForward == Spec => []PhotoNeverOlder
  <1>1. PhotoInv => PhotoNeverOlder
    BY DEF PhotoInv
  <1> QED
    BY <1>1, PhotoInvariant, PTL

-----------------------------------------------------------------------------
\* A spot saved with a photo has it kept, on its way to Storage, or still to be
\* uploaded by the answer, given or awaited, to the query its save issued.
PhotosUnderWay ==
  (Running /\ ~failed) =>
    \A s \in DOMAIN spots : spots[s].photo # 0 =>
      \/ stored[s] # 0
      \/ \E u \in uploads : u.spot = s
      \/ \E k \in DOMAIN mainQ : s <= mainQ[k]
      \/ s \in queries

\* Running a callback uploads for the spots its answer lists, and takes no
\* other answer's turn.
LEMMA RunKeepsPhotos ==
  ASSUME TypeOK, PhotosUnderWay, RunPhotos
  PROVE  PhotosUnderWay'
  <1> SUFFICES ASSUME crashed' = "no", ~failed',
                      NEW s \in DOMAIN spots, spots[s].photo # 0
               PROVE  \/ stored[s] # 0
                      \/ \E u \in uploads' : u.spot = s
                      \/ \E k \in DOMAIN mainQ' : s <= mainQ'[k]
                      \/ s \in queries
    BY DEF RunPhotos, UploadFor, PhotosUnderWay, Running
  <1>1. /\ mainQ' = Tail(mainQ) /\ mainQ # <<>> /\ Running /\ ~failed
        /\ uploads' = uploads \cup {[spot |-> t, photo |-> imageData] : t \in 1..Head(mainQ)}
    BY DEF RunPhotos, UploadFor, Running
  <1>2. /\ mainQ \in Seq(Nat) /\ s \in Nat /\ s >= 1 /\ Head(mainQ) \in Nat
    BY <1>1 DEF TypeOK
  <1>3. CASE stored[s] # 0 \/ s \in queries \/ \E u \in uploads : u.spot = s
    BY <1>1, <1>3
  <1>4. ASSUME NEW k \in DOMAIN mainQ, s <= mainQ[k]
        PROVE  \/ \E u \in uploads' : u.spot = s
               \/ \E j \in DOMAIN mainQ' : s <= mainQ'[j]
    <2>1. CASE k = 1
      <3>1. s \in 1..Head(mainQ)
        BY <1>1, <1>2, <1>4, <2>1
      <3>2. [spot |-> s, photo |-> imageData] \in uploads'
        BY <1>1, <3>1
      <3> QED
        BY <3>2
    <2>2. CASE k # 1
      <3>1. k - 1 \in DOMAIN mainQ' /\ mainQ'[k - 1] = mainQ[k]
        BY <1>1, <1>2, <2>2
      <3> QED
        BY <1>4, <3>1
    <2> QED
      BY <2>1, <2>2
  <1> QED
    BY <1>1, <1>3, <1>4 DEF PhotosUnderWay

\* Saving and answering keep the photos of all spots under way: Finish issues
\* the query, and an answer lists every spot saved by then.
LEMMA SaveKeepsPhotos ==
  ASSUME TypeOK, PhotosUnderWay, Finish, crashed' = "no"
  PROVE  PhotosUnderWay'
  <1>1. /\ spots' \in Seq(Documents) /\ Len(spots') = Len(spots) + 1
        /\ \A i \in DOMAIN spots : spots'[i] = spots[i]
        /\ spots'[Len(spots')].photo = preview
        /\ UNCHANGED <<stored, uploads>>
    BY FinishAppends
  <1>2. /\ queries' = IF preview = 0 THEN queries ELSE queries \cup {Len(spots')}
        /\ UNCHANGED <<mainQ, failed>> /\ Running
    BY DEF Finish
  <1>3. \A i \in DOMAIN spots' : i = Len(spots') \/ i \in DOMAIN spots
    BY <1>1 DEF TypeOK
  <1> QED
    BY <1>1, <1>2, <1>3 DEF PhotosUnderWay, Running

LEMMA AnswerKeepsPhotos ==
  ASSUME TypeOK, PhotosUnderWay, NEW q \in queries, Answer(q)
  PROVE  PhotosUnderWay'
  <1>1. /\ queries' = queries \ {q} /\ mainQ' = Append(mainQ, Len(spots))
        /\ UNCHANGED <<spots, uploads, stored, crashed, failed>>
    BY DEF Answer
  <1>2. mainQ \in Seq(1..Len(spots)) /\ DOMAIN spots = 1..Len(spots) /\ Len(spots) \in Nat
    BY DEF TypeOK
  <1>3. /\ Len(mainQ') = Len(mainQ) + 1 /\ DOMAIN mainQ' = 1..Len(mainQ')
        /\ mainQ'[Len(mainQ')] = Len(spots) /\ Len(mainQ') \in DOMAIN mainQ'
        /\ \A k \in DOMAIN mainQ : k \in DOMAIN mainQ' /\ mainQ'[k] = mainQ[k]
    BY <1>1, <1>2
  <1>4. \A s \in DOMAIN spots : s <= mainQ'[Len(mainQ')]
    BY <1>2, <1>3
  <1> QED
    BY <1>1, <1>3, <1>4 DEF PhotosUnderWay, Running

\* finishTapped and the callback of the photo query: while nothing fails, no
\* photo is forgotten. Whatever uploads a spot's photo is always there already,
\* so that PhotoArrives rests on fairness alone.
THEOREM NoPhotoForgotten == Spec => []PhotosUnderWay
  <1>1. Init => PhotosUnderWay
    BY DEF Init, PhotosUnderWay
  <1>2. TypeOK /\ PhotosUnderWay /\ [Next]_vars => PhotosUnderWay'
    <2> SUFFICES ASSUME TypeOK, PhotosUnderWay, [Next]_vars PROVE PhotosUnderWay'
      OBVIOUS
    <2>1. CASE RunPhotos
      BY <2>1, RunKeepsPhotos
    <2>2. CASE Finish /\ crashed' = "no"
      BY <2>2, SaveKeepsPhotos
    <2>3. ASSUME NEW q \in queries, Answer(q) PROVE PhotosUnderWay'
      BY <2>3, AnswerKeepsPhotos
    <2>4. ASSUME NEW u \in uploads, Stored(u) PROVE PhotosUnderWay'
      <3>1. u.photo # 0 /\ u.spot \in Spots
        BY PinBounds DEF TypeOK, Spots
      <3>2. stored \in [Spots -> 0..MaxPhotos]
        BY DEF TypeOK
      <3>3. \A s \in Spots : stored'[s] = IF s = u.spot THEN u.photo ELSE stored[s]
        BY <2>4, <3>2 DEF Stored
      <3>4. DOMAIN spots \subseteq Spots
        BY PinBounds DEF TypeOK, Spots
      <3> QED
        BY <2>4, <3>1, <3>3, <3>4 DEF Stored, PhotosUnderWay, Running
    <2>5. CASE crashed' # "no" \/ failed'
      BY <2>5 DEF PhotosUnderWay, Running
    <2>6. CASE UNCHANGED <<cloud, crashed, failed>>
      BY <2>6 DEF PhotosUnderWay, Running, cloud
    <2> QED
      BY <2>1, <2>2, <2>3, <2>4, <2>5, <2>6 DEF Next, Locate, AddPin, TypeTitle,
         Pick, SelectGenre, Reset, Finish, QueryFails, UploadFails, vars, Running
  <1> QED
    BY <1>1, <1>2, EditorTypes, PTL DEF Spec

-----------------------------------------------------------------------------
\* What stops the program: an index past the map's annotations while the map
\* has no dot yet, or photo data that is not there, for a spot saved with a
\* photo that has none.
StopsExplained ==
  /\ crashed = "annotation" => dot = NoPlace /\ here # NoPlace /\ mapPin # NoPin
  /\ crashed = "imageData" =>
       imageData = 0 /\ \E s \in DOMAIN spots : spots[s].photo \in unreadable

\* Data is missing only while no photo picked so far had any, and only a spot
\* with a photo makes a query.
StopsInv ==
  /\ imageData = 0 => 1..photos \subseteq unreadable
  /\ \A s \in DOMAIN spots : spots[s].photo <= photos
  /\ queries # {} \/ mainQ # <<>> => \E s \in DOMAIN spots : spots[s].photo # 0
  /\ StopsExplained

LEMMA PhotosNumbered ==
  ASSUME TypeOK
  PROVE  /\ photos \in Nat /\ preview \in 0..photos
         /\ \A s \in DOMAIN spots : spots[s].photo \in Nat
  <1>1. \A d \in Documents : d.photo \in Nat
    BY PinBounds DEF Documents
  <1> QED
    BY <1>1, PinBounds DEF TypeOK

LEMMA StopsFinish ==
  ASSUME TypeOK, StopsInv, Finish
  PROVE  StopsInv'
  <1> USE DEF StopsInv, StopsExplained
  <1>1. UNCHANGED <<here, dot, failed>> /\ Running /\ here # NoPlace
    BY DEF Finish, device
  <1>2. CASE dot = NoPlace /\ crashed' = "annotation"
             /\ UNCHANGED <<pin, title, photo, selectedGenre, cloud>>
    <2>1. mapPin # NoPin
      BY PlaceAssumption DEF Finish, TypeOK, NoPin
    <2> QED
      BY <1>1, <1>2, <2>1 DEF pin, photo, cloud
  <1>3. CASE crashed' = "no"
    <2>1. /\ spots' \in Seq(Documents) /\ Len(spots') = Len(spots) + 1
          /\ \A i \in DOMAIN spots : spots'[i] = spots[i]
          /\ spots'[Len(spots')].photo = preview /\ ClearPin
      BY <1>3, FinishAppends
    <2>2. /\ queries' = IF preview = 0 THEN queries ELSE queries \cup {Len(spots')}
          /\ mainQ' = mainQ
      BY <1>3 DEF Finish
    <2>3. /\ DOMAIN spots' = DOMAIN spots \cup {Len(spots')}
          /\ UNCHANGED <<photos, imageData, unreadable>>
      BY <2>1 DEF TypeOK, ClearPin
    <2>4. \A s \in DOMAIN spots' : spots'[s].photo <= photos'
      BY <2>1, <2>3, PhotosNumbered
    <2>5. queries' # {} \/ mainQ' # <<>> => \E s \in DOMAIN spots' : spots'[s].photo # 0
      BY <2>1, <2>2, <2>3
    <2> QED
      BY <1>3, <2>3, <2>4, <2>5
  <1> QED
    BY <1>2, <1>3 DEF Finish, Running

LEMMA StopsRun ==
  ASSUME TypeOK, StopsInv, RunPhotos
  PROVE  StopsInv'
  <1>1. /\ UNCHANGED <<imageData, photos, unreadable, spots, queries, dot, here, mapPin>>
        /\ mainQ # <<>> /\ mainQ' = Tail(mainQ) /\ Running
        /\ crashed' = "no" \/ (crashed' = "imageData" /\ imageData = 0)
    BY DEF RunPhotos, UploadFor, photo, device, pin, Running
  <1>2. PICK s \in DOMAIN spots : spots[s].photo # 0
    BY <1>1 DEF StopsInv
  <1>3. spots[s].photo \in 1..photos
    BY <1>2, PhotosNumbered DEF StopsInv
  <1>4. imageData = 0 => spots[s].photo \in unreadable
    BY <1>3 DEF StopsInv
  <1> QED
    BY <1>1, <1>2, <1>4 DEF StopsInv, StopsExplained

\* finishTapped and the callback of the photo query: the program is stopped by
\* the index only while the location manager knows the position and the map
\* does not, and by the missing data only if not one photo picked so far could
\* be read, among them that of a spot already saved.
THEOREM StopsAreExplained == Spec => []StopsExplained
  <1>1. Init => StopsInv
    BY DEF Init, StopsInv, StopsExplained
  <1>2. TypeOK /\ StopsInv /\ [Next]_vars => StopsInv'
    <2> SUFFICES ASSUME TypeOK, StopsInv, [Next]_vars PROVE StopsInv'
      OBVIOUS
    <2>1. ASSUME NEW readable \in BOOLEAN, Pick(readable) PROVE StopsInv'
      <3>1. /\ photos' = photos + 1 /\ photos \in Nat
            /\ imageData' = (IF readable THEN photos' ELSE imageData)
            /\ unreadable' = (IF readable THEN unreadable ELSE unreadable \cup {photos'})
            /\ UNCHANGED <<spots, queries, mainQ, crashed>> /\ Running
        BY <2>1, PhotosNumbered DEF Pick, cloud
      <3>2. 1..photos' = 1..photos \cup {photos'}
        BY <3>1
      <3>3. imageData' = 0 => 1..photos' \subseteq unreadable'
        BY <3>1, <3>2 DEF StopsInv
      <3>4. \A s \in DOMAIN spots : spots[s].photo <= photos'
        BY <3>1, PhotosNumbered DEF StopsInv
      <3> QED
        BY <3>1, <3>3, <3>4 DEF StopsInv, StopsExplained, Running
    <2>2. CASE Finish
      BY <2>2, StopsFinish
    <2>3. CASE RunPhotos
      BY <2>3, StopsRun
    <2>4. ASSUME NEW q \in queries, Answer(q) \/ QueryFails(q) PROVE StopsInv'
      BY <2>4 DEF Answer, QueryFails, StopsInv, StopsExplained, Running, photo, pin, device
    <2>5. CASE Reset
      BY <2>5 DEF Reset, ClearPin, StopsInv, StopsExplained, Running, cloud, device
    <2>6. CASE (Running /\ UNCHANGED <<photo, spots, queries, mainQ, crashed>>)
               \/ UNCHANGED vars
      BY <2>6 DEF StopsInv, StopsExplained, Running, photo, vars, cloud, pin, device
    <2> QED
      BY <2>1, <2>2, <2>3, <2>4, <2>5, <2>6 DEF Next, Locate, AddPin, TypeTitle,
         SelectGenre, Stored, UploadFails, cloud
  <1>3. StopsInv => StopsExplained
    BY DEF StopsInv
  <1> QED
    BY <1>1, <1>2, <1>3, EditorTypes, PTL DEF Spec
=============================================================================
