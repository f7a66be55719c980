----------------------------- MODULE SavedSpots -----------------------------
(***************************************************************************)
(* SavedTabViewController: the tab that lists the saved spots, all of them *)
(* or those of one genre. Every appearance of the tab clears the lists and *)
(* issues three getDocuments queries whose answers refill them:            *)
(* populateGenreTable's, createGenre's, and, from createGenre's callback,  *)
(* fetchSaved's. Nothing cancels the queries of an earlier appearance.     *)
(*                                                                         *)
(* Firestore answers a query by taking a snapshot on its own queue and     *)
(* dispatching the callback to the main queue, where it runs later. The    *)
(* other tabs save genres and spots in between.                            *)
(***************************************************************************)
EXTENDS Naturals, FiniteSets, SequencesExt

CONSTANTS
  Genres,   \* genre records a person may save; "null" may be one of them
  NoGenre,  \* the record "null", which stands for no genre
  Reparse,  \* what didSelectRow makes of a genre's row: the record parsed
            \* back from the text displayed for it
  MaxSpot,  \* spot documents have the ids 1..MaxSpot, in the order of queries
  MaxLoads  \* bound on the appearances of the tab

ASSUME ReparseAssumption == DOMAIN Reparse = Genres
ASSUME LoadAssumption == MaxSpot \in Nat /\ MaxLoads \in Nat

Spots == 1..MaxSpot
Records == Genres \cup {NoGenre} \cup {Reparse[g] : g \in Genres}
Colors == {"rgb", "blank"}

VARIABLES
  genreDocs,  \* the user's "genres" documents
  spotDocs,   \* the user's "spots" documents: genre_record of each id
  onScreen,   \* is the tab on the screen
  genres,     \* rows of the dropdown, by the record each one displays
  genreRows,  \* number of rows the dropdown last asked for
  colors,     \* genres colorsDict has an entry for
  spotsList,  \* spots by genre
  allArray,   \* every spot
  selected,   \* selectedGenre
  spotRows,   \* number of rows the spot table last asked for
  queries,    \* getDocuments calls without an answer
  mainQ,      \* callbacks and reloads dispatched to the main queue
  crashed,    \* the force unwrap that stopped the program, or "no"
  loads,      \* appearances so far
  expected,   \* observed: spots saved when the tab last appeared
  overlapped, \* observed: some load began before an earlier one had ended
  raced,      \* observed: something was saved while a load was under way
  failed      \* observed: some query ended in an error

data == <<genreDocs, spotDocs>>
lists == <<genres, genreRows, colors, spotsList, allArray, selected, spotRows>>
observed == <<loads, expected, overlapped, raced, failed>>
vars == <<data, onScreen, lists, queries, mainQ, crashed, observed>>

GenreDocs == [name : Genres, color : Colors]
Queries == [kind : {"dropdown", "genres", "spots"}, load : 1..MaxLoads]
Blocks ==
  [kind : {"dropdown", "genres"}, load : 1..MaxLoads, docs : SUBSET GenreDocs] \cup
  [kind : {"spots"}, load : 1..MaxLoads, docs : SUBSET (Spots \X Records)] \cup
  [kind : {"reloadGenres", "reloadSpots"}]

TypeOK ==
  /\ genreDocs \subseteq GenreDocs
  /\ DOMAIN spotDocs \subseteq Spots /\ ToSet(spotDocs) \subseteq Records
  /\ onScreen \in BOOLEAN
  /\ genres \in Seq(Genres) /\ genreRows \in 0..Len(genres)
  /\ colors \subseteq Genres
  /\ DOMAIN spotsList \subseteq Genres
  /\ \A g \in DOMAIN spotsList : spotsList[g] \in Seq(Spots)
  /\ allArray \in Seq(Spots)
  /\ selected \in Records
  /\ spotRows \in Nat
  /\ queries \subseteq Queries
  /\ \A i \in DOMAIN mainQ : mainQ[i] \in Blocks
  /\ crashed \in {"no", "spotColor", "genreColor", "genreRows", "spotRow"}
  /\ loads \in 0..MaxLoads
  /\ expected \subseteq Spots
  /\ overlapped \in BOOLEAN /\ raced \in BOOLEAN /\ failed \in BOOLEAN

Init ==
  /\ genreDocs = {}
  /\ spotDocs = <<>>
  /\ onScreen = FALSE
  /\ genres = <<>> /\ genreRows = 0
  /\ colors = {}
  /\ spotsList = <<>> /\ allArray = <<>>
  /\ selected = NoGenre
  /\ spotRows = 0
  /\ queries = {} /\ mainQ = <<>>
  /\ crashed = "no"
  /\ loads = 0 /\ expected = {}
  /\ overlapped = FALSE /\ raced = FALSE /\ failed = FALSE

Quiet == queries = {} /\ mainQ = <<>>

Crash(why) ==
  /\ crashed' = why
  /\ UNCHANGED <<data, onScreen, lists, queries, observed>>

-----------------------------------------------------------------------------
(* The other tabs.                                                          *)

\* CustomGenreViewController.saveGenreButtonTapped. Without a tap on a colour
\* the document's colour is three empty strings. A second document of one name
\* is not refused; two that agree in name and colour are one here.
SaveGenre(g, c) ==
  /\ crashed = "no" /\ ~onScreen
  /\ genreDocs' = genreDocs \cup {[name |-> g, color |-> c]}
  /\ raced' = (raced \/ ~Quiet)
  /\ UNCHANGED <<spotDocs, onScreen, lists, queries, mainQ, crashed, loads,
                 expected, overlapped, failed>>

\* finishTapped: NewPinViewController always writes "null";
\* CustomPinViewController writes "null" or what its dropdown's row parses to.
SaveSpot(s) ==
  /\ crashed = "no" /\ ~onScreen
  /\ s \notin DOMAIN spotDocs
  /\ \E r \in {NoGenre} \cup {Reparse[d.name] : d \in genreDocs} :
       spotDocs' = [t \in DOMAIN spotDocs \cup {s} |-> IF t = s THEN r ELSE spotDocs[t]]
  /\ raced' = (raced \/ ~Quiet)
  /\ UNCHANGED <<genreDocs, onScreen, lists, queries, mainQ, crashed, loads,
                 expected, overlapped, failed>>

Leave ==
  /\ crashed = "no" /\ onScreen
  /\ onScreen' = FALSE
  /\ UNCHANGED <<data, lists, queries, mainQ, crashed, observed>>

-----------------------------------------------------------------------------
(* The tab.                                                                 *)

\* viewWillAppear, with the lists it leaves and the queries it issues;
\* colorsDict keeps what it has.
AppearWith(list, all, kinds) ==
  /\ crashed = "no" /\ ~onScreen
  /\ loads < MaxLoads
  /\ onScreen' = TRUE
  /\ genres' = <<>> /\ spotsList' = list /\ allArray' = all
  /\ selected' = NoGenre
  /\ genreRows' = 0 /\ spotRows' = Len(all)
  /\ queries' = queries \cup {[kind |-> k, load |-> loads + 1] : k \in kinds}
  /\ loads' = loads + 1
  /\ expected' = DOMAIN spotDocs
  /\ overlapped' = (overlapped \/ ~Quiet)
  /\ UNCHANGED <<data, colors, mainQ, crashed, raced, failed>>

\* Mutants of Appear: the lists by genre, or the list of all, are not cleared;
\* the genres are only fetched when none is known; the spots are fetched
\* without waiting for the genres.
AppearKeepingGenres == AppearWith(spotsList, <<>>, {"genres", "dropdown"})
AppearKeepingAll == AppearWith(<<>>, allArray, {"genres", "dropdown"})
AppearFetchingOnce ==
  AppearWith(<<>>, <<>>, IF colors = {} THEN {"genres", "dropdown"} ELSE {"dropdown"})
AppearFetchingAtOnce == AppearWith(<<>>, <<>>, {"genres", "dropdown", "spots"})

Appear == AppearWith(<<>>, <<>>, {"genres", "dropdown"})

\* Firestore answers: the snapshot is what it knows now, the user's own writes
\* included.
Answer(q) ==
  /\ crashed = "no"
  /\ queries' = queries \ {q}
  /\ mainQ' = Append(mainQ,
       [kind |-> q.kind, load |-> q.load,
        docs |-> IF q.kind = "spots" THEN {<<s, spotDocs[s]>> : s \in DOMAIN spotDocs}
                                     ELSE genreDocs])
  /\ UNCHANGED <<data, onScreen, lists, crashed, observed>>

\* The callback of a failed query only prints.
Fail(q) ==
  /\ crashed = "no"
  /\ queries' = queries \ {q}
  /\ failed' = TRUE
  /\ UNCHANGED <<data, onScreen, lists, mainQ, crashed, loads, expected,
                 overlapped, raced>>

Runs(k) == crashed = "no" /\ mainQ # <<>> /\ Head(mainQ).kind = k

\* The callback of populateGenreTable.
RunDropdown ==
  /\ Runs("dropdown")
  /\ LET docs == SetToSeq(Head(mainQ).docs)
     IN  genres' = genres \o [i \in DOMAIN docs |-> docs[i].name]
  /\ mainQ' = Append(Tail(mainQ), [kind |-> "reloadGenres"])
  /\ UNCHANGED <<data, onScreen, genreRows, colors, spotsList, allArray, selected,
                 spotRows, queries, crashed, observed>>

\* The callback of createGenre, and the queries it issues. cgfloatConvert cannot
\* read an empty string.
RunGenresIssuing(kinds) ==
  /\ Runs("genres")
  /\ \/ /\ \E d \in Head(mainQ).docs : d.color = "blank"
        /\ mainQ' = Tail(mainQ)
        /\ Crash("genreColor")
     \/ /\ \A d \in Head(mainQ).docs : d.color = "rgb"
        /\ LET found == {d.name : d \in Head(mainQ).docs} IN
             /\ colors' = colors \cup found
             /\ spotsList' = [g \in DOMAIN spotsList \cup found |->
                                IF g \in found THEN <<>> ELSE spotsList[g]]
        /\ queries' = queries \cup {[kind |-> k, load |-> Head(mainQ).load] : k \in kinds}
        /\ mainQ' = Tail(mainQ)
        /\ UNCHANGED <<data, onScreen, genres, genreRows, allArray, selected,
                       spotRows, crashed, observed>>

\* Mutant of RunGenres: the spots are fetched from within the loop over genres.
RunGenresFetchingInLoop ==
  RunGenresIssuing(IF Head(mainQ).docs = {} THEN {} ELSE {"spots"})

RunGenres == RunGenresIssuing({"spots"})

\* The spots of a snapshot with one of these records, in the query's order.
InOrder(docs, records) ==
  LET ids == {d[1] : d \in {e \in docs : e[2] \in records}}
  IN  CHOOSE q \in [1..Cardinality(ids) -> ids] :
        /\ ToSet(q) = ids
        /\ \A i, j \in DOMAIN q : i < j => q[i] < q[j]

\* The callback of fetchSaved, with the lists by genre it leaves and what it
\* dispatches: color! stops at the first spot whose genre has no colour.
RunSpotsWith(list, reload) ==
  /\ Runs("spots")
  /\ \/ /\ \E d \in Head(mainQ).docs : d[2] \notin colors
        /\ mainQ' = Tail(mainQ)
        /\ Crash("spotColor")
     \/ /\ \A d \in Head(mainQ).docs : d[2] \in colors
        /\ spotsList' = list
        /\ allArray' = allArray \o InOrder(Head(mainQ).docs, Records)
        /\ mainQ' = Tail(mainQ) \o reload
        /\ UNCHANGED <<data, onScreen, genres, genreRows, colors, selected,
                       spotRows, queries, crashed, observed>>

\* spotsList gets the spots of the genres it knows.
WithSpots(docs) ==
  [g \in DOMAIN spotsList |-> spotsList[g] \o InOrder(docs, {g})]

\* Mutants of RunSpots: the table is not reloaded; only the genres that have
\* spots get a list.
RunSpotsSilently == RunSpotsWith(WithSpots(Head(mainQ).docs), <<>>)
RunSpotsGrouping ==
  RunSpotsWith([g \in {d[2] : d \in Head(mainQ).docs} |->
                  InOrder(Head(mainQ).docs, {g})],
               <<[kind |-> "reloadSpots"]>>)

RunSpots == RunSpotsWith(WithSpots(Head(mainQ).docs), <<[kind |-> "reloadSpots"]>>)

\* Mutant of RunReloadGenres: a header is counted as a row.
RunReloadGenresWithHeader ==
  /\ Runs("reloadGenres")
  /\ genreRows' = Len(genres) + 1
  /\ mainQ' = Tail(mainQ)
  /\ UNCHANGED <<data, onScreen, genres, colors, spotsList, allArray, selected,
                 spotRows, queries, crashed, observed>>

RunReloadGenres ==
  /\ Runs("reloadGenres")
  /\ genreRows' = Len(genres)
  /\ mainQ' = Tail(mainQ)
  /\ UNCHANGED <<data, onScreen, genres, colors, spotsList, allArray, selected,
                 spotRows, queries, crashed, observed>>

\* numberOfRowsInSection of the spot table, its selection being sel.
CountRows(sel) ==
  \/ /\ sel = NoGenre
     /\ spotRows' = Len(allArray)
     /\ UNCHANGED crashed
  \/ /\ sel # NoGenre /\ sel \in DOMAIN spotsList
     /\ spotRows' = Len(spotsList[sel])
     /\ UNCHANGED crashed
  \/ /\ sel # NoGenre /\ sel \notin DOMAIN spotsList
     /\ crashed' = "genreRows"
     /\ UNCHANGED spotRows

RunReloadSpots ==
  /\ Runs("reloadSpots")
  /\ CountRows(selected)
  /\ mainQ' = Tail(mainQ)
  /\ UNCHANGED <<data, onScreen, genres, genreRows, colors, spotsList, allArray,
                 selected, queries, observed>>

\* didSelectRowAt of the dropdown.
SelectGenre(i) ==
  /\ crashed = "no" /\ onScreen
  /\ i \in 1..genreRows
  /\ selected' = Reparse[genres[i]]
  /\ CountRows(selected')
  /\ UNCHANGED <<data, onScreen, genres, genreRows, colors, spotsList, allArray,
                 queries, mainQ, observed>>

\* The array behind the rows of the spot table.
Current == IF selected = NoGenre THEN allArray ELSE spotsList[selected]

\* cellForRowAt and didSelectRowAt of the spot table index that array.
TouchRow(i) ==
  /\ crashed = "no" /\ onScreen
  /\ i \in 1..spotRows
  /\ i > Len(Current)
  /\ UNCHANGED mainQ
  /\ Crash("spotRow")

-----------------------------------------------------------------------------
MainQueue ==
  RunDropdown \/ RunGenres \/ RunSpots \/ RunReloadGenres \/ RunReloadSpots

Next ==
  \/ \E g \in Genres, c \in Colors : SaveGenre(g, c)
  \/ \E s \in Spots : SaveSpot(s)
  \/ Leave
  \/ Appear
  \/ \E q \in queries : Answer(q) \/ Fail(q)
  \/ MainQueue
  \/ \E i \in 1..genreRows : SelectGenre(i)
  \/ \E i \in 1..spotRows : TouchRow(i)

Spec == Init /\ [][Next]_vars

\* Firestore answers every query, with a snapshot or an error, and the main
\* queue is served; nobody has to touch the screen.
FairSpec ==
  /\ Spec
  /\ WF_vars(MainQueue)
  /\ WF_vars(\E q \in queries : Answer(q) \/ Fail(q))

-----------------------------------------------------------------------------
(* Properties.                                                              *)

\* list holds, in the same order, what all holds of set from some place on.
IsTailOf(list, all, set) ==
  \E from \in 1..Len(all) + 1 :
    LET places == {j \in from..Len(all) : all[j] \in set}
    IN  \E at \in [DOMAIN list -> places] :
          /\ ToSet(at) = places
          /\ \A i, k \in DOMAIN at : i < k => at[i] < at[k]
          /\ \A i \in DOMAIN at : list[i] = all[at[i]]

\* SavedTabViewController.swift:114, 138-139. Each genre's list is the end of
\* what the complete list holds of that genre, whatever loads overlap.
GenreListsAreSuffixes ==
  \A g \in DOMAIN spotsList :
    IsTailOf(spotsList[g], allArray, {s \in DOMAIN spotDocs : spotDocs[s] = g})

\* viewWillAppear, createGenre and fetchSaved. Once a load is over without an
\* error, every spot saved before the tab appeared is in the list.
NoSpotIsMissing ==
  (Quiet /\ ~failed /\ crashed = "no") => expected \subseteq ToSet(allArray)

\* The same lines. The list shows a spot twice only if the tab once appeared
\* again before an earlier load had ended.
NoSpotTwice == ~overlapped => IsInjective(allArray)

\* SavedTabViewController.swift:136-137. color! fails only for a spot whose
\* record names no genre the user has, or for a load that raced a save.
ColorlessSpotsAreStray ==
  crashed = "spotColor" =>
    \/ raced
    \/ \E s \in DOMAIN spotDocs : \A d \in genreDocs : d.name # spotDocs[s]

\* SavedTabViewController.swift:148-160. Once a load is over without an error
\* and without a save beside it, the table's rows are those of the list behind
\* it, so no row index can be stale.
RowsMatchList ==
  (Quiet /\ ~failed /\ crashed = "no" /\ loads > 0) => spotRows = Len(Current)

\* SavedTabViewController.swift:199-205. Then every row of the dropdown whose
\* name survives the display can be selected.
RowsCanBeSelected ==
  (Quiet /\ ~failed /\ ~raced /\ crashed = "no") =>
    \A i \in 1..genreRows :
      Reparse[genres[i]] = genres[i] => genres[i] \in DOMAIN spotsList

\* A spot that is saved when the tab appears gets shown.
SpotsGetShown ==
  \A s \in Spots :
    (s \in expected) ~> (s \in ToSet(allArray) \/ failed \/ crashed # "no")

\* SavedTabViewController.swift:137 asserts, with color!, that every spot's
\* genre has a colour.
EverySpotHasColor == crashed # "spotColor"

\* SavedTabViewController.swift:157 asserts, with spotsList[selectedGenre]!,
\* that the selected genre has a list.
SelectedGenreHasList == crashed # "genreRows"
=============================================================================
