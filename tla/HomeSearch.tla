----------------------------- MODULE HomeSearch -----------------------------
(***************************************************************************)
(* The home screen (HomeViewController): places are searched for on a       *)
(* global queue and shown in a table the main queue puts over the map, and  *)
(* the user's spots are pinned to the map whenever the screen appears.      *)
(*                                                                          *)
(* One variable, theData, carries the results from whichever search ended   *)
(* last to whichever table asks; searches may overlap, because the keyboard *)
(* stays usable while a spinner covers the screen.                          *)
(***************************************************************************)
EXTENDS Naturals, FiniteSets, SequencesExt

CONSTANTS
  Terms,       \* what a person may type and look for
  None,        \* theData before the first search has succeeded
  Found,       \* per term, how many places the service finds
  Spots,       \* documents in "spots" with the user's uid
  MaxSearches, \* bound: searches
  MaxUpdates,  \* bound: appearances of the screen and cancelled searches
  MaxFailures  \* bound: searches and queries that end in an error

ASSUME NoneAssumption == None \notin Terms
ASSUME FoundAssumption == Found \in [Terms -> Nat]
ASSUME SpotsAssumption == IsFiniteSet(Spots)
ASSUME BoundsAssumption ==
  MaxSearches \in Nat /\ MaxUpdates \in Nat /\ MaxFailures \in Nat

VARIABLES
  shown,       \* home is the tab on the screen
  text,        \* the search bar's text
  searchInput, \* the text of the search started last
  theData,     \* the term whose results it holds
  jobs,        \* searches on the global queue, each with what it is doing
  tables,      \* tables over the map, the newest in front
  myTableView, \* the search whose table it refers to; 0 before the first
  spinners,    \* searches whose spinner is on the screen
  saved,       \* the spots in Firestore
  dot,         \* the user's position is on the map
  userPins,    \* the spots updateMap has collected
  pins,        \* the spots' annotations on the map, in the order added
  queries,     \* getDocuments calls not answered
  main,        \* blocks on the main queue
  crashed,     \* "no", or what stopped the program
  searches, updates, failures,
  overlapped   \* history: a search was started while another was going on

searchVars == <<text, searchInput, theData, jobs, tables, myTableView,
                spinners, searches, overlapped>>
mapVars == <<saved, userPins, pins, queries, updates>>
vars == <<shown, searchVars, mapVars, dot, main, crashed, failures>>

Searches == 1..MaxSearches
Results(term) == IF term = None THEN 0 ELSE Found[term]

Init ==
  /\ shown = FALSE /\ text = "" /\ searchInput = "" /\ theData = None
  /\ jobs = {} /\ tables = <<>> /\ myTableView = 0 /\ spinners = {}
  /\ saved \in SUBSET Spots /\ dot \in BOOLEAN
  /\ userPins = <<>> /\ pins = <<>> /\ queries = 0
  /\ main = <<>> /\ crashed = "no"
  /\ searches = 0 /\ updates = 0 /\ failures = 0 /\ overlapped = FALSE

Running == crashed = "no"

Fails == failures < MaxFailures /\ failures' = failures + 1

\* A table not laid out yet; it comes in front of the spinners there are.
NewTable(id) == [id |-> id, of |-> None, rows |-> 0, spinner |-> searches]

\* removeFromSuperview of the table myTableView refers to, if any.
Without(id) ==
  IF \E i \in 1..Len(tables) : tables[i].id = id
    THEN RemoveAt(tables, CHOOSE i \in 1..Len(tables) : tables[i].id = id)
    ELSE tables

-----------------------------------------------------------------------------
(* The person and the map.                                                   *)

\* updateMap, up to its query.
UpdateMap ==
  /\ updates < MaxUpdates
  /\ updates' = updates + 1
  /\ userPins' = <<>>
  /\ queries' = queries + 1

\* Mutant of Appear: the map is filled when the screen first appears only.
AppearLoadedOnce ==
  /\ Running /\ ~shown
  /\ shown' = TRUE
  /\ IF updates = 0 THEN UpdateMap ELSE UNCHANGED <<updates, userPins, queries>>
  /\ UNCHANGED <<searchVars, saved, pins, dot, main, crashed, failures>>

\* viewDidAppear.
Appear ==
  /\ Running /\ ~shown
  /\ shown' = TRUE
  /\ UpdateMap
  /\ UNCHANGED <<searchVars, saved, pins, dot, main, crashed, failures>>

\* viewDidDisappear; a spinner does not cover the tab bar.
Disappear ==
  /\ Running /\ shown
  /\ shown' = FALSE
  /\ text' = IF myTableView = 0 THEN text ELSE ""
  /\ tables' = Without(myTableView)
  /\ UNCHANGED <<searchInput, theData, jobs, myTableView, spinners, searches,
                 overlapped, mapVars, dot, main, crashed, failures>>

\* A spot is saved on one of the pin screens.
SaveSpot(d) ==
  /\ Running /\ ~shown /\ d \notin saved
  /\ saved' = saved \cup {d}
  /\ UNCHANGED <<shown, searchVars, userPins, pins, queries, updates, dot, main,
                 crashed, failures>>

\* The map learns where the user is, if that is allowed.
Locate ==
  /\ Running /\ ~dot
  /\ dot' = TRUE
  /\ UNCHANGED <<shown, searchVars, mapVars, main, crashed, failures>>

TypeText(term) ==
  /\ Running /\ shown /\ text # term
  /\ text' = term
  /\ UNCHANGED <<shown, searchInput, theData, jobs, tables, myTableView,
                 spinners, searches, overlapped, mapVars, dot, main, crashed,
                 failures>>

\* Mutant of Search: the table of the search before stays.
SearchKeepingTable ==
  /\ Running /\ shown /\ text # "" /\ searches < MaxSearches
  /\ searches' = searches + 1
  /\ overlapped' = (overlapped \/ spinners # {})
  /\ spinners' = spinners \cup {searches'}
  /\ searchInput' = text
  /\ jobs' = jobs \cup {[id |-> searches', does |-> "waits", term |-> None]}
  /\ UNCHANGED <<shown, text, tables, theData, myTableView, mapVars, dot, main,
                 crashed, failures>>

\* searchBarSearchButtonClicked; the key is disabled while there is no text.
Search ==
  /\ Running /\ shown /\ text # "" /\ searches < MaxSearches
  /\ searches' = searches + 1
  /\ overlapped' = (overlapped \/ spinners # {})
  /\ tables' = Without(myTableView)
  /\ spinners' = spinners \cup {searches'}
  /\ searchInput' = text
  /\ jobs' = jobs \cup {[id |-> searches', does |-> "waits", term |-> None]}
  /\ UNCHANGED <<shown, text, theData, myTableView, mapVars, dot, main, crashed,
                 failures>>

\* searchBarCancelButtonClicked; a spinner covers the button.
Cancel ==
  /\ Running /\ shown /\ spinners = {}
  /\ UpdateMap
  /\ text' = IF myTableView = 0 THEN text ELSE ""
  /\ tables' = Without(myTableView)
  /\ UNCHANGED <<shown, searchInput, theData, jobs, myTableView, spinners,
                 searches, overlapped, saved, pins, dot, main, crashed, failures>>

-----------------------------------------------------------------------------
(* The global queue: fetchDataFromSearch.                                    *)

Moved(j, does) == (jobs \ {j}) \cup {[j EXCEPT !.does = does]}

\* The URL is made of the input and the first annotation, of which there must
\* be one.
Ask(j) ==
  /\ Running /\ j.does = "waits"
  /\ IF ~dot /\ pins = <<>>
       THEN crashed' = "annotations[0]" /\ UNCHANGED jobs
       ELSE /\ jobs' = (jobs \ {j}) \cup
                          {[j EXCEPT !.does = "asks", !.term = searchInput]}
            /\ UNCHANGED crashed
  /\ UNCHANGED <<shown, text, searchInput, theData, tables, myTableView,
                 spinners, searches, overlapped, mapVars, dot, main, failures>>

\* The service answers, and theData is assigned while the main thread may be
\* reading it. Two assignments at once may stop the program as well.
Receive(j) ==
  /\ Running /\ j.does = "asks"
  /\ jobs' = Moved(j, "writes")
  /\ theData' = j.term
  /\ crashed' \in IF \E k \in jobs : k.does = "writes" THEN {"no", "race"}
                  ELSE {"no"}
  /\ UNCHANGED <<shown, text, searchInput, tables, myTableView, spinners,
                 searches, overlapped, mapVars, dot, main, failures>>

\* No URL, no connection or no JSON: printed, and theData stays.
ReceiveNothing(j) ==
  /\ Running /\ j.does = "asks" /\ Fails
  /\ jobs' = Moved(j, "failed")
  /\ UNCHANGED <<shown, text, searchInput, theData, tables, myTableView,
                 spinners, searches, overlapped, mapVars, dot, main, crashed>>

\* The job hands over to the main queue.
Finish(j) ==
  /\ Running /\ j.does \in {"writes", "failed"}
  /\ jobs' = jobs \ {j}
  /\ main' = Append(main, [run |-> "display", id |-> j.id])
  /\ UNCHANGED <<shown, text, searchInput, theData, tables, myTableView,
                 spinners, searches, overlapped, mapVars, dot, crashed,
                 failures>>

-----------------------------------------------------------------------------
(* The main queue.                                                           *)

Runs(block) ==
  /\ Running /\ main # <<>> /\ Head(main).run = block
  /\ main' = Tail(main)

\* The main thread reads theData: a read during an assignment may stop the
\* program, and so does an index that is not there.
Read(index) ==
  crashed' \in (IF index > Results(theData) THEN {"index"} ELSE {"no"})
          \cup (IF \E j \in jobs : j.does = "writes" THEN {"race"} ELSE {})

\* Mutant of RunDisplay: the spinner goes only when there is a table instead.
RunDisplayKeepingSpinner ==
  /\ Runs("display") /\ Read(0)
  /\ LET id == Head(main).id
         some == Results(theData) > 0
     IN  /\ tables' = IF some THEN Append(tables, NewTable(id)) ELSE tables
         /\ myTableView' = IF some THEN id ELSE myTableView
         /\ spinners' = IF some THEN spinners \ {id} ELSE spinners
  /\ UNCHANGED <<shown, text, searchInput, theData, jobs, searches, overlapped,
                 mapVars, dot, failures>>

\* displayTable: a new table, or an alert when there is nothing to show; then
\* the search's own spinner goes.
RunDisplay ==
  /\ Runs("display") /\ Read(0)
  /\ LET id == Head(main).id
         some == Results(theData) > 0
     IN  /\ tables' = IF some THEN Append(tables, NewTable(id)) ELSE tables
         /\ myTableView' = IF some THEN id ELSE myTableView
         /\ spinners' = spinners \ {id}
  /\ UNCHANGED <<shown, text, searchInput, theData, jobs, searches, overlapped,
                 mapVars, dot, failures>>

\* UIKit lays out a new table: numberOfRowsInSection, then the cells.
LayOut(i) ==
  /\ Running /\ shown /\ tables[i].of = None
  /\ Read(0)
  /\ tables' = [tables EXCEPT ![i].of = theData, ![i].rows = Results(theData)]
  /\ UNCHANGED <<shown, text, searchInput, theData, jobs, myTableView, spinners,
                 searches, overlapped, mapVars, dot, main, failures>>

\* A row of the table in front, if no spinner covers it, is scrolled to or
\* tapped: cellForRowAt, or the accessory that opens NewPinViewController. What
\* opens is theData's result; here only a read that fails leaves a trace.
TouchRow(row) ==
  /\ Running /\ shown /\ tables # <<>>
  /\ \A s \in spinners : s <= Last(tables).spinner
  /\ row \in 1..Last(tables).rows
  /\ Read(row)
  /\ crashed' # "no"
  /\ UNCHANGED <<shown, searchVars, mapVars, dot, main, failures>>

\* Firestore answers updateMap's query, or fails to.
Answer ==
  /\ Running /\ queries > 0
  /\ queries' = queries - 1
  /\ main' = Append(main, [run |-> "spots", docs |-> saved])
  /\ UNCHANGED <<shown, searchVars, saved, userPins, pins, updates, dot,
                 crashed, failures>>

QueryFails ==
  /\ Running /\ queries > 0 /\ Fails
  /\ queries' = queries - 1
  /\ UNCHANGED <<shown, searchVars, saved, userPins, pins, updates, dot, main,
                 crashed>>

\* Mutant of RunSpots: the map is annotated before the documents are appended.
RunSpotsLate ==
  /\ Runs("spots")
  /\ userPins' = userPins \o SetToSeq(Head(main).docs)
  /\ pins' = pins \o userPins
  /\ UNCHANGED <<shown, searchVars, saved, queries, updates, dot, crashed,
                 failures>>

\* The callback appends the documents and annotates all it has collected,
\* beside the annotations the map already has.
RunSpots ==
  /\ Runs("spots")
  /\ userPins' = userPins \o SetToSeq(Head(main).docs)
  /\ pins' = pins \o userPins'
  /\ UNCHANGED <<shown, searchVars, saved, queries, updates, dot, crashed,
                 failures>>

-----------------------------------------------------------------------------
Blocks == RunDisplay \/ RunSpots

Next ==
  \/ Appear \/ Disappear \/ Search \/ Cancel \/ Locate
  \/ \E d \in Spots : SaveSpot(d)
  \/ \E term \in Terms : TypeText(term)
  \/ \E j \in jobs : Ask(j) \/ Receive(j) \/ ReceiveNothing(j) \/ Finish(j)
  \/ Blocks
  \/ \E i \in 1..Len(tables) : LayOut(i)
  \/ \E row \in 1..Max({0} \cup {Found[t] : t \in Terms}) : TouchRow(row)
  \/ Answer \/ QueryFails

\* Jobs are scheduled and requests time out, blocks run.
Fairness ==
  /\ \A s \in Searches :
       WF_vars(\E j \in jobs : j.id = s /\
                 (Ask(j) \/ Receive(j) \/ ReceiveNothing(j) \/ Finish(j)))
  /\ WF_vars(Blocks)
  /\ WF_vars(Answer \/ QueryFails)

Spec == Init /\ [][Next]_vars /\ Fairness

-----------------------------------------------------------------------------
Jobs == [id : Searches, does : {"waits", "asks", "writes", "failed"},
         term : Terms \cup {None}]
MainBlocks == [run : {"display"}, id : Searches]
         \cup [run : {"spots"}, docs : SUBSET Spots]

TypeOK ==
  /\ shown \in BOOLEAN /\ dot \in BOOLEAN /\ overlapped \in BOOLEAN
  /\ text \in Terms \cup {""} /\ searchInput \in Terms \cup {""}
  /\ theData \in Terms \cup {None}
  /\ jobs \subseteq Jobs
  /\ tables \in Seq([id : Searches, of : Terms \cup {None}, rows : Nat,
                    spinner : Searches])
  /\ myTableView \in {0} \cup Searches
  /\ spinners = {j.id : j \in jobs} \cup
       {main[i].id : i \in {k \in 1..Len(main) : main[k].run = "display"}}
  /\ saved \subseteq Spots /\ queries \in 0..MaxUpdates
  /\ userPins \in Seq(Spots) /\ pins \in Seq(Spots)
  /\ main \in Seq(MainBlocks)
  /\ crashed \in {"no", "annotations[0]", "race", "index"}
  /\ searches \in 0..MaxSearches /\ updates \in 0..MaxUpdates
  /\ failures \in 0..MaxFailures

\* While no search is started before the one before has been shown, at most
\* one table covers the map, it is the one myTableView can remove, its rows
\* are those of theData, theData is the last search's if nothing failed, and
\* reading it never stops the program. (With overlapping searches each of
\* these may fail.)
CalmSearchShowsItself ==
  ~overlapped =>
    /\ crashed \notin {"race", "index"}
    /\ \A i \in 1..Len(tables) :
         /\ i = 1 /\ tables[i].id = myTableView
         /\ tables[i].of # None =>
              tables[i].of = theData /\ tables[i].rows = Results(theData)
    /\ searches > 0 /\ spinners = {} /\ failures = 0 => theData = searchInput

\* Whichever way spots were saved, tabs changed and queries overtaken: while
\* home is shown and no request has failed, once every query of updateMap is
\* answered and its callback has run, every spot has its pin, and a search can
\* have stopped for want of annotations[0] only where there is no spot at all.
MapIsComplete ==
  shown /\ failures = 0 /\ queries = 0 /\ (\A i \in 1..Len(main) : main[i].run # "spots") =>
    /\ saved \subseteq ToSet(pins)
    /\ crashed = "annotations[0]" => saved = {} /\ ~dot

\* Every spinner goes, whatever the service answers and however searches
\* overlap, unless the program stopped.
SpinnersGo ==
  \A s \in Searches : s \in spinners ~> s \notin spinners \/ ~Running

\* A spot that is saved while updateMap waits for its query, or was before,
\* gets its pin, unless the query fails or the program stopped.
PinsAppear ==
  \A d \in Spots :
    d \in saved /\ queries > 0 ~> d \in ToSet(pins) \/ failures > 0 \/ ~Running
=============================================================================
