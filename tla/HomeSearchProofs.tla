-------------------------- MODULE HomeSearchProofs --------------------------
(* Theorems about HomeSearch, for every set of terms, whatever the service   *)
(* finds, and any number of searches, appearances, failures and spots.       *)
EXTENDS HomeSearch, FiniteSetTheorems, TLAPS

-----------------------------------------------------------------------------
(* Helpers.                                                                  *)

Tables == [id : Searches, of : Terms \cup {None}, rows : Nat, spinner : Searches]

LEMMA ResultsTyped ==
  ASSUME NEW t \in Terms \cup {None}
  PROVE  Results(t) \in Nat
  BY FoundAssumption, NoneAssumption DEF Results

\* The documents of a query, in some order.
LEMMA DocsListed ==
  ASSUME NEW docs \in SUBSET Spots
  PROVE  SetToSeq(docs) \in Seq(Spots)
  <1>1. IsFiniteSet(docs)
    BY SpotsAssumption, FS_Subset
  <1>2. Cardinality(docs) \in Nat /\ ExistsBijection(1..Cardinality(docs), docs)
    BY <1>1, FS_CardinalityType
  <1>3. \E g \in [1..Cardinality(docs) -> docs] : IsInjective(g)
    BY <1>2 DEF ExistsBijection, Bijection, Injection, IsInjective
  <1>4. SetToSeq(docs) \in [1..Cardinality(docs) -> docs]
    BY <1>3 DEF SetToSeq
  <1>5. SetToSeq(docs) \in [1..Cardinality(docs) -> Spots]
    BY <1>4
  <1> QED
    BY <1>2, <1>5

\* Removing a table leaves tables, and removes the only one there is.
LEMMA WithoutTyped ==
  ASSUME tables \in Seq(Tables), NEW id
  PROVE  Without(id) \in Seq(Tables)
  <1>1. ASSUME NEW i \in 1..Len(tables)
        PROVE  RemoveAt(tables, i) \in Seq(Tables)
    BY <1>1 DEF RemoveAt
  <1> QED
    BY <1>1 DEF Without

LEMMA WithoutOnly ==
  ASSUME tables \in Seq(Tables),
         \A i \in 1..Len(tables) : i = 1 /\ tables[i].id = myTableView
  PROVE  Without(myTableView) = <<>>
  <1>1. CASE tables = <<>>
    BY <1>1 DEF Without
  <1>2. CASE tables # <<>>
    <2>1. Len(tables) = 1
      <3>1. Len(tables) \in Nat /\ Len(tables) # 0
        BY <1>2
      <3>2. 2 \notin 1..Len(tables)
        OBVIOUS
      <3> DEFINE n == Len(tables)
      <3>3. n \in Nat /\ n # 0 /\ 2 \notin 1..n
        BY <3>1, <3>2
      <3> HIDE DEF n
      <3>4. n = 1
        BY <3>3
      <3> QED
        BY <3>4 DEF n
    <2>2. \E i \in 1..Len(tables) : tables[i].id = myTableView
      BY <2>1
    <2>3. (CHOOSE i \in 1..Len(tables) : tables[i].id = myTableView) = 1
      BY <2>2
    <2>4. RemoveAt(tables, 1) = <<>>
      BY <2>1 DEF RemoveAt
    <2> QED
      BY <2>2, <2>3, <2>4 DEF Without
  <1> QED
    BY <1>1, <1>2

-----------------------------------------------------------------------------
(* The main queue, as the searches that wait there to be displayed.          *)

Displays == {i \in 1..Len(main) : main[i].run = "display"}
DisplayIds == {main[i].id : i \in Displays}
DisplaysDiffer == \A i, k \in Displays : main[i].id = main[k].id => i = k

LEMMA PopFacts ==
  ASSUME main \in Seq(MainBlocks), main # <<>>, main' = Tail(main)
  PROVE  /\ Head(main) = main[1] /\ Head(main) \in MainBlocks
         /\ main' \in Seq(MainBlocks) /\ Len(main) \in Nat
         /\ \A i \in 1..Len(main') : i + 1 \in 1..Len(main) /\ main'[i] = main[i + 1]
         /\ \A i \in 1..Len(main) : i # 1 => i - 1 \in 1..Len(main') /\ main'[i - 1] = main[i]
  OBVIOUS

LEMMA PopSpots ==
  ASSUME main \in Seq(MainBlocks), main # <<>>, main' = Tail(main),
         Head(main).run = "spots"
  PROVE  DisplayIds' = DisplayIds /\ (DisplaysDiffer => DisplaysDiffer')
  <1>1. ASSUME NEW i \in Displays'
        PROVE  i \in Nat /\ i + 1 \in Displays /\ main'[i] = main[i + 1]
    BY <1>1, PopFacts DEF Displays
  <1>2. ASSUME NEW i \in Displays
        PROVE  i - 1 \in Displays' /\ main'[i - 1] = main[i]
    <2>1. i # 1
      BY <1>2, PopFacts DEF Displays
    <2> QED
      BY <1>2, <2>1, PopFacts DEF Displays
  <1>3. ASSUME DisplaysDiffer, NEW i \in Displays', NEW k \in Displays',
               main'[i].id = main'[k].id
        PROVE  i = k
    <2>1. i + 1 = k + 1
      BY <1>1, <1>3 DEF DisplaysDiffer
    <2> QED
      BY <1>1, <2>1
  <1>4. \A i \in Displays' : main'[i].id \in DisplayIds
    BY <1>1 DEF DisplayIds
  <1>5. \A i \in Displays : main[i].id \in DisplayIds'
    BY <1>2 DEF DisplayIds
  <1>6. DisplayIds' = DisplayIds
    BY <1>4, <1>5 DEF DisplayIds
  <1>7. DisplaysDiffer => DisplaysDiffer'
    BY <1>3 DEF DisplaysDiffer
  <1> QED
    BY <1>6, <1>7

LEMMA PopDisplay ==
  ASSUME main \in Seq(MainBlocks), main # <<>>, main' = Tail(main),
         Head(main).run = "display", DisplaysDiffer
  PROVE  /\ DisplayIds' = DisplayIds \ {Head(main).id}
         /\ Head(main).id \in DisplayIds /\ Head(main).id \in Searches
         /\ DisplaysDiffer'
  <1>1. 1 \in Displays /\ main[1].id = Head(main).id
    BY PopFacts DEF Displays
  <1>2. ASSUME NEW i \in Displays'
        PROVE  /\ i \in Nat /\ i + 1 \in Displays /\ main'[i] = main[i + 1]
               /\ main'[i].id # Head(main).id
    <2>1. i \in Nat /\ i # 0 /\ i + 1 \in Displays /\ main'[i] = main[i + 1]
      BY <1>2, PopFacts DEF Displays
    <2>2. i + 1 # 1
      BY <2>1
    <2> QED
      BY <1>1, <2>1, <2>2 DEF DisplaysDiffer
  <1>3. ASSUME NEW i \in Displays, i # 1
        PROVE  i - 1 \in Displays' /\ main'[i - 1] = main[i]
    BY <1>3, PopFacts DEF Displays
  <1>4. ASSUME NEW i \in Displays', NEW k \in Displays', main'[i].id = main'[k].id
        PROVE  i = k
    <2>1. i + 1 = k + 1
      BY <1>2, <1>4 DEF DisplaysDiffer
    <2> QED
      BY <1>2, <2>1
  <1>5. Head(main).id \in Searches
    BY PopFacts DEF MainBlocks
  <1>6. \A i \in Displays' : main'[i].id \in DisplayIds \ {Head(main).id}
    BY <1>2 DEF DisplayIds
  <1>7. \A i \in Displays : main[i].id \in DisplayIds' \cup {Head(main).id}
    BY <1>1, <1>3 DEF DisplayIds
  <1>8. Head(main).id \in DisplayIds
    BY <1>1 DEF DisplayIds
  <1>9. DisplayIds' \subseteq DisplayIds \ {Head(main).id}
    BY <1>6 DEF DisplayIds
  <1>10. DisplayIds \subseteq DisplayIds' \cup {Head(main).id}
    BY <1>7 DEF DisplayIds
  <1>11. DisplaysDiffer'
    BY <1>4 DEF DisplaysDiffer
  <1> QED
    BY <1>5, <1>8, <1>9, <1>10, <1>11

LEMMA PushFacts ==
  ASSUME main \in Seq(MainBlocks), NEW b \in MainBlocks, main' = Append(main, b)
  PROVE  /\ main' \in Seq(MainBlocks) /\ Len(main') = Len(main) + 1 /\ Len(main) \in Nat
         /\ \A i \in 1..Len(main) : main'[i] = main[i]
         /\ main'[Len(main) + 1] = b
  OBVIOUS

LEMMA PushSpots ==
  ASSUME main \in Seq(MainBlocks), NEW b \in MainBlocks, b.run = "spots",
         main' = Append(main, b)
  PROVE  DisplayIds' = DisplayIds /\ (DisplaysDiffer => DisplaysDiffer')
  <1>1. Displays' = Displays /\ \A i \in Displays : main'[i] = main[i]
    BY PushFacts DEF Displays
  <1>2. DisplayIds' \subseteq DisplayIds
    BY <1>1 DEF DisplayIds
  <1>3. DisplayIds \subseteq DisplayIds'
    BY <1>1 DEF DisplayIds
  <1>4. ASSUME DisplaysDiffer, NEW i \in Displays', NEW k \in Displays',
               main'[i].id = main'[k].id
        PROVE  i = k
    <2>1. main[i].id = main[k].id /\ i \in Displays /\ k \in Displays
      BY <1>1, <1>4
    <2> QED
      BY <1>4, <2>1 DEF DisplaysDiffer
  <1> QED
    BY <1>2, <1>3, <1>4 DEF DisplaysDiffer

LEMMA PushDisplay ==
  ASSUME main \in Seq(MainBlocks), NEW b \in MainBlocks, b.run = "display",
         b.id \notin DisplayIds, DisplaysDiffer, main' = Append(main, b)
  PROVE  DisplayIds' = DisplayIds \cup {b.id} /\ DisplaysDiffer'
  <1> DEFINE n == Len(main) + 1
  <1>1. /\ Displays' = Displays \cup {n} /\ main'[n] = b
        /\ \A i \in Displays : main'[i] = main[i]
    BY PushFacts DEF Displays
  <1> HIDE DEF n
  <1>2. \A i \in Displays : main[i].id \in DisplayIds
    BY DEF DisplayIds
  <1>3. ASSUME NEW i \in Displays', NEW k \in Displays', main'[i].id = main'[k].id
        PROVE  i = k
    <2>1. CASE i \in Displays /\ k \in Displays
      BY <1>1, <1>3, <2>1 DEF DisplaysDiffer
    <2>2. CASE i \in Displays /\ k = n
      BY <1>1, <1>2, <1>3, <2>2
    <2>3. CASE i = n /\ k \in Displays
      BY <1>1, <1>2, <1>3, <2>3
    <2> QED
      BY <1>1, <2>1, <2>2, <2>3
  <1>4. \A i \in Displays' : main'[i].id \in DisplayIds \cup {b.id}
    BY <1>1, <1>2
  <1>5. \A i \in Displays' : main'[i].id \in DisplayIds'
    BY DEF DisplayIds
  <1>6. DisplayIds' \subseteq DisplayIds \cup {b.id}
    BY <1>4 DEF DisplayIds
  <1>7. b.id \in DisplayIds'
    BY <1>1, <1>5
  <1>8. DisplayIds \subseteq DisplayIds'
    <2>1. \A i \in Displays : main[i].id \in DisplayIds'
      BY <1>1, <1>5
    <2> QED
      BY <2>1 DEF DisplayIds
  <1>9. DisplaysDiffer'
    BY <1>3 DEF DisplaysDiffer
  <1> QED
    BY <1>6, <1>7, <1>8, <1>9

-----------------------------------------------------------------------------
(* Type correctness.                                                         *)

JobIds == {j.id : j \in jobs}

\* A search is with the global queue or waits to be displayed, never both, and
\* its spinner is on the screen exactly as long.
IdsInv ==
  /\ JobIds \cup DisplayIds \subseteq 1..searches
  /\ \A j, k \in jobs : j.id = k.id => j = k
  /\ DisplaysDiffer
  /\ JobIds \cap DisplayIds = {}
  /\ spinners = JobIds \cup DisplayIds

Texts == Terms \cup {""}

SearchTypes ==
  /\ text \in Texts /\ searchInput \in Texts
  /\ searches # 0 => searchInput \in Terms
  /\ theData \in Terms \cup {None}
  /\ jobs \subseteq Jobs
  /\ tables \in Seq(Tables)
  /\ myTableView \in {0} \cup Searches
  /\ searches \in 0..MaxSearches
  /\ overlapped \in BOOLEAN

MapTypes ==
  /\ saved \subseteq Spots
  /\ userPins \in Seq(Spots) /\ pins \in Seq(Spots)
  /\ updates \in 0..MaxUpdates /\ queries \in 0..updates

OtherTypes ==
  /\ shown \in BOOLEAN /\ dot \in BOOLEAN
  /\ main \in Seq(MainBlocks)
  /\ crashed \in {"no", "annotations[0]", "race", "index"}
  /\ failures \in 0..MaxFailures

TypesInv == IdsInv /\ SearchTypes /\ MapTypes /\ OtherTypes

LEMMA TypesImply == TypesInv => TypeOK
  <1> SUFFICES ASSUME TypesInv PROVE TypeOK
    OBVIOUS
  <1>1. spinners = {j.id : j \in jobs} \cup
          {main[i].id : i \in {k \in 1..Len(main) : main[k].run = "display"}}
    BY DEF TypesInv, IdsInv, JobIds, DisplayIds, Displays
  <1>2. queries \in 0..MaxUpdates
    BY BoundsAssumption DEF TypesInv, MapTypes
  <1>3. tables \in Seq([id : Searches, of : Terms \cup {None}, rows : Nat,
                         spinner : Searches])
    BY DEF TypesInv, SearchTypes, Tables
  <1> QED
    BY <1>1, <1>2, <1>3 DEF TypesInv, SearchTypes, MapTypes, OtherTypes, TypeOK, Texts

LEMMA TypesInit == Init => TypesInv
  <1> SUFFICES ASSUME Init PROVE TypesInv
    OBVIOUS
  <1>1. JobIds = {}
    BY DEF Init, JobIds
  <1>2. Displays = {}
    <2>1. main = <<>>
      BY DEF Init
    <2>2. Len(main) = 0
      BY <2>1
    <2> QED
      BY <2>2 DEF Displays
  <1>3. DisplayIds = {}
    BY <1>2 DEF DisplayIds
  <1>4. jobs = {} /\ spinners = {}
    BY DEF Init
  <1>5. IdsInv
    BY <1>1, <1>2, <1>3, <1>4 DEF IdsInv, DisplaysDiffer
  <1>6. <<>> \in Seq(Tables) /\ <<>> \in Seq(Spots) /\ <<>> \in Seq(MainBlocks)
    OBVIOUS
  <1>7. 0 \in 0..MaxSearches /\ 0 \in 0..MaxUpdates /\ 0 \in 0..MaxFailures /\ 0 \in 0..0
    BY BoundsAssumption
  <1>8. SearchTypes
    BY <1>6, <1>7, Zenon DEF Init, SearchTypes, Texts
  <1>9. saved \subseteq Spots
    BY DEF Init
  <1>10. MapTypes
    BY <1>6, <1>7, <1>9, Zenon DEF Init, MapTypes
  <1>11. OtherTypes
    BY <1>6, <1>7, Zenon DEF Init, OtherTypes
  <1> QED
    BY <1>5, <1>8, <1>10, <1>11 DEF TypesInv

\* A step that moves no search.
LEMMA IdsKept ==
  ASSUME IdsInv, UNCHANGED <<jobs, spinners, searches>>,
         DisplayIds' = DisplayIds, DisplaysDiffer => DisplaysDiffer'
  PROVE  IdsInv'
  <1>1. JobIds' = JobIds
    BY DEF JobIds
  <1> QED
    BY <1>1 DEF IdsInv

LEMMA IdsElsewhere ==
  ASSUME IdsInv, UNCHANGED <<jobs, spinners, searches, main>>
  PROVE  IdsInv'
  <1>1. DisplayIds' = DisplayIds /\ DisplaysDiffer' = DisplaysDiffer
    BY DEF DisplayIds, DisplaysDiffer, Displays
  <1> QED
    BY <1>1, IdsKept

\* A job goes on.
LEMMA IdsMoved ==
  ASSUME IdsInv, NEW j \in jobs, NEW n, n.id = j.id,
         jobs' = (jobs \ {j}) \cup {n}, UNCHANGED <<spinners, searches, main>>
  PROVE  IdsInv'
  <1>1. DisplayIds' = DisplayIds /\ DisplaysDiffer' = DisplaysDiffer
    BY DEF DisplayIds, DisplaysDiffer, Displays
  <1>2. JobIds' \subseteq JobIds
    BY DEF JobIds
  <1>3. JobIds \subseteq JobIds'
    <2>1. ASSUME NEW k \in jobs PROVE k.id \in JobIds'
      <3>1. CASE k = j
        BY <3>1 DEF JobIds
      <3>2. CASE k # j
        BY <3>2 DEF JobIds
      <3> QED
        BY <3>1, <3>2
    <2> QED
      BY <2>1 DEF JobIds
  <1>4. \A k, m \in jobs' : k.id = m.id => k = m
    BY DEF IdsInv
  <1> QED
    BY <1>1, <1>2, <1>3, <1>4 DEF IdsInv

LEMMA MovedTyped ==
  ASSUME SearchTypes, NEW j \in jobs, NEW does \in {"waits", "asks", "writes", "failed"}
  PROVE  /\ [j EXCEPT !.does = does] \in Jobs
         /\ [j EXCEPT !.does = does].id = j.id
         /\ [j EXCEPT !.does = does].does = does
         /\ [j EXCEPT !.does = does].term = j.term
         /\ j.id \in Searches /\ j.term \in Terms \cup {None}
  BY DEF SearchTypes, Jobs

\* A table is put over the map, or none.
LEMMA NewTableTyped ==
  ASSUME SearchTypes, NEW id \in 1..searches
  PROVE  NewTable(id) \in Tables
  <1> DEFINE n == searches
             m == MaxSearches
  <1>0. n \in 0..m /\ m \in Nat /\ id \in 1..n
    BY BoundsAssumption DEF SearchTypes
  <1> HIDE DEF n, m
  <1>1. n \in 1..m /\ id \in 1..m
    BY <1>0
  <1>2. 0 \in Nat /\ None \in Terms \cup {None}
    OBVIOUS
  <1> QED
    BY <1>1, <1>2 DEF NewTable, Tables, Searches, n, m

LEMMA TypesAppear == TypesInv /\ Appear => TypesInv'
  <1> SUFFICES ASSUME TypesInv, Appear PROVE TypesInv'
    OBVIOUS
  <1> USE DEF TypesInv
  <1>1. IdsInv'
    BY IdsElsewhere DEF Appear, UpdateMap, searchVars
  <1>2. SearchTypes'
    BY DEF Appear, searchVars, SearchTypes
  <1>3. /\ updates \in 0..MaxUpdates /\ queries \in 0..updates /\ updates < MaxUpdates
        /\ updates' = updates + 1 /\ queries' = queries + 1
    BY DEF Appear, UpdateMap, MapTypes
  <1>4. updates' \in 0..MaxUpdates /\ queries' \in 0..updates'
    BY <1>3, BoundsAssumption
  <1>5. userPins' = <<>> /\ UNCHANGED <<saved, pins>>
    BY DEF Appear, UpdateMap
  <1>6. MapTypes'
    BY <1>4, <1>5 DEF MapTypes
  <1>7. OtherTypes'
    BY DEF Appear, OtherTypes
  <1> QED
    BY <1>1, <1>2, <1>6, <1>7

LEMMA TypesCancel == TypesInv /\ Cancel => TypesInv'
  <1> SUFFICES ASSUME TypesInv, Cancel PROVE TypesInv'
    OBVIOUS
  <1> USE DEF TypesInv
  <1>1. IdsInv'
    BY IdsElsewhere DEF Cancel
  <1>2. tables' \in Seq(Tables)
    BY WithoutTyped DEF Cancel, SearchTypes
  <1>3. text' \in Texts
    BY DEF Cancel, SearchTypes, Texts
  <1>4. SearchTypes'
    BY <1>2, <1>3 DEF Cancel, SearchTypes
  <1>5. /\ updates \in 0..MaxUpdates /\ queries \in 0..updates /\ updates < MaxUpdates
        /\ updates' = updates + 1 /\ queries' = queries + 1
    BY DEF Cancel, UpdateMap, MapTypes
  <1>6. updates' \in 0..MaxUpdates /\ queries' \in 0..updates'
    BY <1>5, BoundsAssumption
  <1>7. userPins' = <<>> /\ UNCHANGED <<saved, pins>>
    BY DEF Cancel, UpdateMap
  <1>8. MapTypes'
    BY <1>6, <1>7 DEF MapTypes
  <1>9. OtherTypes'
    BY DEF Cancel, OtherTypes
  <1> QED
    BY <1>1, <1>4, <1>8, <1>9

LEMMA TypesDisappear == TypesInv /\ Disappear => TypesInv'
  <1> SUFFICES ASSUME TypesInv, Disappear PROVE TypesInv'
    OBVIOUS
  <1> USE DEF TypesInv
  <1>1. IdsInv'
    BY IdsElsewhere DEF Disappear
  <1>2. tables' \in Seq(Tables)
    BY WithoutTyped DEF Disappear, SearchTypes
  <1>3. text' \in Texts
    BY DEF Disappear, SearchTypes, Texts
  <1>4. SearchTypes'
    BY <1>2, <1>3 DEF Disappear, SearchTypes
  <1>5. MapTypes'
    BY DEF Disappear, mapVars, MapTypes
  <1>6. OtherTypes'
    BY DEF Disappear, OtherTypes
  <1> QED
    BY <1>1, <1>4, <1>5, <1>6

LEMMA TypesPerson ==
  ASSUME TypesInv,
         \/ Locate
         \/ \E d \in Spots : SaveSpot(d)
         \/ \E term \in Terms : TypeText(term)
  PROVE  TypesInv'
  <1> USE DEF TypesInv
  <1>1. CASE Locate
    <2>1. IdsInv'
      BY <1>1, IdsElsewhere DEF Locate, searchVars
    <2> QED
      BY <1>1, <2>1 DEF Locate, searchVars, mapVars, SearchTypes, MapTypes, OtherTypes
  <1>2. ASSUME NEW d \in Spots, SaveSpot(d) PROVE TypesInv'
    <2>1. IdsInv'
      BY <1>2, IdsElsewhere DEF SaveSpot, searchVars
    <2>2. saved' \subseteq Spots
      BY <1>2 DEF SaveSpot, MapTypes
    <2>3. MapTypes'
      BY <1>2, <2>2 DEF SaveSpot, MapTypes
    <2> QED
      BY <1>2, <2>1, <2>3 DEF SaveSpot, searchVars, SearchTypes, OtherTypes
  <1>3. ASSUME NEW term \in Terms, TypeText(term) PROVE TypesInv'
    <2>1. IdsInv'
      BY <1>3, IdsElsewhere DEF TypeText
    <2>2. MapTypes'
      BY <1>3 DEF TypeText, mapVars, MapTypes
    <2>3. text' \in Texts
      BY <1>3 DEF TypeText, Texts
    <2> QED
      BY <1>3, <2>1, <2>2, <2>3 DEF TypeText, SearchTypes, OtherTypes
  <1> QED
    BY <1>1, <1>2, <1>3

\* A new search is one more.
LEMMA TypesSearch == TypesInv /\ Search => TypesInv'
  <1> SUFFICES ASSUME TypesInv, Search PROVE TypesInv'
    OBVIOUS
  <1> USE DEF TypesInv
  <1> DEFINE id == searches + 1
             job == [id |-> id, does |-> "waits", term |-> None]
  <1>0. searches \in Nat /\ MaxSearches \in Nat /\ searches < MaxSearches /\ searches' = id
    <2>1. searches < MaxSearches /\ searches' = id
      BY DEF Search
    <2> QED
      BY <2>1, BoundsAssumption DEF SearchTypes
  <1>1. id \in Searches /\ id \notin 1..searches /\ 1..id = (1..searches) \cup {id}
    BY <1>0 DEF Searches
  <1>2. jobs' = jobs \cup {job} /\ spinners' = spinners \cup {id} /\ main' = main
    BY DEF Search
  <1>3. job.id = id /\ job \in Jobs
    BY <1>1 DEF Jobs
  <1> HIDE DEF job, id
  <1>4. DisplayIds' = DisplayIds /\ DisplaysDiffer' = DisplaysDiffer
    BY <1>2 DEF DisplayIds, DisplaysDiffer, Displays
  <1>5. JobIds' = JobIds \cup {id}
    BY <1>2, <1>3 DEF JobIds
  <1>6. \A j, k \in jobs' : j.id = k.id => j = k
    <2>1. \A j \in jobs : j.id # id
      BY <1>1 DEF IdsInv, JobIds
    <2> QED
      BY <1>2, <1>3, <2>1 DEF IdsInv
  <1>7. IdsInv'
    BY <1>0, <1>1, <1>2, <1>4, <1>5, <1>6 DEF IdsInv
  <1>8. tables' \in Seq(Tables)
    BY WithoutTyped DEF Search, SearchTypes
  <1>9. searches' \in 0..MaxSearches
    BY <1>0, <1>1 DEF Searches
  <1>10. jobs' \subseteq Jobs
    BY <1>2, <1>3 DEF SearchTypes
  <1>11. overlapped' \in BOOLEAN
    <2>1. overlapped' = (overlapped \/ spinners # {})
      BY DEF Search
    <2> QED
      BY <2>1, Zenon
  <1>12. SearchTypes'
    <2>1. searchInput' \in Terms
      BY DEF Search, SearchTypes, Texts
    <2> QED
      BY <1>8, <1>9, <1>10, <1>11, <2>1 DEF Search, SearchTypes
  <1>13. MapTypes'
    BY DEF Search, mapVars, MapTypes
  <1>14. OtherTypes'
    BY DEF Search, OtherTypes
  <1> QED
    BY <1>7, <1>12, <1>13, <1>14

LEMMA TypesAsk ==
  ASSUME TypesInv, NEW j \in jobs, Ask(j)
  PROVE  TypesInv'
  <1> USE DEF TypesInv
  <1>1. searchInput \in Terms
    <2>1. j.id \in 1..searches
      BY DEF IdsInv, JobIds
    <2>2. searches # 0
      BY <2>1 DEF SearchTypes
    <2> QED
      BY <2>2 DEF SearchTypes
  <1> DEFINE n == [j EXCEPT !.does = "asks", !.term = searchInput]
  <1>2. n \in Jobs /\ n.id = j.id
    BY <1>1 DEF SearchTypes, Jobs
  <1>3. \/ jobs' = (jobs \ {j}) \cup {n} /\ UNCHANGED crashed
        \/ crashed' = "annotations[0]" /\ UNCHANGED jobs
    BY DEF Ask
  <1> HIDE DEF n
  <1>4. UNCHANGED <<spinners, searches, main>>
    BY DEF Ask
  <1>5. IdsInv'
    BY <1>2, <1>3, <1>4, IdsMoved, IdsElsewhere
  <1>6. jobs' \subseteq Jobs
    BY <1>2, <1>3 DEF SearchTypes
  <1>7. SearchTypes'
    BY <1>6 DEF Ask, SearchTypes
  <1>8. MapTypes'
    BY DEF Ask, mapVars, MapTypes
  <1>9. crashed' \in {"no", "annotations[0]", "race", "index"}
    BY <1>3 DEF OtherTypes
  <1>10. OtherTypes'
    BY <1>9 DEF Ask, OtherTypes
  <1> QED
    BY <1>5, <1>7, <1>8, <1>10

LEMMA TypesReceive ==
  ASSUME TypesInv, NEW j \in jobs, Receive(j)
  PROVE  TypesInv'
  <1> USE DEF TypesInv
  <1> DEFINE n == [j EXCEPT !.does = "writes"]
  <1>1. n \in Jobs /\ n.id = j.id /\ j.term \in Terms \cup {None}
    BY MovedTyped
  <1>2. jobs' = (jobs \ {j}) \cup {n} /\ theData' = j.term
    BY DEF Receive, Moved
  <1> HIDE DEF n
  <1>3. IdsInv'
    BY <1>1, <1>2, IdsMoved DEF Receive
  <1>4. jobs' \subseteq Jobs
    BY <1>1, <1>2 DEF SearchTypes
  <1>5. SearchTypes'
    BY <1>1, <1>2, <1>4 DEF Receive, SearchTypes
  <1>6. MapTypes'
    BY DEF Receive, mapVars, MapTypes
  <1>7. crashed' \in {"no", "race"}
    BY DEF Receive
  <1>8. OtherTypes'
    BY <1>7 DEF Receive, OtherTypes
  <1> QED
    BY <1>3, <1>5, <1>6, <1>8

LEMMA OneMoreFailure ==
  ASSUME failures \in 0..MaxFailures, Fails
  PROVE  failures' \in 0..MaxFailures
  BY BoundsAssumption DEF Fails

LEMMA TypesReceiveNothing ==
  ASSUME TypesInv, NEW j \in jobs, ReceiveNothing(j)
  PROVE  TypesInv'
  <1> USE DEF TypesInv
  <1> DEFINE n == [j EXCEPT !.does = "failed"]
  <1>1. n \in Jobs /\ n.id = j.id
    BY MovedTyped
  <1>2. jobs' = (jobs \ {j}) \cup {n}
    BY DEF ReceiveNothing, Moved
  <1> HIDE DEF n
  <1>3. IdsInv'
    BY <1>1, <1>2, IdsMoved DEF ReceiveNothing
  <1>4. jobs' \subseteq Jobs
    BY <1>1, <1>2 DEF SearchTypes
  <1>5. SearchTypes'
    BY <1>4 DEF ReceiveNothing, SearchTypes
  <1>6. MapTypes'
    BY DEF ReceiveNothing, mapVars, MapTypes
  <1>7. failures' \in 0..MaxFailures
    BY OneMoreFailure DEF ReceiveNothing, OtherTypes
  <1>8. OtherTypes'
    BY <1>7 DEF ReceiveNothing, OtherTypes
  <1> QED
    BY <1>3, <1>5, <1>6, <1>8

\* The search goes from the global queue to the main queue.
LEMMA TypesFinish ==
  ASSUME TypesInv, NEW j \in jobs, Finish(j)
  PROVE  TypesInv'
  <1> USE DEF TypesInv
  <1> DEFINE b == [run |-> "display", id |-> j.id]
  <1>1. j.id \in Searches /\ b \in MainBlocks /\ b.run = "display" /\ b.id = j.id
    BY DEF SearchTypes, Jobs, MainBlocks
  <1>2. jobs' = jobs \ {j} /\ main' = Append(main, b) /\ UNCHANGED <<spinners, searches>>
    BY DEF Finish
  <1> HIDE DEF b
  <1>3. b.id \notin DisplayIds /\ DisplaysDiffer /\ b.id \in JobIds /\ main \in Seq(MainBlocks)
    BY <1>1 DEF IdsInv, JobIds, OtherTypes
  <1>4. DisplayIds' = DisplayIds \cup {b.id} /\ DisplaysDiffer'
    BY <1>1, <1>2, <1>3, PushDisplay
  <1>5. JobIds' = JobIds \ {b.id}
    <2>1. \A k \in jobs' : k \in jobs /\ k.id # b.id
      BY <1>1, <1>2 DEF IdsInv
    <2>2. \A k \in jobs : k.id # b.id => k \in jobs'
      BY <1>1, <1>2
    <2> QED
      BY <2>1, <2>2 DEF JobIds
  <1>6. IdsInv'
    <2>1. \A k, m \in jobs' : k.id = m.id => k = m
      BY <1>2 DEF IdsInv
    <2> QED
      BY <1>2, <1>3, <1>4, <1>5, <2>1 DEF IdsInv
  <1>7. SearchTypes'
    BY <1>2 DEF Finish, SearchTypes
  <1>8. MapTypes'
    BY DEF Finish, mapVars, MapTypes
  <1>9. main' \in Seq(MainBlocks)
    BY <1>1, <1>2, <1>3, PushFacts
  <1>10. OtherTypes'
    BY <1>9 DEF Finish, OtherTypes
  <1> QED
    BY <1>6, <1>7, <1>8, <1>10

LEMMA ReadTyped ==
  ASSUME NEW index, Read(index)
  PROVE  crashed' \in {"no", "race", "index"}
  BY DEF Read

LEMMA TypesRunDisplay == TypesInv /\ RunDisplay => TypesInv'
  <1> SUFFICES ASSUME TypesInv, RunDisplay PROVE TypesInv'
    OBVIOUS
  <1> USE DEF TypesInv
  <1> DEFINE id == Head(main).id
             some == Results(theData) > 0
  <1>1. /\ main # <<>> /\ main \in Seq(MainBlocks) /\ Head(main).run = "display"
        /\ main' = Tail(main) /\ DisplaysDiffer
    BY DEF RunDisplay, Runs, OtherTypes, IdsInv
  <1>2. /\ DisplayIds' = DisplayIds \ {id} /\ id \in DisplayIds
        /\ id \in Searches /\ DisplaysDiffer'
    BY <1>1, PopDisplay
  <1>3. main' \in Seq(MainBlocks)
    BY <1>1, PopFacts
  <1>4. /\ spinners' = spinners \ {id} /\ UNCHANGED <<jobs, searches>>
        /\ tables' = Append(tables, NewTable(id)) \/ tables' = tables
        /\ myTableView' = id \/ myTableView' = myTableView
    BY DEF RunDisplay
  <1> HIDE DEF id, some
  <1>5. JobIds' = JobIds
    BY <1>4 DEF JobIds
  <1>6. IdsInv'
    BY <1>2, <1>4, <1>5 DEF IdsInv
  <1>7. NewTable(id) \in Tables
    BY <1>2, NewTableTyped DEF IdsInv
  <1>8. tables' \in Seq(Tables)
    BY <1>4, <1>7 DEF SearchTypes
  <1>9. myTableView' \in {0} \cup Searches
    BY <1>2, <1>4 DEF SearchTypes
  <1>10. SearchTypes'
    BY <1>4, <1>8, <1>9 DEF RunDisplay, SearchTypes
  <1>11. MapTypes'
    BY DEF RunDisplay, mapVars, MapTypes
  <1>12. crashed' \in {"no", "race", "index"}
    BY ReadTyped DEF RunDisplay
  <1>13. OtherTypes'
    BY <1>3, <1>12 DEF RunDisplay, OtherTypes
  <1> QED
    BY <1>6, <1>10, <1>11, <1>13


LEMMA TypesLayOut ==
  ASSUME TypesInv, NEW i \in 1..Len(tables), LayOut(i)
  PROVE  TypesInv'
  <1> USE DEF TypesInv
  <1>1. theData \in Terms \cup {None} /\ Results(theData) \in Nat
    BY ResultsTyped DEF SearchTypes
  <1>2. tables \in Seq(Tables) /\ tables[i] \in Tables
    BY DEF SearchTypes
  <1> DEFINE t == [tables[i] EXCEPT !.of = theData, !.rows = Results(theData)]
  <1>3. t \in Tables
    BY <1>1, <1>2 DEF Tables
  <1>4. tables' = [tables EXCEPT ![i] = t]
    BY DEF LayOut
  <1> HIDE DEF t
  <1>5. tables' \in Seq(Tables)
    BY <1>2, <1>3, <1>4
  <1>6. IdsInv'
    BY IdsElsewhere DEF LayOut
  <1>7. SearchTypes'
    BY <1>5 DEF LayOut, SearchTypes
  <1>8. MapTypes'
    BY DEF LayOut, mapVars, MapTypes
  <1>9. crashed' \in {"no", "race", "index"}
    BY ReadTyped DEF LayOut
  <1>10. OtherTypes'
    BY <1>9 DEF LayOut, OtherTypes
  <1> QED
    BY <1>6, <1>7, <1>8, <1>10

LEMMA TypesTouchRow ==
  ASSUME TypesInv, NEW row, TouchRow(row)
  PROVE  TypesInv'
  <1> USE DEF TypesInv
  <1>1. IdsInv'
    BY IdsElsewhere DEF TouchRow, searchVars
  <1>2. crashed' \in {"no", "race", "index"}
    BY ReadTyped DEF TouchRow
  <1>3. SearchTypes'
    BY DEF TouchRow, searchVars, SearchTypes
  <1>4. MapTypes'
    BY DEF TouchRow, mapVars, MapTypes
  <1>5. OtherTypes'
    BY <1>2 DEF TouchRow, OtherTypes
  <1> QED
    BY <1>1, <1>3, <1>4, <1>5

LEMMA TypesAnswer == TypesInv /\ Answer => TypesInv'
  <1> SUFFICES ASSUME TypesInv, Answer PROVE TypesInv'
    OBVIOUS
  <1> USE DEF TypesInv
  <1> DEFINE b == [run |-> "spots", docs |-> saved]
  <1>1. b \in MainBlocks /\ b.run = "spots"
    BY DEF MapTypes, MainBlocks
  <1>2. main' = Append(main, b) /\ main \in Seq(MainBlocks)
    BY DEF Answer, OtherTypes
  <1> HIDE DEF b
  <1>3. DisplayIds' = DisplayIds /\ (DisplaysDiffer => DisplaysDiffer')
    BY <1>1, <1>2, PushSpots
  <1>4. IdsInv'
    BY <1>3, IdsKept DEF Answer, searchVars
  <1>5. SearchTypes'
    BY DEF Answer, searchVars, SearchTypes
  <1>6. MapTypes'
    <2>1. queries' \in 0..updates
      <3>1. queries \in 0..updates /\ queries > 0 /\ queries' = queries - 1
            /\ updates \in Nat
        BY DEF Answer, MapTypes
      <3> QED
        BY <3>1
    <2> QED
      BY <2>1 DEF Answer, MapTypes
  <1>7. main' \in Seq(MainBlocks)
    BY <1>1, <1>2, PushFacts
  <1>8. OtherTypes'
    BY <1>7 DEF Answer, OtherTypes
  <1> QED
    BY <1>4, <1>5, <1>6, <1>8

LEMMA TypesQueryFails == TypesInv /\ QueryFails => TypesInv'
  <1> SUFFICES ASSUME TypesInv, QueryFails PROVE TypesInv'
    OBVIOUS
  <1> USE DEF TypesInv
  <1>1. IdsInv'
    BY IdsElsewhere DEF QueryFails, searchVars
  <1>2. SearchTypes'
    BY DEF QueryFails, searchVars, SearchTypes
  <1>3. queries' \in 0..updates
    <2>1. queries \in 0..updates /\ queries > 0 /\ queries' = queries - 1
          /\ updates \in Nat
      BY DEF QueryFails, MapTypes
    <2> QED
      BY <2>1
  <1>4. MapTypes'
    BY <1>3 DEF QueryFails, MapTypes
  <1>5. failures' \in 0..MaxFailures
    BY OneMoreFailure DEF QueryFails, OtherTypes
  <1>6. OtherTypes'
    BY <1>5 DEF QueryFails, OtherTypes
  <1> QED
    BY <1>1, <1>2, <1>4, <1>6

LEMMA TypesRunSpots == TypesInv /\ RunSpots => TypesInv'
  <1> SUFFICES ASSUME TypesInv, RunSpots PROVE TypesInv'
    OBVIOUS
  <1> USE DEF TypesInv
  <1>1. /\ main # <<>> /\ main \in Seq(MainBlocks) /\ Head(main).run = "spots"
        /\ main' = Tail(main)
    BY DEF RunSpots, Runs, OtherTypes
  <1>2. DisplayIds' = DisplayIds /\ (DisplaysDiffer => DisplaysDiffer')
    BY <1>1, PopSpots
  <1>3. IdsInv'
    BY <1>2, IdsKept DEF RunSpots, searchVars
  <1>4. SearchTypes'
    BY DEF RunSpots, searchVars, SearchTypes
  <1> DEFINE docs == Head(main).docs
             list == SetToSeq(docs)
  <1>5. docs \in SUBSET Spots
    BY <1>1, PopFacts DEF MainBlocks
  <1>6. list \in Seq(Spots)
    BY <1>5, DocsListed
  <1>7. userPins' = userPins \o list /\ pins' = pins \o userPins'
    BY DEF RunSpots
  <1>8. userPins \in Seq(Spots) /\ pins \in Seq(Spots)
    BY DEF MapTypes
  <1> HIDE DEF list
  <1>9. userPins' \in Seq(Spots)
    BY <1>6, <1>7, <1>8
  <1>10. pins' \in Seq(Spots)
    BY <1>7, <1>8, <1>9
  <1>11. MapTypes'
    BY <1>9, <1>10 DEF RunSpots, MapTypes
  <1>12. main' \in Seq(MainBlocks)
    BY <1>1, PopFacts
  <1>13. OtherTypes'
    BY <1>12 DEF RunSpots, OtherTypes
  <1> QED
    BY <1>3, <1>4, <1>11, <1>13

LEMMA TypesStutter == TypesInv /\ UNCHANGED vars => TypesInv'
  <1> SUFFICES ASSUME TypesInv, UNCHANGED vars PROVE TypesInv'
    OBVIOUS
  <1> USE DEF TypesInv
  <1>1. UNCHANGED <<shown, searchVars, mapVars, dot, main, crashed, failures>>
    BY DEF vars
  <1>2. IdsInv'
    BY <1>1, IdsElsewhere DEF searchVars
  <1>3. SearchTypes'
    BY <1>1 DEF searchVars, SearchTypes
  <1>4. MapTypes'
    BY <1>1 DEF mapVars, MapTypes
  <1>5. OtherTypes'
    BY <1>1 DEF OtherTypes
  <1> QED
    BY <1>2, <1>3, <1>4, <1>5

LEMMA TypesNext == TypesInv /\ [Next]_vars => TypesInv'
  <1> SUFFICES ASSUME TypesInv, [Next]_vars PROVE TypesInv'
    OBVIOUS
  <1>1. CASE Appear \/ Disappear \/ Search \/ Cancel
    BY <1>1, TypesAppear, TypesDisappear, TypesSearch, TypesCancel
  <1>2. CASE Locate \/ (\E d \in Spots : SaveSpot(d)) \/ \E term \in Terms : TypeText(term)
    BY <1>2, TypesPerson
  <1>3. CASE \E j \in jobs : Ask(j) \/ Receive(j) \/ ReceiveNothing(j) \/ Finish(j)
    BY <1>3, TypesAsk, TypesReceive, TypesReceiveNothing, TypesFinish
  <1>4. CASE Blocks
    BY <1>4, TypesRunDisplay, TypesRunSpots DEF Blocks
  <1>5. CASE \E i \in 1..Len(tables) : LayOut(i)
    BY <1>5, TypesLayOut
  <1>6. CASE \E row \in 1..Max({0} \cup {Found[t] : t \in Terms}) : TouchRow(row)
    BY <1>6, TypesTouchRow
  <1>7. CASE Answer \/ QueryFails
    BY <1>7, TypesAnswer, TypesQueryFails
  <1>8. CASE UNCHANGED vars
    BY <1>8, TypesStutter
  <1> QED
    BY <1>1, <1>2, <1>3, <1>4, <1>5, <1>6, <1>7, <1>8 DEF Next

\* Whatever searches overlap, every variable keeps its type, and there is a
\* spinner for exactly the searches that are on the global queue or whose table
\* waits on the main queue.
THEOREM TypeCorrect == Spec => []TypeOK
  <1>1. TypesInv /\ [Next]_vars => TypesInv'
    BY TypesNext
  <1> QED
    BY <1>1, TypesInit, TypesImply, PTL DEF Spec

-----------------------------------------------------------------------------
(* Calm searches.                                                            *)

OneSearch == \A r, s \in spinners : r = s

\* The one table there may be shows theData, once UIKit has laid it out.
OneTable ==
  \A i \in 1..Len(tables) :
    /\ i = 1 /\ tables[i].id = myTableView
    /\ tables[i].of = None => tables[i].rows = 0
    /\ tables[i].of # None =>
         tables[i].of = theData /\ tables[i].rows = Results(theData)

\* While a search is going on, there is no table.
SpinnerOrTable == spinners # {} => tables = <<>>

AsksForInput == \A j \in jobs : j.does = "asks" => j.term = searchInput

\* theData is the last search's, or that search has yet to write it.
DataOfInput ==
  searches > 0 /\ failures = 0 =>
    theData = searchInput \/ \E j \in jobs : j.does \in {"waits", "asks"}

Unharmed == crashed \notin {"race", "index"}

Calm ==
  OneSearch /\ OneTable /\ SpinnerOrTable /\ AsksForInput /\ DataOfInput /\ Unharmed

CalmInv == ~overlapped => Calm

LEMMA CalmImplies == TypesInv /\ CalmInv => CalmSearchShowsItself
  <1> SUFFICES ASSUME TypesInv, CalmInv, ~overlapped
               PROVE  /\ crashed \notin {"race", "index"}
                      /\ \A i \in 1..Len(tables) :
                           /\ i = 1 /\ tables[i].id = myTableView
                           /\ tables[i].of # None =>
                                tables[i].of = theData /\ tables[i].rows = Results(theData)
                      /\ searches > 0 /\ spinners = {} /\ failures = 0 =>
                           theData = searchInput
    BY DEF CalmSearchShowsItself
  <1>1. Calm
    BY DEF CalmInv
  <1>2. spinners = {} => jobs = {}
    BY DEF TypesInv, IdsInv, JobIds
  <1>3. searches > 0 /\ spinners = {} /\ failures = 0 => theData = searchInput
    BY <1>1, <1>2 DEF Calm, DataOfInput
  <1>4. crashed \notin {"race", "index"}
    BY <1>1 DEF Calm, Unharmed
  <1>5. OneTable
    BY <1>1 DEF Calm
  <1> QED
    BY <1>3, <1>4, <1>5 DEF OneTable

LEMMA CalmInit == Init => CalmInv
  <1> SUFFICES ASSUME Init PROVE Calm
    BY DEF CalmInv
  <1>1. jobs = {} /\ spinners = {} /\ tables = <<>> /\ searches = 0 /\ crashed = "no"
    BY DEF Init
  <1>2. OneSearch /\ SpinnerOrTable /\ AsksForInput /\ Unharmed
    BY <1>1 DEF OneSearch, SpinnerOrTable, AsksForInput, Unharmed
  <1>3. OneTable
    <2>1. Len(tables) = 0
      BY <1>1
    <2> QED
      BY <2>1 DEF OneTable
  <1>4. DataOfInput
    <2>1. ~(searches > 0)
      BY <1>1
    <2> QED
      BY <2>1 DEF DataOfInput
  <1> QED
    BY <1>2, <1>3, <1>4 DEF Calm

\* A step that leaves the searches alone, and the table or not.
LEMMA CalmElsewhere ==
  ASSUME Calm, tables' = tables \/ tables' = <<>>, failures' = failures \/ failures' # 0,
         UNCHANGED <<searchInput, theData, jobs, myTableView, spinners, searches, crashed>>
  PROVE  Calm'
  <1> USE DEF Calm
  <1>1. OneSearch' /\ SpinnerOrTable' /\ AsksForInput' /\ Unharmed'
    BY DEF OneSearch, SpinnerOrTable, AsksForInput, Unharmed
  <1>2. OneTable'
    <2>1. Results(theData)' = Results(theData)
      BY DEF Results
    <2>2. CASE tables' = tables
      BY <2>1, <2>2 DEF OneTable
    <2>3. CASE tables' = <<>>
      <3>1. Len(tables') = 0
        BY <2>3
      <3> QED
        BY <3>1 DEF OneTable
    <2> QED
      BY <2>2, <2>3
  <1>3. DataOfInput'
    BY DEF DataOfInput
  <1> QED
    BY <1>1, <1>2, <1>3

\* Only a second search at once ends the calm.
LEMMA TablesGone ==
  ASSUME TypesInv, Calm
  PROVE  Without(myTableView) = <<>>
  <1>1. tables \in Seq(Tables)
    BY DEF TypesInv, SearchTypes
  <1>2. \A i \in 1..Len(tables) : i = 1 /\ tables[i].id = myTableView
    BY DEF Calm, OneTable
  <1> QED
    BY <1>1, <1>2, WithoutOnly

LEMMA OneMore ==
  ASSUME TypesInv, Fails
  PROVE  failures' # 0
  <1>1. failures \in Nat /\ failures' = failures + 1
    BY DEF TypesInv, OtherTypes, Fails
  <1> QED
    BY <1>1

LEMMA CalmPerson ==
  ASSUME TypesInv, Calm,
         \/ Appear \/ Disappear \/ Cancel \/ Locate
         \/ \E d \in Spots : SaveSpot(d)
         \/ \E term \in Terms : TypeText(term)
         \/ Answer \/ QueryFails \/ RunSpots
         \/ UNCHANGED vars
  PROVE  Calm'
  <1>1. CASE Appear
    BY <1>1, CalmElsewhere DEF Appear, searchVars
  <1>2. CASE Disappear
    BY <1>2, CalmElsewhere, TablesGone DEF Disappear
  <1>3. CASE Cancel
    BY <1>3, CalmElsewhere, TablesGone DEF Cancel
  <1>4. CASE Locate
    BY <1>4, CalmElsewhere DEF Locate, searchVars
  <1>5. CASE \E d \in Spots : SaveSpot(d)
    BY <1>5, CalmElsewhere DEF SaveSpot, searchVars
  <1>6. CASE \E term \in Terms : TypeText(term)
    BY <1>6, CalmElsewhere DEF TypeText
  <1>7. CASE Answer
    BY <1>7, CalmElsewhere DEF Answer, searchVars
  <1>8. CASE QueryFails
    BY <1>8, OneMore, CalmElsewhere DEF QueryFails, searchVars
  <1>9. CASE RunSpots
    BY <1>9, CalmElsewhere DEF RunSpots, searchVars
  <1>10. CASE UNCHANGED vars
    BY <1>10, CalmElsewhere DEF vars, searchVars
  <1> QED
    BY <1>1, <1>2, <1>3, <1>4, <1>5, <1>6, <1>7, <1>8, <1>9, <1>10

LEMMA CalmSearch ==
  ASSUME TypesInv, Calm, Search, ~overlapped'
  PROVE  Calm'
  <1> USE DEF Calm
  <1> DEFINE job == [id |-> searches', does |-> "waits", term |-> None]
  <1>1. jobs' = jobs \cup {job} /\ spinners' = spinners \cup {searches'}
    BY DEF Search
  <1>2. job.does = "waits"
    OBVIOUS
  <1> HIDE DEF job
  <1>3. spinners = {}
    <2>1. overlapped' = (overlapped \/ spinners # {})
      BY DEF Search
    <2> QED
      BY <2>1, Zenon
  <1>4. jobs = {}
    BY <1>3 DEF TypesInv, IdsInv, JobIds
  <1>5. tables' = <<>> /\ UNCHANGED crashed
    BY TablesGone DEF Search
  <1>6. OneSearch' /\ SpinnerOrTable' /\ Unharmed'
    BY <1>1, <1>3, <1>5 DEF OneSearch, SpinnerOrTable, Unharmed
  <1>7. AsksForInput' /\ DataOfInput'
    BY <1>1, <1>2, <1>4 DEF AsksForInput, DataOfInput
  <1>8. OneTable'
    <2>1. Len(tables') = 0
      BY <1>5
    <2> QED
      BY <2>1 DEF OneTable
  <1> QED
    BY <1>6, <1>7, <1>8

\* The job of the one search is the only one, and no table is there.
LEMMA OneJob ==
  ASSUME TypesInv, Calm, NEW j \in jobs
  PROVE  jobs = {j} /\ spinners # {} /\ tables = <<>>
  <1>1. \A k \in jobs : k.id \in spinners
    BY DEF TypesInv, IdsInv, JobIds
  <1>2. \A k \in jobs : k.id = j.id
    BY <1>1 DEF Calm, OneSearch
  <1>3. \A k \in jobs : k = j
    BY <1>2 DEF TypesInv, IdsInv
  <1> QED
    BY <1>1, <1>3 DEF Calm, SpinnerOrTable

LEMMA CalmJob ==
  ASSUME TypesInv, Calm, NEW j \in jobs,
         Ask(j) \/ Receive(j) \/ ReceiveNothing(j) \/ Finish(j)
  PROVE  Calm'
  <1> USE DEF Calm
  <1>1. jobs = {j} /\ tables = <<>>
    BY OneJob
  <1>2. UNCHANGED <<searchInput, tables, spinners, searches>>
    BY DEF Ask, Receive, ReceiveNothing, Finish
  <1>3. OneSearch' /\ SpinnerOrTable'
    BY <1>2 DEF OneSearch, SpinnerOrTable
  <1>4. OneTable'
    <2>1. Len(tables') = 0
      BY <1>1, <1>2
    <2> QED
      BY <2>1 DEF OneTable
  <1>5. j \in Jobs
    BY DEF TypesInv, SearchTypes
  <1>6. CASE Ask(j)
    <2> DEFINE m == [j EXCEPT !.does = "asks", !.term = searchInput]
    <2>1. m.does = "asks" /\ m.term = searchInput
      BY <1>5 DEF Jobs
    <2>2. \/ jobs' = {m} /\ UNCHANGED crashed
          \/ crashed' = "annotations[0]" /\ UNCHANGED jobs
      BY <1>1, <1>6 DEF Ask
    <2>3. j.does = "waits" /\ UNCHANGED <<theData, failures>>
      BY <1>6 DEF Ask
    <2> HIDE DEF m
    <2>4. AsksForInput' /\ DataOfInput'
      BY <1>1, <1>2, <2>1, <2>2, <2>3 DEF AsksForInput, DataOfInput
    <2>5. Unharmed'
      BY <2>2 DEF Unharmed
    <2> QED
      BY <1>3, <1>4, <2>4, <2>5
  <1>7. CASE Receive(j)
    <2> DEFINE m == [j EXCEPT !.does = "writes"]
    <2>1. m.does = "writes"
      BY <1>5 DEF Jobs
    <2>2. jobs' = {m} /\ theData' = j.term /\ j.does = "asks"
      BY <1>1, <1>7 DEF Receive, Moved
    <2> HIDE DEF m
    <2>3. theData' = searchInput'
      BY <1>2, <2>2 DEF AsksForInput
    <2>4. AsksForInput' /\ DataOfInput'
      BY <2>1, <2>2, <2>3 DEF AsksForInput, DataOfInput
    <2>5. ~ \E k \in jobs : k.does = "writes"
      BY <1>1, <2>2
    <2>6. crashed' = "no"
      BY <1>7, <2>5 DEF Receive
    <2>7. Unharmed'
      BY <2>6 DEF Unharmed
    <2> QED
      BY <1>3, <1>4, <2>4, <2>7
  <1>8. CASE ReceiveNothing(j)
    <2> DEFINE m == [j EXCEPT !.does = "failed"]
    <2>1. m.does = "failed"
      BY <1>5 DEF Jobs
    <2>2. jobs' = {m} /\ UNCHANGED crashed
      BY <1>1, <1>8 DEF ReceiveNothing, Moved
    <2> HIDE DEF m
    <2>3. failures' # 0
      BY <1>8, OneMore DEF ReceiveNothing
    <2>4. AsksForInput' /\ DataOfInput' /\ Unharmed'
      BY <2>1, <2>2, <2>3 DEF AsksForInput, DataOfInput, Unharmed
    <2> QED
      BY <1>3, <1>4, <2>4
  <1>9. CASE Finish(j)
    <2>1. /\ jobs' = {} /\ j.does \in {"writes", "failed"}
          /\ UNCHANGED <<theData, crashed, failures>>
      BY <1>1, <1>9 DEF Finish
    <2>2. AsksForInput' /\ Unharmed'
      BY <2>1 DEF AsksForInput, Unharmed
    <2>3. ~ \E k \in jobs : k.does \in {"waits", "asks"}
      BY <1>1, <2>1
    <2>4. DataOfInput'
      BY <1>2, <2>1, <2>3 DEF DataOfInput
    <2> QED
      BY <1>3, <1>4, <2>2, <2>4
  <1> QED
    BY <1>6, <1>7, <1>8, <1>9

\* Reading theData while nothing writes it, at an index it has.
LEMMA ReadUnharmed ==
  ASSUME NEW index, Read(index), jobs = {}, ~(index > Results(theData))
  PROVE  crashed' = "no"
  BY DEF Read

LEMMA CalmRunDisplay ==
  ASSUME TypesInv, Calm, RunDisplay
  PROVE  Calm'
  <1> USE DEF Calm
  <1> DEFINE id == Head(main).id
  <1>1. id \in DisplayIds
    BY PopDisplay DEF RunDisplay, Runs, TypesInv, OtherTypes, IdsInv
  <1>2. id \in spinners
    BY <1>1 DEF TypesInv, IdsInv
  <1>3. /\ spinners' = spinners \ {id}
        /\ UNCHANGED <<searchInput, theData, jobs, searches, failures>>
        /\ \/ tables' = Append(tables, NewTable(id)) /\ myTableView' = id
           \/ tables' = tables
    BY DEF RunDisplay
  <1> DEFINE t == NewTable(id)
  <1>4. t.id = id /\ t.of = None /\ t.rows = 0
    BY DEF NewTable
  <1> HIDE DEF id, t
  <1>5. spinners' = {} /\ tables = <<>>
    BY <1>2, <1>3 DEF OneSearch, SpinnerOrTable
  <1>6. jobs = {}
    <2>1. \A j \in jobs : j.id \in spinners /\ j.id \in JobIds
      BY DEF TypesInv, IdsInv, JobIds
    <2>2. \A j \in jobs : j.id = id
      BY <1>2, <2>1 DEF OneSearch
    <2> QED
      BY <1>1, <2>1, <2>2 DEF TypesInv, IdsInv
  <1>7. OneSearch' /\ SpinnerOrTable'
    BY <1>5 DEF OneSearch, SpinnerOrTable
  <1>8. AsksForInput' /\ DataOfInput'
    BY <1>3 DEF AsksForInput, DataOfInput
  <1>9. Unharmed'
    <2>1. ~(0 > Results(theData))
      BY ResultsTyped DEF TypesInv, SearchTypes
    <2>2. crashed' = "no"
      BY <1>6, <2>1, ReadUnharmed DEF RunDisplay
    <2> QED
      BY <2>2 DEF Unharmed
  <1>10. OneTable'
    <2>1. CASE tables' = Append(tables, t) /\ myTableView' = id
      <3>1. Len(tables') = 1 /\ tables'[1] = t
        BY <1>5, <2>1
      <3>2. \A i \in 1..Len(tables') : i = 1
        BY <3>1
      <3> QED
        BY <1>4, <2>1, <3>1, <3>2 DEF OneTable
    <2>2. CASE tables' = tables
      <3>1. Len(tables') = 0
        BY <1>5, <2>2
      <3> QED
        BY <3>1 DEF OneTable
    <2> QED
      BY <1>3, <2>1, <2>2 DEF t
  <1> QED
    BY <1>7, <1>8, <1>9, <1>10

\* Where there is a table, no search is going on.
LEMMA NoJobs ==
  ASSUME TypesInv, Calm, tables # <<>>
  PROVE  jobs = {} /\ spinners = {}
  BY DEF Calm, SpinnerOrTable, TypesInv, IdsInv, JobIds

LEMMA CalmLayOut ==
  ASSUME TypesInv, Calm, NEW i \in 1..Len(tables), LayOut(i)
  PROVE  Calm'
  <1> USE DEF Calm
  <1>1. tables \in Seq(Tables) /\ tables # <<>> /\ i = 1 /\ tables[1] \in Tables
        /\ tables[1].id = myTableView
    BY DEF TypesInv, SearchTypes, OneTable
  <1>2. jobs = {} /\ spinners = {}
    BY <1>1, NoJobs
  <1> DEFINE t == [tables[1] EXCEPT !.of = theData, !.rows = Results(theData)]
  <1>3. tables' = [tables EXCEPT ![1] = t]
    BY <1>1 DEF LayOut
  <1>4. t.id = myTableView /\ t.of = theData /\ t.rows = Results(theData)
    BY <1>1 DEF Tables
  <1>5. UNCHANGED <<searchInput, theData, jobs, myTableView, spinners, searches, failures>>
    BY DEF LayOut
  <1> HIDE DEF t
  <1>6. OneSearch' /\ SpinnerOrTable' /\ AsksForInput' /\ DataOfInput'
    BY <1>2, <1>5 DEF OneSearch, SpinnerOrTable, AsksForInput, DataOfInput
  <1>7. Unharmed'
    <2>1. ~(0 > Results(theData))
      BY ResultsTyped DEF TypesInv, SearchTypes
    <2>2. crashed' = "no"
      BY <1>2, <2>1, ReadUnharmed DEF LayOut
    <2> QED
      BY <2>2 DEF Unharmed
  <1>8. OneTable'
    <2>1. Len(tables') = Len(tables) /\ tables'[1] = t
      BY <1>1, <1>3
    <2>2. Results(theData)' = Results(theData)
      BY <1>5 DEF Results
    <2>3. \A k \in 1..Len(tables') : k = 1
      BY <2>1 DEF OneTable
    <2>4. theData = None => t.rows = 0
      BY <1>4 DEF Results
    <2> QED
      BY <1>4, <1>5, <2>1, <2>2, <2>3, <2>4 DEF OneTable
  <1> QED
    BY <1>6, <1>7, <1>8

\* A calm table has no row that theData lacks.
LEMMA CalmTouchRow ==
  ASSUME TypesInv, Calm, NEW row, TouchRow(row)
  PROVE  FALSE
  <1> DEFINE n == Len(tables)
  <1>1. tables \in Seq(Tables) /\ tables # <<>> /\ n \in 1..Len(tables) /\ tables[n] \in Tables
    BY DEF TouchRow, TypesInv, SearchTypes
  <1>2. jobs = {}
    BY <1>1, NoJobs
  <1>3. row \in 1..tables[n].rows /\ Read(row) /\ crashed' # "no"
    BY DEF TouchRow, Last
  <1>4. tables[n].rows \in Nat
    BY <1>1 DEF Tables
  <1> HIDE DEF n
  <1>5. tables[n].rows # 0
    BY <1>3, <1>4
  <1>6. tables[n].rows = Results(theData)
    BY <1>1, <1>5 DEF Calm, OneTable
  <1>7. ~(row > Results(theData))
    BY <1>3, <1>4, <1>6
  <1> QED
    BY <1>2, <1>3, <1>7, ReadUnharmed

LEMMA CalmNext == TypesInv /\ CalmInv /\ [Next]_vars => CalmInv'
  <1> SUFFICES ASSUME TypesInv, CalmInv, [Next]_vars, ~overlapped' PROVE Calm'
    BY DEF CalmInv
  <1>1. CASE Search
    <2>1. overlapped' = (overlapped \/ spinners # {})
      BY <1>1 DEF Search
    <2>2. ~overlapped
      BY <2>1, Zenon
    <2> QED
      BY <1>1, <2>2, CalmSearch DEF CalmInv
  <1>2. CASE \/ Appear \/ Disappear \/ Cancel \/ Locate
             \/ \E d \in Spots : SaveSpot(d)
             \/ \E term \in Terms : TypeText(term)
             \/ Answer \/ QueryFails \/ RunSpots
             \/ UNCHANGED vars
    <2>1. overlapped' = overlapped
      BY <1>2 DEF Appear, Disappear, Cancel, Locate, SaveSpot, TypeText, Answer, QueryFails,
                  RunSpots, vars, searchVars
    <2> QED
      BY <1>2, <2>1, CalmPerson DEF CalmInv
  <1>3. CASE \E j \in jobs : Ask(j) \/ Receive(j) \/ ReceiveNothing(j) \/ Finish(j)
    <2>1. overlapped' = overlapped
      BY <1>3 DEF Ask, Receive, ReceiveNothing, Finish
    <2> QED
      BY <1>3, <2>1, CalmJob DEF CalmInv
  <1>4. CASE RunDisplay
    BY <1>4, CalmRunDisplay DEF CalmInv, RunDisplay
  <1>5. CASE \E i \in 1..Len(tables) : LayOut(i)
    <2>1. PICK i \in 1..Len(tables) : LayOut(i)
      BY <1>5
    <2>2. overlapped' = overlapped
      BY <2>1 DEF LayOut
    <2> QED
      BY <2>1, <2>2, CalmLayOut DEF CalmInv
  <1>6. CASE \E row \in 1..Max({0} \cup {Found[t] : t \in Terms}) : TouchRow(row)
    BY <1>6, CalmTouchRow DEF CalmInv, TouchRow, searchVars
  <1> QED
    BY <1>1, <1>2, <1>3, <1>4, <1>5, <1>6 DEF Next, Blocks

\* However searches, appearances, queries and failures follow one another,
\* while no search is started before the one before has been shown, the table
\* on the map is the last one's, shows theData and can be removed, and reading
\* theData never stops the program.
THEOREM CalmSearchesShowThemselves == Spec => []CalmSearchShowsItself
  <1>1. TypesInv /\ [Next]_vars => TypesInv'
    BY TypesNext
  <1>2. TypesInv /\ CalmInv /\ [Next]_vars => CalmInv'
    BY CalmNext
  <1> QED
    BY <1>1, <1>2, TypesInit, CalmInit, CalmImplies, PTL DEF Spec

-----------------------------------------------------------------------------
(* The map of the spots.                                                     *)

\* A query's documents are all in the list made of them.
LEMMA DocsAllListed ==
  ASSUME NEW docs \in SUBSET Spots
  PROVE  docs \subseteq ToSet(SetToSeq(docs))
  <1> DEFINE n == Cardinality(docs)
             s == SetToSeq(docs)
  <1>1. IsFiniteSet(docs)
    BY SpotsAssumption, FS_Subset
  <1>2. n \in Nat /\ ExistsBijection(1..n, docs)
    BY <1>1, FS_CardinalityType
  <1>3. \E g \in [1..n -> docs] : IsInjective(g)
    BY <1>2 DEF ExistsBijection, Bijection, Injection, IsInjective
  <1>4. s \in [1..n -> docs] /\ IsInjective(s)
    BY <1>3 DEF SetToSeq
  <1>5. Cardinality(1..n) = n /\ IsFiniteSet(1..n)
    BY <1>2, FS_Interval
  <1> HIDE DEF s
  <1>6. s \in Injection(1..n, docs)
    BY <1>4 DEF Injection, IsInjective
  <1>7. s \in Surjection(1..n, docs)
    BY <1>1, <1>5, <1>6, FS_Injection
  <1>8. \A d \in docs : \E i \in 1..n : s[i] = d
    BY <1>7 DEF Surjection
  <1>9. DOMAIN s = 1..n
    BY <1>4
  <1> QED
    BY <1>8, <1>9 DEF ToSet, s

LEMMA JoinedKeeps ==
  ASSUME NEW s \in Seq(Spots), NEW t \in Seq(Spots)
  PROVE  ToSet(s) \subseteq ToSet(s \o t) /\ ToSet(t) \subseteq ToSet(s \o t)
  <1> DEFINE u == s \o t
  <1>1. /\ Len(s) \in Nat /\ Len(t) \in Nat /\ Len(u) = Len(s) + Len(t)
        /\ DOMAIN s = 1..Len(s) /\ DOMAIN t = 1..Len(t) /\ DOMAIN u = 1..Len(u)
        /\ \A i \in 1..Len(s) : u[i] = s[i]
        /\ \A i \in 1..Len(t) : u[Len(s) + i] = t[i]
    OBVIOUS
  <1> HIDE DEF u
  <1>2. \A i \in DOMAIN s : i \in DOMAIN u /\ u[i] = s[i]
    BY <1>1
  <1>3. \A i \in DOMAIN t : Len(s) + i \in DOMAIN u /\ u[Len(s) + i] = t[i]
    BY <1>1
  <1>4. ToSet(s) \subseteq ToSet(u)
    BY <1>2 DEF ToSet
  <1>5. ToSet(t) \subseteq ToSet(u)
    BY <1>3 DEF ToSet
  <1> QED
    BY <1>4, <1>5 DEF u

Pinned == saved \subseteq ToSet(pins)
OnTheirWay == \E i \in 1..Len(main) : main[i].run = "spots" /\ main[i].docs = saved

\* What home shows is never more than a query or a callback behind.
MapFollows == shown /\ failures = 0 => queries > 0 \/ OnTheirWay \/ Pinned

\* A search stops the program for want of an annotation, and nothing follows.
StoppedBare == crashed = "annotations[0]" => pins = <<>> /\ ~dot

MapInv == MapFollows /\ StoppedBare

LEMMA MapImplies == TypesInv /\ MapInv => MapIsComplete
  <1> SUFFICES ASSUME TypesInv, MapInv, shown, failures = 0, queries = 0,
                      \A i \in 1..Len(main) : main[i].run # "spots"
               PROVE  saved \subseteq ToSet(pins) /\ (crashed = "annotations[0]" => saved = {} /\ ~dot)
    BY DEF MapIsComplete
  <1>1. Pinned
    BY DEF MapInv, MapFollows, OnTheirWay
  <1>2. ASSUME pins = <<>> PROVE saved = {}
    <2>1. DOMAIN pins = {}
      BY <1>2
    <2> QED
      BY <1>1, <2>1 DEF Pinned, ToSet
  <1> QED
    BY <1>1, <1>2 DEF Pinned, MapInv, StoppedBare

LEMMA MapInit == Init => MapInv
  BY DEF Init, MapInv, MapFollows, StoppedBare

LEMMA StoppedBareKept ==
  ASSUME TypesInv, StoppedBare, [Next]_vars
  PROVE  StoppedBare'
  <1>1. CASE UNCHANGED vars
    BY <1>1 DEF vars, mapVars, StoppedBare
  <1>2. CASE \E j \in jobs : Ask(j)
    BY <1>2 DEF Ask, Running, mapVars, StoppedBare
  <1>3. CASE \E j \in jobs : Receive(j) \/ ReceiveNothing(j) \/ Finish(j)
    <2>1. crashed' # "annotations[0]"
      BY <1>3 DEF Receive, ReceiveNothing, Finish, Running
    <2> QED
      BY <2>1 DEF StoppedBare
  <1>4. CASE RunDisplay \/ (\E i \in 1..Len(tables) : LayOut(i))
                \/ \E row \in 1..Max({0} \cup {Found[t] : t \in Terms}) : TouchRow(row)
    <2>1. crashed' # "annotations[0]"
      BY <1>4 DEF RunDisplay, LayOut, TouchRow, Read
    <2> QED
      BY <2>1 DEF StoppedBare
  <1>5. CASE \/ Appear \/ Disappear \/ Search \/ Cancel \/ Locate \/ RunSpots
             \/ Answer \/ QueryFails
             \/ \E d \in Spots : SaveSpot(d)
             \/ \E term \in Terms : TypeText(term)
    <2>1. crashed' # "annotations[0]"
      BY <1>5 DEF Appear, Disappear, Search, Cancel, Locate, RunSpots, Runs, Answer, QueryFails,
                  SaveSpot, TypeText, Running
    <2> QED
      BY <2>1 DEF StoppedBare
  <1> QED
    BY <1>1, <1>2, <1>3, <1>4, <1>5 DEF Next, Blocks

\* A step that leaves the map alone, and takes no spots off the main queue.
LEMMA MapElsewhere ==
  ASSUME MapFollows, shown' => shown, failures' = 0 => failures = 0,
         UNCHANGED <<saved, pins, queries>>, OnTheirWay => OnTheirWay'
  PROVE  MapFollows'
  BY DEF MapFollows, Pinned

LEMMA WayKept ==
  ASSUME UNCHANGED <<main, saved>>
  PROVE  OnTheirWay => OnTheirWay'
  BY DEF OnTheirWay

LEMMA WayPushed ==
  ASSUME main \in Seq(MainBlocks), NEW b \in MainBlocks, main' = Append(main, b),
         saved' = saved
  PROVE  OnTheirWay => OnTheirWay'
  <1> SUFFICES ASSUME NEW i \in 1..Len(main), main[i].run = "spots", main[i].docs = saved
               PROVE  OnTheirWay'
    BY DEF OnTheirWay
  <1>1. i \in 1..Len(main') /\ main'[i] = main[i]
    BY PushFacts
  <1> QED
    BY <1>1 DEF OnTheirWay

\* Another block than the one in question leaves the main queue.
LEMMA WayPopped ==
  ASSUME main \in Seq(MainBlocks), main # <<>>, main' = Tail(main), saved' = saved,
         NEW i \in 1..Len(main), i # 1, main[i].run = "spots", main[i].docs = saved
  PROVE  OnTheirWay'
  <1>1. i - 1 \in 1..Len(main') /\ main'[i - 1] = main[i]
    BY PopFacts
  <1> QED
    BY <1>1 DEF OnTheirWay

LEMMA FollowsPerson ==
  ASSUME TypesInv, MapFollows,
         \/ Disappear \/ Search \/ Locate
         \/ \E d \in Spots : SaveSpot(d)
         \/ \E term \in Terms : TypeText(term)
         \/ UNCHANGED vars
  PROVE  MapFollows'
  <1>1. CASE Disappear \/ \E d \in Spots : SaveSpot(d)
    <2>1. ~shown'
      BY <1>1 DEF Disappear, SaveSpot
    <2> QED
      BY <2>1 DEF MapFollows
  <1>2. CASE Search \/ Locate \/ (\E term \in Terms : TypeText(term)) \/ UNCHANGED vars
    <2>1. UNCHANGED <<shown, failures, saved, pins, queries, main>>
      BY <1>2 DEF Search, Locate, TypeText, vars, searchVars, mapVars
    <2> QED
      BY <2>1, WayKept, MapElsewhere
  <1> QED
    BY <1>1, <1>2

LEMMA FollowsUpdate ==
  ASSUME TypesInv, Appear \/ Cancel
  PROVE  MapFollows'
  <1>1. UpdateMap
    BY Zenon DEF Appear, Cancel
  <1>2. queries \in Nat /\ queries' = queries + 1
    BY <1>1, BoundsAssumption DEF TypesInv, MapTypes, UpdateMap
  <1>3. queries' > 0
    BY <1>2
  <1> QED
    BY <1>3 DEF MapFollows

LEMMA FollowsJob ==
  ASSUME TypesInv, MapFollows, NEW j \in jobs,
         Ask(j) \/ Receive(j) \/ ReceiveNothing(j) \/ Finish(j)
  PROVE  MapFollows'
  <1>1. UNCHANGED <<shown, saved, pins, queries>>
    BY DEF Ask, Receive, ReceiveNothing, Finish, mapVars
  <1>2. failures' = 0 => failures = 0
    <2>1. CASE ReceiveNothing(j)
      BY <2>1, OneMore DEF ReceiveNothing
    <2> QED
      BY <2>1 DEF Ask, Receive, Finish
  <1>3. OnTheirWay => OnTheirWay'
    <2>1. CASE Finish(j)
      <3>1. j.id \in Searches
        BY DEF TypesInv, SearchTypes, Jobs
      <3>2. [run |-> "display", id |-> j.id] \in MainBlocks
        BY <3>1 DEF MainBlocks
      <3> QED
        BY <1>1, <2>1, <3>2, WayPushed DEF Finish, TypesInv, OtherTypes
    <2>2. CASE Ask(j) \/ Receive(j) \/ ReceiveNothing(j)
      BY <1>1, <2>2, WayKept DEF Ask, Receive, ReceiveNothing
    <2> QED
      BY <2>1, <2>2
  <1> QED
    BY <1>1, <1>2, <1>3, MapElsewhere

LEMMA FollowsDisplay ==
  ASSUME TypesInv, MapFollows, RunDisplay
  PROVE  MapFollows'
  <1>1. UNCHANGED <<shown, failures, saved, pins, queries>>
    BY DEF RunDisplay, mapVars
  <1>2. /\ main \in Seq(MainBlocks) /\ main # <<>> /\ main' = Tail(main)
        /\ Head(main).run = "display"
    BY DEF RunDisplay, Runs, TypesInv, OtherTypes
  <1>3. OnTheirWay => OnTheirWay'
    <2> SUFFICES ASSUME NEW i \in 1..Len(main), main[i].run = "spots", main[i].docs = saved
                 PROVE  OnTheirWay'
      BY DEF OnTheirWay
    <2>1. i # 1
      BY <1>2, PopFacts
    <2> QED
      BY <1>1, <1>2, <2>1, WayPopped
  <1> QED
    BY <1>1, <1>3, MapElsewhere

LEMMA FollowsRead ==
  ASSUME TypesInv, MapFollows,
         \/ \E i \in 1..Len(tables) : LayOut(i)
         \/ \E row \in 1..Max({0} \cup {Found[t] : t \in Terms}) : TouchRow(row)
  PROVE  MapFollows'
  <1>1. UNCHANGED <<shown, failures, saved, pins, queries, main>>
    BY DEF LayOut, TouchRow, mapVars
  <1> QED
    BY <1>1, WayKept, MapElsewhere

\* An answer brings every spot there is.
LEMMA FollowsAnswer ==
  ASSUME TypesInv, Answer
  PROVE  MapFollows'
  <1> DEFINE b == [run |-> "spots", docs |-> saved]
  <1>1. b \in MainBlocks
    BY DEF MainBlocks, TypesInv, MapTypes
  <1>2. main \in Seq(MainBlocks) /\ main' = Append(main, b) /\ saved' = saved
    BY DEF TypesInv, OtherTypes, Answer
  <1>3. b.run = "spots" /\ b.docs = saved
    OBVIOUS
  <1> HIDE DEF b
  <1>4. /\ Len(main') = Len(main) + 1 /\ Len(main) \in Nat /\ main'[Len(main) + 1] = b
    BY <1>1, <1>2, PushFacts
  <1>5. Len(main) + 1 \in 1..Len(main')
    BY <1>4
  <1>6. OnTheirWay'
    BY <1>2, <1>3, <1>4, <1>5 DEF OnTheirWay
  <1> QED
    BY <1>6 DEF MapFollows

LEMMA FollowsFailure ==
  ASSUME TypesInv, QueryFails
  PROVE  MapFollows'
  BY OneMore DEF QueryFails, MapFollows

\* A callback pins what it brings and takes no pin away.
LEMMA FollowsSpots ==
  ASSUME TypesInv, MapFollows, RunSpots
  PROVE  MapFollows'
  <1> DEFINE b == Head(main)
             u == userPins \o SetToSeq(b.docs)
  <1>1. /\ main \in Seq(MainBlocks) /\ main # <<>> /\ main' = Tail(main) /\ b.run = "spots"
        /\ userPins' = u /\ pins' = pins \o u
        /\ UNCHANGED <<shown, failures, saved, queries>>
    BY DEF RunSpots, Runs, TypesInv, OtherTypes
  <1>2. b = main[1] /\ b \in MainBlocks
    BY <1>1, PopFacts
  <1>3. b.docs \in SUBSET Spots
    BY <1>1, <1>2 DEF MainBlocks
  <1>4. userPins \in Seq(Spots) /\ pins \in Seq(Spots) /\ SetToSeq(b.docs) \in Seq(Spots)
    BY <1>3, DocsListed DEF TypesInv, MapTypes
  <1>5. u \in Seq(Spots)
    BY <1>4
  <1>6. ToSet(SetToSeq(b.docs)) \subseteq ToSet(u)
    BY <1>4, JoinedKeeps
  <1> HIDE DEF b, u
  <1>7. ToSet(u) \subseteq ToSet(pins') /\ ToSet(pins) \subseteq ToSet(pins')
    BY <1>1, <1>4, <1>5, JoinedKeeps
  <1>8. b.docs \subseteq ToSet(pins')
    BY <1>3, <1>6, <1>7, DocsAllListed
  <1>9. CASE Pinned
    BY <1>1, <1>7, <1>9 DEF Pinned, MapFollows
  <1>10. CASE OnTheirWay
    <2>1. PICK i \in 1..Len(main) : main[i].run = "spots" /\ main[i].docs = saved
      BY <1>10 DEF OnTheirWay
    <2>2. CASE i = 1
      BY <1>1, <1>2, <1>8, <2>1, <2>2 DEF Pinned, MapFollows
    <2>3. CASE i # 1
      BY <1>1, <2>1, <2>3, WayPopped DEF MapFollows
    <2> QED
      BY <2>2, <2>3
  <1> QED
    BY <1>1, <1>9, <1>10 DEF MapFollows

LEMMA MapNext == TypesInv /\ MapInv /\ [Next]_vars => MapInv'
  <1> SUFFICES ASSUME TypesInv, MapFollows, [Next]_vars PROVE MapFollows'
    BY StoppedBareKept DEF MapInv
  <1> QED
    BY FollowsPerson, FollowsUpdate, FollowsJob, FollowsDisplay, FollowsRead, FollowsAnswer,
       FollowsFailure, FollowsSpots DEF Next, Blocks

\* However appearances, queries, callbacks and newly saved spots follow one
\* another, a map that is shown and waits for nothing has a pin for every spot.
THEOREM MapsAreComplete == Spec => []MapIsComplete
  <1>1. TypesInv /\ [Next]_vars => TypesInv'
    BY TypesNext
  <1>2. TypesInv /\ MapInv /\ [Next]_vars => MapInv'
    BY MapNext
  <1> QED
    BY <1>1, <1>2, TypesInit, MapInit, MapImplies, PTL DEF Spec
=============================================================================
