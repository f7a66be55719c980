-------------------------- MODULE SavedSpotsProofs --------------------------
(* Theorems about SavedSpots, for every set of genres, every way their names *)
(* survive their display, and any number of spots and loads.                 *)
EXTENDS SavedSpots, FiniteSetTheorems, WellFoundedInduction, TLAPS

-----------------------------------------------------------------------------
(* The spots of a snapshot can be put in order.                              *)

Sorted(q, ids) ==
  /\ q \in [1..Cardinality(ids) -> ids]
  /\ ToSet(q) = ids
  /\ \A i, j \in DOMAIN q : i < j => q[i] < q[j]

\* Every set of natural numbers with an element has a smallest one.
LEMMA Smallest ==
  ASSUME NEW T, T \subseteq Nat, T # {}
  PROVE  \E x \in T : \A y \in T : x <= y
  <1> DEFINE R == OpToRel(<, Nat)
  <1>1. IsWellFoundedOn(R, Nat)
    BY NatLessThanWellFounded
  <1>2. \A x, y \in Nat : x < y => <<x, y>> \in R
    BY DEF OpToRel
  <1> HIDE DEF R
  <1>3. PICK x \in T : \A y \in T : ~ (<<y, x>> \in R)
    BY <1>1, WFMin
  <1>4. \A y \in T : ~ (y < x)
    <2> TAKE y \in T
    <2>1. y \in Nat /\ x \in Nat
      OBVIOUS
    <2>2. <<y, x>> \notin R
      BY <1>3
    <2> QED
      BY <1>2, <2>1, <2>2
  <1> QED
    BY <1>4

\* The largest element comes last: an ordered sequence of the others gets
\* longer by it.
LEMMA SortedLonger ==
  ASSUME NEW n \in Nat, NEW S \in SUBSET (1..n + 1), n + 1 \in S,
         NEW p, Sorted(p, S \ {n + 1})
  PROVE  \E q : Sorted(q, S)
  <1> DEFINE T == S \ {n + 1}
             c == Cardinality(T)
             q == [i \in 1..c + 1 |-> IF i = c + 1 THEN n + 1 ELSE p[i]]
  <1>1. IsFiniteSet(S) /\ IsFiniteSet(T)
    <2>1. IsFiniteSet(1..n + 1)
      BY FS_Interval
    <2>2. S \in SUBSET (1..n + 1) /\ T \in SUBSET (1..n + 1)
      OBVIOUS
    <2> QED
      BY <2>1, <2>2, FS_Subset
  <1>2. c \in Nat /\ Cardinality(S) = c + 1
    <2>1. Cardinality(S) \in Nat /\ c = Cardinality(S) - 1
      BY <1>1, FS_RemoveElement, FS_CardinalityType
    <2>2. c \in Nat
      BY <1>1, FS_CardinalityType
    <2> QED
      BY <2>1, <2>2
  <1>3. p \in [1..c -> T] /\ ToSet(p) = T /\ \A i, j \in 1..c : i < j => p[i] < p[j]
    BY DEF Sorted
  <1>4. \A x \in T : x \in 1..n
    OBVIOUS
  <1> HIDE DEF c, T
  <1>5. q \in [1..Cardinality(S) -> S]
    BY <1>2, <1>3 DEF T
  <1>6. ToSet(q) = S
    <2>1. ASSUME NEW x \in S
          PROVE  \E i \in 1..c + 1 : q[i] = x
      <3>1. CASE x = n + 1
        BY <1>2, <3>1
      <3>2. CASE x # n + 1
        <4>1. PICK i \in 1..c : p[i] = x
          BY <1>3, <3>2 DEF T, ToSet
        <4> QED
          BY <1>2, <4>1
      <3> QED
        BY <3>1, <3>2
    <2>2. \A i \in 1..c + 1 : q[i] \in S
      BY <1>2, <1>5
    <2> QED
      BY <2>1, <2>2 DEF ToSet
  <1>7. ASSUME NEW i \in 1..c + 1, NEW j \in 1..c + 1, i < j
        PROVE  q[i] < q[j]
    <2>1. i \in 1..c /\ q[i] = p[i] /\ p[i] \in 1..n
      BY <1>2, <1>3, <1>4, <1>7
    <2>2. CASE j = c + 1
      BY <2>1, <2>2
    <2>3. CASE j # c + 1
      BY <1>2, <1>3, <1>7, <2>1, <2>3
    <2> QED
      BY <2>2, <2>3
  <1> QED
    BY <1>2, <1>5, <1>6, <1>7 DEF Sorted

LEMMA SortedExists ==
  ASSUME NEW m \in Nat, NEW U \in SUBSET (1..m)
  PROVE  \E q : Sorted(q, U)
  <1> DEFINE Good(S) == \E q : Sorted(q, S)
             Bad == {n \in Nat : \E S \in SUBSET (1..n) : ~Good(S)}
  <1>1. Good({})
    <2>1. Sorted(<<>>, {})
      BY FS_EmptySet DEF Sorted, ToSet
    <2> QED
      BY <2>1
  <1>2. SUFFICES ASSUME Bad # {}
                 PROVE  FALSE
    OBVIOUS
  <1>3. PICK k \in Bad : \A n \in Bad : k <= n
    BY <1>2, Smallest
  <1>4. PICK S \in SUBSET (1..k) : ~Good(S)
    BY <1>3
  <1>5. k # 0
    <2>1. SUFFICES ASSUME k = 0 PROVE FALSE
      OBVIOUS
    <2>2. S = {}
      BY <2>1
    <2> HIDE DEF Good
    <2> QED
      BY <1>1, <1>4, <2>2
  <1>6. k \in Nat /\ k - 1 \in Nat /\ k = (k - 1) + 1 /\ ~ (k <= k - 1)
    BY <1>3, <1>5
  <1>7. k - 1 \notin Bad
    BY <1>3, <1>6
  <1>8. \A T \in SUBSET (1..k - 1) : Good(T)
    BY <1>6, <1>7
  <1>9. Good(S \ {k}) /\ (k \notin S => S \ {k} = S)
    <2>1. S \ {k} \in SUBSET (1..k - 1)
      BY <1>3
    <2> QED
      BY <1>8, <2>1
  <1>10. k \in S
    BY <1>4, <1>9
  <1>11. PICK p : Sorted(p, S \ {k})
    BY <1>9
  <1>12. \E q : Sorted(q, S)
    BY <1>4, <1>6, <1>10, <1>11, SortedLonger
  <1> QED
    BY <1>4, <1>12

\* What InOrder returns: each spot of the snapshot with one of the records,
\* once, in the query's order.
LEMMA InOrderLists ==
  ASSUME NEW docs \in SUBSET (Spots \X Records), NEW records
  PROVE  LET q == InOrder(docs, records)
             ids == {d[1] : d \in {e \in docs : e[2] \in records}}
         IN  /\ q \in Seq(Spots) /\ ToSet(q) = ids /\ IsInjective(q)
             /\ \A i, j \in DOMAIN q : i < j => q[i] < q[j]
  <1> DEFINE ids == {d[1] : d \in {e \in docs : e[2] \in records}}
             q == InOrder(docs, records)
  <1>1. ids \in SUBSET (1..MaxSpot) /\ MaxSpot \in Nat
    BY LoadAssumption DEF Spots
  <1> HIDE DEF ids
  <1>2. IsFiniteSet(ids)
    <2>1. IsFiniteSet(1..MaxSpot)
      BY <1>1, FS_Interval
    <2> QED
      BY <1>1, <2>1, FS_Subset
  <1>3. Cardinality(ids) \in Nat
    BY <1>2, FS_CardinalityType
  <1>4. q = CHOOSE p : p \in [1..Cardinality(ids) -> ids] /\ ToSet(p) = ids
                       /\ \A i, j \in DOMAIN p : i < j => p[i] < p[j]
    BY DEF InOrder, ids
  <1> HIDE DEF q
  <1>5. Sorted(q, ids)
    BY <1>1, <1>4, SortedExists DEF Sorted
  <1>6. DOMAIN q = 1..Cardinality(ids) /\ \A i \in DOMAIN q : q[i] \in ids
    BY <1>5 DEF Sorted
  <1>7. q \in Seq(Spots)
    <2>1. q \in [1..Cardinality(ids) -> Spots]
      BY <1>1, <1>5 DEF Sorted, Spots
    <2> QED
      BY <1>3, <2>1
  <1>8. IsInjective(q)
    <2>1. ASSUME NEW i \in DOMAIN q, NEW j \in DOMAIN q, q[i] = q[j]
          PROVE  i = j
      <3>1. i \in Nat /\ j \in Nat /\ q[i] \in Nat
        <4>1. i \in 1..Cardinality(ids) /\ j \in 1..Cardinality(ids)
          BY <1>6, <2>1
        <4>2. q[i] \in 1..MaxSpot
          BY <1>1, <1>6, <2>1
        <4> QED
          BY <1>1, <1>3, <4>1, <4>2
      <3>2. ~ (i < j)
        <4>1. i < j => q[i] < q[j]
          BY <1>5, <2>1 DEF Sorted
        <4> QED
          BY <2>1, <3>1, <4>1
      <3>3. ~ (j < i)
        <4>1. j < i => q[j] < q[i]
          BY <1>5, <2>1 DEF Sorted
        <4> QED
          BY <2>1, <3>1, <4>1
      <3> QED
        BY <3>1, <3>2, <3>3
    <2> QED
      BY <2>1 DEF IsInjective
  <1> QED
    BY <1>5, <1>7, <1>8 DEF Sorted, q, ids

-----------------------------------------------------------------------------
(* The main queue.                                                           *)

Queued == {mainQ[i] : i \in 1..Len(mainQ)}

\* What is under way: the queries without an answer and the main queue.
Work == queries \cup Queued

LEMMA BlockFields ==
  ASSUME NEW b \in Blocks
  PROVE  /\ b.kind \in {"dropdown", "genres", "spots", "reloadGenres", "reloadSpots"}
         /\ b.kind \in {"dropdown", "genres"} =>
              b.load \in 1..MaxLoads /\ b.docs \in SUBSET GenreDocs
         /\ b.kind = "spots" =>
              b.load \in 1..MaxLoads /\ b.docs \in SUBSET (Spots \X Records)
  BY DEF Blocks

\* Running the head of the main queue takes it out of what is under way.
LEMMA PopQueue ==
  ASSUME mainQ \in Seq(Blocks), mainQ # <<>>
  PROVE  /\ Head(mainQ) = mainQ[1] /\ Head(mainQ) \in Blocks
         /\ Head(mainQ) \in Queued
         /\ Tail(mainQ) \in Seq(Blocks)
         /\ Len(mainQ) \in Nat /\ Len(mainQ) >= 1
         /\ Len(Tail(mainQ)) = Len(mainQ) - 1
         /\ \A i \in 1..Len(mainQ) - 1 : Tail(mainQ)[i] = mainQ[i + 1]
  BY DEF Queued

LEMMA PopWork ==
  ASSUME mainQ \in Seq(Blocks), mainQ # <<>>, mainQ' = Tail(mainQ)
  PROVE  Queued' \subseteq Queued /\ Queued \subseteq Queued' \cup {Head(mainQ)}
  <1>1. ASSUME NEW i \in 1..Len(mainQ')
        PROVE  mainQ'[i] \in Queued
    BY <1>1, PopQueue DEF Queued
  <1>2. ASSUME NEW i \in 1..Len(mainQ)
        PROVE  mainQ[i] \in Queued' \cup {Head(mainQ)}
    <2>1. CASE i = 1
      BY <2>1, PopQueue
    <2>2. CASE i # 1
      <3>1. i - 1 \in 1..Len(mainQ') /\ mainQ'[i - 1] = mainQ[i]
        BY <1>2, <2>2, PopQueue
      <3> QED
        BY <3>1 DEF Queued
    <2> QED
      BY <2>1, <2>2
  <1> QED
    BY <1>1, <1>2 DEF Queued

LEMMA PushWork ==
  ASSUME NEW S, NEW q \in Seq(S), NEW b, b \in S,
         mainQ' = Append(q, b)
  PROVE  /\ Queued' = {q[i] : i \in 1..Len(q)} \cup {b}
         /\ mainQ' \in Seq(S)
         /\ Len(mainQ') = Len(q) + 1 /\ Len(q) \in Nat
         /\ \A i \in 1..Len(q) : mainQ'[i] = q[i]
         /\ mainQ'[Len(q) + 1] = b
  <1>1. /\ mainQ' \in Seq(S)
        /\ Len(mainQ') = Len(q) + 1 /\ Len(q) \in Nat
        /\ \A i \in 1..Len(q) : mainQ'[i] = q[i]
        /\ mainQ'[Len(q) + 1] = b
    OBVIOUS
  <1>2. ASSUME NEW i \in 1..Len(mainQ')
        PROVE  mainQ'[i] \in {q[j] : j \in 1..Len(q)} \cup {b}
    BY <1>1, <1>2
  <1>3. ASSUME NEW i \in 1..Len(q)
        PROVE  q[i] \in Queued'
    BY <1>1, <1>3 DEF Queued
  <1>4. b \in Queued'
    BY <1>1 DEF Queued
  <1> QED
    BY <1>1, <1>2, <1>3, <1>4 DEF Queued

LEMMA PopPushWork ==
  ASSUME mainQ \in Seq(Blocks), mainQ # <<>>, NEW b \in Blocks,
         mainQ' = Append(Tail(mainQ), b)
  PROVE  /\ Queued' \subseteq Queued \cup {b}
         /\ Queued \subseteq Queued' \cup {Head(mainQ)}
         /\ b \in Queued'
         /\ mainQ' \in Seq(Blocks)
  <1> DEFINE q == Tail(mainQ)
  <1>1. q \in Seq(Blocks)
    BY PopQueue
  <1>2. /\ Queued' = {q[i] : i \in 1..Len(q)} \cup {b}
        /\ mainQ' \in Seq(Blocks)
    BY <1>1, PushWork
  <1>3. {q[i] : i \in 1..Len(q)} \subseteq Queued
    <2>1. ASSUME NEW i \in 1..Len(q)
          PROVE  q[i] \in Queued
      BY <2>1, PopQueue DEF Queued
    <2> QED
      BY <2>1
  <1>4. ASSUME NEW i \in 1..Len(mainQ)
        PROVE  mainQ[i] \in {q[j] : j \in 1..Len(q)} \cup {Head(mainQ)}
    <2>1. CASE i = 1
      BY <2>1, PopQueue
    <2>2. CASE i # 1
      <3>1. i - 1 \in 1..Len(q) /\ q[i - 1] = mainQ[i]
        BY <1>4, <2>2, PopQueue
      <3> QED
        BY <3>1
    <2> QED
      BY <2>1, <2>2
  <1> QED
    BY <1>2, <1>3, <1>4 DEF Queued

-----------------------------------------------------------------------------
(* Type correctness.                                                         *)

TypesInv ==
  /\ TypeOK
  /\ mainQ \in Seq(Blocks)
  /\ spotDocs \in [DOMAIN spotDocs -> Records]
  /\ IsFiniteSet(genreDocs)
  /\ \A b \in Queued : b.kind = "dropdown" => IsFiniteSet(b.docs)
  /\ \A w \in Work : w.kind \in {"dropdown", "genres", "spots"} => w.load \in 1..loads

\* The records of the dropdown's rows that a snapshot adds are genres.
LEMMA RowsOf ==
  ASSUME NEW docs \in SUBSET GenreDocs, IsFiniteSet(docs)
  PROVE  LET rows == [i \in DOMAIN SetToSeq(docs) |-> SetToSeq(docs)[i].name]
         IN  /\ rows \in Seq(Genres)
             /\ \A i \in DOMAIN rows : \E d \in docs : rows[i] = d.name
  <1> DEFINE f == SetToSeq(docs)
             rows == [i \in DOMAIN f |-> f[i].name]
  <1>1. Cardinality(docs) \in Nat /\ ExistsBijection(1..Cardinality(docs), docs)
    BY FS_CardinalityType
  <1>2. \E g \in [1..Cardinality(docs) -> docs] : IsInjective(g)
    BY <1>1 DEF ExistsBijection, Bijection, Injection, IsInjective
  <1>3. f \in [1..Cardinality(docs) -> docs]
    BY <1>2 DEF SetToSeq
  <1> HIDE DEF f
  <1>4. \A i \in 1..Cardinality(docs) : f[i] \in docs /\ f[i].name \in Genres
    BY <1>3 DEF GenreDocs
  <1>5. rows \in [1..Cardinality(docs) -> Genres]
    BY <1>3, <1>4
  <1>6. rows \in Seq(Genres)
    BY <1>1, <1>5
  <1>7. \A i \in DOMAIN rows : \E d \in docs : rows[i] = d.name
    BY <1>3, <1>4
  <1> QED
    BY <1>6, <1>7 DEF f

LEMMA TypesInit == Init => TypesInv
  <1>1. SUFFICES ASSUME Init PROVE TypesInv
    OBVIOUS
  <1>2. mainQ = <<>> /\ Queued = {} /\ Work = {}
    BY <1>1 DEF Init, Queued, Work
  <1>3. ToSet(spotDocs) = {} /\ DOMAIN spotDocs = {}
    BY <1>1 DEF Init, ToSet
  <1>4. /\ genres \in Seq(Genres) /\ genreRows \in 0..Len(genres)
        /\ DOMAIN spotsList = {} /\ DOMAIN mainQ = {}
        /\ allArray \in Seq(Spots) /\ spotRows \in Nat
    BY <1>1 DEF Init
  <1>5. /\ genreDocs \subseteq GenreDocs /\ onScreen \in BOOLEAN
        /\ colors \subseteq Genres /\ selected \in Records
        /\ queries \subseteq Queries /\ expected \subseteq Spots
        /\ crashed \in {"no", "spotColor", "genreColor", "genreRows", "spotRow"}
        /\ loads \in 0..MaxLoads
        /\ overlapped \in BOOLEAN /\ raced \in BOOLEAN /\ failed \in BOOLEAN
    <2>1. loads \in 0..MaxLoads
      BY <1>1, LoadAssumption DEF Init
    <2>2. selected \in Records
      BY <1>1 DEF Init, Records
    <2> QED
      BY <1>1, <2>1, <2>2 DEF Init
  <1>6. TypeOK
    BY <1>3, <1>4, <1>5 DEF TypeOK
  <1> QED
    BY <1>1, <1>2, <1>3, <1>6, FS_EmptySet DEF Init, TypesInv

LEMMA TypesSaveGenre ==
  ASSUME TypesInv, NEW g \in Genres, NEW c \in Colors, SaveGenre(g, c)
  PROVE  TypesInv'
  <1>1. genreDocs' \subseteq GenreDocs
    BY DEF TypesInv, TypeOK, SaveGenre, GenreDocs
  <1>2. IsFiniteSet(genreDocs')
    BY FS_AddElement DEF TypesInv, SaveGenre
  <1>3. Queued' = Queued /\ Work' = Work
    BY DEF SaveGenre, Queued, Work
  <1>4. TypeOK'
    BY <1>1 DEF TypesInv, TypeOK, SaveGenre, lists, Quiet
  <1> QED
    BY <1>2, <1>3, <1>4 DEF TypesInv, SaveGenre

LEMMA TypesSaveSpot ==
  ASSUME TypesInv, NEW s \in Spots, SaveSpot(s)
  PROVE  TypesInv'
  <1>1. PICK r \in {NoGenre} \cup {Reparse[d.name] : d \in genreDocs} :
          spotDocs' = [t \in DOMAIN spotDocs \cup {s} |-> IF t = s THEN r ELSE spotDocs[t]]
    BY DEF SaveSpot
  <1>2. r \in Records
    BY DEF Records, TypesInv, TypeOK, GenreDocs
  <1>3. spotDocs' \in [DOMAIN spotDocs' -> Records] /\ DOMAIN spotDocs' \subseteq Spots
    BY <1>1, <1>2 DEF TypesInv, TypeOK
  <1>4. ToSet(spotDocs') \subseteq Records
    BY <1>3 DEF ToSet
  <1>5. Queued' = Queued /\ Work' = Work
    BY DEF SaveSpot, Queued, Work
  <1>6. TypeOK'
    BY <1>3, <1>4 DEF TypesInv, TypeOK, SaveSpot, lists, Quiet
  <1> QED
    BY <1>3, <1>5, <1>6 DEF TypesInv, SaveSpot

\* A step that leaves the documents, the queries and the main queue alone.
LEMMA TypesElsewhere ==
  ASSUME TypesInv, TypeOK', UNCHANGED <<data, queries, mainQ, loads>>
  PROVE  TypesInv'
  <1>1. Queued' = Queued /\ Work' = Work
    BY DEF Queued, Work
  <1> QED
    BY <1>1 DEF TypesInv, data

LEMMA TypesLeave ==
  ASSUME TypesInv, Leave
  PROVE  TypesInv'
  <1>1. TypeOK'
    BY DEF TypesInv, TypeOK, Leave, data, lists, observed
  <1> QED
    BY <1>1, TypesElsewhere DEF Leave, observed

LEMMA TypesAppear ==
  ASSUME TypesInv, Appear
  PROVE  TypesInv'
  <1>1. /\ loads \in Nat /\ loads' = loads + 1 /\ loads' \in 1..MaxLoads
        /\ 1..loads \subseteq 1..loads'
    BY LoadAssumption DEF TypesInv, TypeOK, Appear, AppearWith
  <1>2. queries' \subseteq Queries
    BY <1>1 DEF TypesInv, TypeOK, Appear, AppearWith, Queries
  <1>3. TypeOK'
    BY <1>1, <1>2 DEF TypesInv, TypeOK, Appear, AppearWith, data, lists, Records, Quiet
  <1>4. Queued' = Queued
    BY DEF Appear, AppearWith, Queued
  <1>5. \A w \in Work' : w \in Work \/ w.load = loads'
    BY <1>1, <1>4 DEF Appear, AppearWith, Work
  <1>6. \A w \in Work' : w.kind \in {"dropdown", "genres", "spots"} => w.load \in 1..loads'
    BY <1>1, <1>5 DEF TypesInv
  <1> QED
    BY <1>3, <1>4, <1>6 DEF TypesInv, Appear, AppearWith, data

LEMMA TypesAnswer ==
  ASSUME TypesInv, NEW q \in queries, Answer(q)
  PROVE  TypesInv'
  <1> DEFINE b == [kind |-> q.kind, load |-> q.load,
                   docs |-> IF q.kind = "spots"
                              THEN {<<s, spotDocs[s]>> : s \in DOMAIN spotDocs}
                              ELSE genreDocs]
  <1>1. /\ q.kind \in {"dropdown", "genres", "spots"} /\ q.load \in 1..MaxLoads
        /\ q \in Work
    BY DEF TypesInv, TypeOK, Queries, Work
  <1>2. {<<s, spotDocs[s]>> : s \in DOMAIN spotDocs} \subseteq Spots \X Records
    BY DEF TypesInv, TypeOK
  <1>3. b \in Blocks
    BY <1>1, <1>2 DEF Blocks, TypesInv, TypeOK
  <1>4. b.kind = q.kind /\ b.load = q.load /\ (b.kind = "dropdown" => b.docs = genreDocs)
    BY <1>1
  <1>5. mainQ' = Append(mainQ, b)
    BY DEF Answer
  <1> HIDE DEF b
  <1>6. mainQ' \in Seq(Blocks) /\ Queued' = Queued \cup {b}
    BY <1>3, <1>5, PushWork DEF TypesInv, Queued
  <1>7. TypeOK'
    <2>1. \A i \in DOMAIN mainQ' : mainQ'[i] \in Blocks
      BY <1>6
    <2> QED
      BY <2>1 DEF TypesInv, TypeOK, Answer, data, lists, observed
  <1>8. Work' \subseteq Work \cup {b}
    BY <1>6 DEF Work, Answer
  <1> QED
    BY <1>1, <1>4, <1>6, <1>7, <1>8 DEF TypesInv, Answer, data, observed

LEMMA TypesFail ==
  ASSUME TypesInv, NEW q \in queries, Fail(q)
  PROVE  TypesInv'
  <1>1. TypeOK'
    BY DEF TypesInv, TypeOK, Fail, data, lists
  <1>2. Queued' = Queued /\ Work' \subseteq Work
    BY DEF Fail, Queued, Work
  <1> QED
    BY <1>1, <1>2 DEF TypesInv, Fail, data

\* A step of the main queue that leaves the documents and the queries alone.
LEMMA TypesPop ==
  ASSUME TypesInv, mainQ # <<>>, mainQ' = Tail(mainQ), TypeOK',
         UNCHANGED <<data, queries, loads>>
  PROVE  TypesInv'
  <1>1. Queued' \subseteq Queued /\ mainQ' \in Seq(Blocks)
    BY PopWork, PopQueue DEF TypesInv
  <1>2. Work' \subseteq Work
    BY <1>1 DEF Work
  <1> QED
    BY <1>1, <1>2 DEF TypesInv, data

LEMMA TypesPopPush ==
  ASSUME TypesInv, mainQ # <<>>, NEW k \in {"reloadGenres", "reloadSpots"},
         mainQ' = Append(Tail(mainQ), [kind |-> k]), TypeOK',
         UNCHANGED <<data, queries, loads>>
  PROVE  TypesInv'
  <1> DEFINE b == [kind |-> k]
  <1>1. b \in Blocks /\ b.kind \notin {"dropdown", "genres", "spots"}
    BY DEF Blocks
  <1>2. mainQ' = Append(Tail(mainQ), b)
    OBVIOUS
  <1> HIDE DEF b
  <1>3. Queued' \subseteq Queued \cup {b} /\ mainQ' \in Seq(Blocks)
    BY <1>1, <1>2, PopPushWork DEF TypesInv
  <1>4. Work' \subseteq Work \cup {b}
    BY <1>3 DEF Work
  <1>5. \A c \in Queued' : c.kind = "dropdown" => IsFiniteSet(c.docs)
    BY <1>1, <1>3 DEF TypesInv
  <1>6. \A w \in Work' : w.kind \in {"dropdown", "genres", "spots"} => w.load \in 1..loads'
    BY <1>1, <1>4 DEF TypesInv
  <1> QED
    BY <1>3, <1>5, <1>6 DEF TypesInv, data

\* The members of a sequence are those of its index set.
LEMMA BlocksQueued ==
  ASSUME mainQ \in Seq(Blocks)
  PROVE  \A i \in DOMAIN mainQ : mainQ[i] \in Blocks
  OBVIOUS

LEMMA TypesRunDropdown ==
  ASSUME TypesInv, RunDropdown
  PROVE  TypesInv'
  <1> DEFINE h == Head(mainQ)
             docs == SetToSeq(h.docs)
             rows == [i \in DOMAIN docs |-> docs[i].name]
  <1>1. mainQ # <<>> /\ h.kind = "dropdown"
    BY DEF RunDropdown, Runs
  <1>2. h \in Blocks /\ h \in Queued
    BY <1>1, PopQueue DEF TypesInv
  <1> HIDE DEF h
  <1>3. h.docs \in SUBSET GenreDocs /\ IsFiniteSet(h.docs)
    BY <1>1, <1>2, BlockFields DEF TypesInv
  <1>4. rows \in Seq(Genres)
    BY <1>3, RowsOf
  <1>5. genres' = genres \o rows
    BY DEF RunDropdown, h
  <1> HIDE DEF rows, docs
  <1>6. genres' \in Seq(Genres) /\ Len(genres') = Len(genres) + Len(rows)
        /\ Len(rows) \in Nat /\ Len(genres) \in Nat
    BY <1>4, <1>5 DEF TypesInv, TypeOK
  <1>7. genreRows' \in 0..Len(genres')
    BY <1>6 DEF TypesInv, TypeOK, RunDropdown
  <1>8. mainQ' = Append(Tail(mainQ), [kind |-> "reloadGenres"])
    BY DEF RunDropdown
  <1>9. [kind |-> "reloadGenres"] \in Blocks
    BY DEF Blocks
  <1>10. mainQ' \in Seq(Blocks)
    BY <1>1, <1>8, <1>9, PopPushWork DEF TypesInv
  <1>11. \A i \in DOMAIN mainQ' : mainQ'[i] \in Blocks
    BY <1>10
  <1>12. TypeOK'
    BY <1>6, <1>7, <1>11 DEF TypesInv, TypeOK, RunDropdown, data, observed
  <1> QED
    BY <1>1, <1>8, <1>12, TypesPopPush DEF RunDropdown, observed

LEMMA TypesRunGenres ==
  ASSUME TypesInv, RunGenres
  PROVE  TypesInv'
  <1> DEFINE h == Head(mainQ)
             n == [kind |-> "spots", load |-> h.load]
             found == {d.name : d \in h.docs}
  <1>1. mainQ # <<>> /\ h.kind = "genres" /\ mainQ' = Tail(mainQ)
    BY DEF RunGenres, RunGenresIssuing, Runs
  <1>2. h \in Blocks /\ h \in Queued /\ h \in Work
    BY <1>1, PopQueue DEF TypesInv, Work
  <1>3. h.docs \in SUBSET GenreDocs /\ h.load \in 1..MaxLoads /\ h.load \in 1..loads
    BY <1>1, <1>2, BlockFields DEF TypesInv
  <1>4. mainQ' \in Seq(Blocks) /\ Queued' \subseteq Queued
    BY <1>1, PopQueue, PopWork DEF TypesInv
  <1>5. \A i \in DOMAIN mainQ' : mainQ'[i] \in Blocks
    BY <1>4
  <1>6. CASE Crash("genreColor")
    <2>1. TypeOK'
      BY <1>5, <1>6 DEF TypesInv, TypeOK, Crash, data, lists, observed
    <2> QED
      BY <1>1, <1>6, <2>1, TypesPop DEF Crash, observed
  <1>7. CASE ~Crash("genreColor")
    <2>1. /\ colors' = colors \cup found
          /\ spotsList' = [g \in DOMAIN spotsList \cup found |->
                             IF g \in found THEN <<>> ELSE spotsList[g]]
          /\ queries' = queries \cup {n}
          /\ UNCHANGED <<data, onScreen, genres, genreRows, allArray, selected,
                         spotRows, crashed, observed>>
      BY <1>7 DEF RunGenres, RunGenresIssuing, n, found, h
    <2> HIDE DEF h
    <2>2. found \subseteq Genres
      BY <1>3 DEF GenreDocs
    <2>3. n \in Queries /\ n.load \in 1..loads
      BY <1>3 DEF Queries
    <2> HIDE DEF n, found
    <2>4. DOMAIN spotsList' \subseteq Genres
          /\ \A g \in DOMAIN spotsList' : spotsList'[g] \in Seq(Spots)
      BY <2>1, <2>2 DEF TypesInv, TypeOK
    <2>5. TypeOK'
      BY <1>5, <2>1, <2>2, <2>3, <2>4 DEF TypesInv, TypeOK, data, observed
    <2>6. Work' \subseteq Work \cup {n}
      BY <1>4, <2>1 DEF Work
    <2> QED
      BY <1>4, <2>1, <2>3, <2>5, <2>6 DEF TypesInv, data, observed
  <1> QED
    BY <1>6, <1>7

LEMMA TypesRunSpots ==
  ASSUME TypesInv, RunSpots
  PROVE  TypesInv'
  <1> DEFINE h == Head(mainQ)
  <1>1. mainQ # <<>> /\ h.kind = "spots"
    BY DEF RunSpots, RunSpotsWith, Runs
  <1>2. h \in Blocks /\ Tail(mainQ) \in Seq(Blocks)
    BY <1>1, PopQueue DEF TypesInv
  <1> HIDE DEF h
  <1>3. h.docs \in SUBSET (Spots \X Records)
    BY <1>1, <1>2, BlockFields
  <1>4. CASE mainQ' = Tail(mainQ) /\ Crash("spotColor")
    <2>1. \A i \in DOMAIN mainQ' : mainQ'[i] \in Blocks
      BY <1>2, <1>4
    <2>2. TypeOK'
      BY <1>4, <2>1 DEF TypesInv, TypeOK, Crash, data, lists, observed
    <2> QED
      BY <1>1, <1>4, <2>2, TypesPop DEF Crash, observed
  <1>5. CASE ~ (mainQ' = Tail(mainQ) /\ Crash("spotColor"))
    <2>1. /\ spotsList' = [g \in DOMAIN spotsList |->
                             spotsList[g] \o InOrder(h.docs, {g})]
          /\ allArray' = allArray \o InOrder(h.docs, Records)
          /\ mainQ' = Tail(mainQ) \o <<[kind |-> "reloadSpots"]>>
          /\ UNCHANGED <<data, onScreen, genres, genreRows, colors, selected,
                         spotRows, queries, crashed, observed>>
      BY <1>5 DEF RunSpots, RunSpotsWith, WithSpots, h
    <2>2. \A R : InOrder(h.docs, R) \in Seq(Spots)
      BY <1>3, InOrderLists
    <2>3. allArray' \in Seq(Spots)
      BY <2>1, <2>2 DEF TypesInv, TypeOK
    <2>4. DOMAIN spotsList' \subseteq Genres
          /\ \A g \in DOMAIN spotsList' : spotsList'[g] \in Seq(Spots)
      BY <2>1, <2>2 DEF TypesInv, TypeOK
    <2>5. [kind |-> "reloadSpots"] \in Blocks
      BY DEF Blocks
    <2>6. mainQ' = Append(Tail(mainQ), [kind |-> "reloadSpots"])
      BY <1>2, <2>1, <2>5
    <2>7. mainQ' \in Seq(Blocks)
      BY <1>2, <2>5, <2>6
    <2>8. \A i \in DOMAIN mainQ' : mainQ'[i] \in Blocks
      BY <2>7
    <2>9. TypeOK'
      BY <2>1, <2>3, <2>4, <2>8 DEF TypesInv, TypeOK, data, observed
    <2> QED
      BY <1>1, <2>1, <2>6, <2>9, TypesPopPush DEF observed
  <1> QED
    BY <1>4, <1>5

LEMMA TypesRunReloadGenres ==
  ASSUME TypesInv, RunReloadGenres
  PROVE  TypesInv'
  <1>1. mainQ # <<>> /\ mainQ' = Tail(mainQ)
    BY DEF RunReloadGenres, Runs
  <1>2. \A i \in DOMAIN mainQ' : mainQ'[i] \in Blocks
    BY <1>1, PopQueue DEF TypesInv
  <1>3. genreRows' \in 0..Len(genres)
    BY DEF TypesInv, TypeOK, RunReloadGenres
  <1>4. TypeOK'
    BY <1>2, <1>3 DEF TypesInv, TypeOK, RunReloadGenres, data, observed
  <1> QED
    BY <1>1, <1>4, TypesPop DEF RunReloadGenres, observed

\* What a reload of the spot table leaves.
LEMMA CountsRows ==
  ASSUME TypesInv, NEW sel, CountRows(sel)
  PROVE  spotRows' \in Nat /\ crashed' \in {crashed, "genreRows"}
  <1>1. Len(allArray) \in Nat /\ \A g \in DOMAIN spotsList : Len(spotsList[g]) \in Nat
    BY DEF TypesInv, TypeOK
  <1>2. spotRows \in Nat
    BY DEF TypesInv, TypeOK
  <1> QED
    BY <1>1, <1>2 DEF CountRows

LEMMA TypesRunReloadSpots ==
  ASSUME TypesInv, RunReloadSpots
  PROVE  TypesInv'
  <1>1. mainQ # <<>> /\ mainQ' = Tail(mainQ)
    BY DEF RunReloadSpots, Runs
  <1>2. \A i \in DOMAIN mainQ' : mainQ'[i] \in Blocks
    BY <1>1, PopQueue DEF TypesInv
  <1>3. spotRows' \in Nat /\ crashed' \in {crashed, "genreRows"}
    BY CountsRows DEF RunReloadSpots
  <1>4. TypeOK'
    BY <1>2, <1>3 DEF TypesInv, TypeOK, RunReloadSpots, data, observed
  <1> QED
    BY <1>1, <1>4, TypesPop DEF RunReloadSpots, observed

LEMMA TypesSelectGenre ==
  ASSUME TypesInv, NEW i \in 1..genreRows, SelectGenre(i)
  PROVE  TypesInv'
  <1>1. spotRows' \in Nat /\ crashed' \in {crashed, "genreRows"}
    BY CountsRows DEF SelectGenre
  <1>2. genres[i] \in Genres
    BY DEF TypesInv, TypeOK
  <1>3. selected' \in Records
    BY <1>2 DEF SelectGenre, Records
  <1>4. TypeOK'
    BY <1>1, <1>3 DEF TypesInv, TypeOK, SelectGenre, data, observed
  <1> QED
    BY <1>4, TypesElsewhere DEF SelectGenre, observed

LEMMA TypesTouchRow ==
  ASSUME TypesInv, NEW i \in 1..spotRows, TouchRow(i)
  PROVE  TypesInv'
  <1>1. TypeOK'
    BY DEF TypesInv, TypeOK, TouchRow, Crash, data, lists, observed
  <1> QED
    BY <1>1, TypesElsewhere DEF TouchRow, Crash, observed

LEMMA TypesStep == TypesInv /\ [Next]_vars => TypesInv'
  <1> SUFFICES ASSUME TypesInv, [Next]_vars
               PROVE  TypesInv'
    OBVIOUS
  <1>1. ASSUME NEW g \in Genres, NEW c \in Colors, SaveGenre(g, c) PROVE TypesInv'
    BY <1>1, TypesSaveGenre
  <1>2. ASSUME NEW s \in Spots, SaveSpot(s) PROVE TypesInv'
    BY <1>2, TypesSaveSpot
  <1>3. CASE Leave
    BY <1>3, TypesLeave
  <1>4. CASE Appear
    BY <1>4, TypesAppear
  <1>5. ASSUME NEW q \in queries, Answer(q) PROVE TypesInv'
    BY <1>5, TypesAnswer
  <1>6. ASSUME NEW q \in queries, Fail(q) PROVE TypesInv'
    BY <1>6, TypesFail
  <1>7. CASE MainQueue
    BY <1>7, TypesRunDropdown, TypesRunGenres, TypesRunSpots, TypesRunReloadGenres,
       TypesRunReloadSpots DEF MainQueue
  <1>8. ASSUME NEW i \in 1..genreRows, SelectGenre(i) PROVE TypesInv'
    BY <1>8, TypesSelectGenre
  <1>9. ASSUME NEW i \in 1..spotRows, TouchRow(i) PROVE TypesInv'
    BY <1>9, TypesTouchRow
  <1>10. CASE UNCHANGED vars
    <2>1. TypeOK'
      BY <1>10 DEF TypesInv, TypeOK, vars, data, lists, observed
    <2> QED
      BY <1>10, <2>1, TypesElsewhere DEF vars, observed
  <1> QED
    BY <1>1, <1>2, <1>3, <1>4, <1>5, <1>6, <1>7, <1>8, <1>9, <1>10 DEF Next

LEMMA TypesAlways == Spec => []TypesInv
  BY TypesInit, TypesStep, PTL DEF Spec

\* The lists, the queries and the blocks of the main queue are what their
\* names say, and the rows of the dropdown never outnumber its genres.
THEOREM TypeCorrect == Spec => []TypeOK
  <1>1. TypesInv => TypeOK
    BY DEF TypesInv
  <1> QED
    BY <1>1, TypesAlways, PTL

-----------------------------------------------------------------------------
(* What each step does to the work under way.                                *)

LEMMA WorkKept ==
  ASSUME UNCHANGED <<queries, mainQ>>
  PROVE  Queued' = Queued /\ Work' = Work
  BY DEF Queued, Work

LEMMA WorkAppear ==
  ASSUME Appear
  PROVE  /\ Queued' = Queued
         /\ Work' = Work \cup {[kind |-> "genres", load |-> loads'],
                               [kind |-> "dropdown", load |-> loads']}
         /\ \E n \in Work' : n.kind = "genres" /\ n.load = loads'
         /\ Work \subseteq Work'
  <1> DEFINE n == [kind |-> "genres", load |-> loads']
             m == [kind |-> "dropdown", load |-> loads']
  <1>1. n.kind = "genres" /\ n.load = loads'
    OBVIOUS
  <1>2. Queued' = Queued /\ queries' = queries \cup {n, m}
    BY DEF Appear, AppearWith, Queued
  <1> HIDE DEF n, m
  <1>3. Work' = Work \cup {n, m}
    BY <1>2 DEF Work
  <1> QED
    BY <1>1, <1>2, <1>3 DEF n, m

LEMMA WorkAnswer ==
  ASSUME TypesInv, NEW q \in queries, Answer(q)
  PROVE  /\ q \in Work /\ q.kind \in {"dropdown", "genres", "spots"}
         /\ \E b \in Blocks :
              /\ b.kind = q.kind /\ b.load = q.load
              /\ b.docs = IF q.kind = "spots"
                            THEN {<<s, spotDocs[s]>> : s \in DOMAIN spotDocs}
                            ELSE genreDocs
              /\ mainQ' = Append(mainQ, b)
              /\ Queued' = Queued \cup {b}
              /\ b \in Work' /\ Work' \subseteq Work \cup {b}
              /\ Work \subseteq Work' \cup {q}
  <1> DEFINE b == [kind |-> q.kind, load |-> q.load,
                   docs |-> IF q.kind = "spots"
                              THEN {<<s, spotDocs[s]>> : s \in DOMAIN spotDocs}
                              ELSE genreDocs]
  <1>1. /\ q.kind \in {"dropdown", "genres", "spots"} /\ q.load \in 1..MaxLoads
        /\ q \in Work
    BY DEF TypesInv, TypeOK, Queries, Work
  <1>2. {<<s, spotDocs[s]>> : s \in DOMAIN spotDocs} \subseteq Spots \X Records
    BY DEF TypesInv, TypeOK
  <1>3. b \in Blocks
    BY <1>1, <1>2 DEF Blocks, TypesInv, TypeOK
  <1>4. /\ b.kind = q.kind /\ b.load = q.load
        /\ b.docs = IF q.kind = "spots"
                      THEN {<<s, spotDocs[s]>> : s \in DOMAIN spotDocs}
                      ELSE genreDocs
    OBVIOUS
  <1>5. mainQ' = Append(mainQ, b) /\ queries' = queries \ {q}
    BY DEF Answer
  <1> HIDE DEF b
  <1>6. mainQ' \in Seq(Blocks) /\ Queued' = Queued \cup {b}
    BY <1>3, <1>5, PushWork DEF TypesInv, Queued
  <1>7. b \in Work' /\ Work' \subseteq Work \cup {b} /\ Work \subseteq Work' \cup {q}
    BY <1>5, <1>6 DEF Work
  <1> QED
    BY <1>1, <1>3, <1>4, <1>5, <1>6, <1>7

LEMMA WorkFail ==
  ASSUME NEW q \in queries, Fail(q)
  PROVE  Queued' = Queued /\ Work' \subseteq Work
  BY DEF Fail, Queued, Work

\* A callback or a reload that only leaves the main queue.
LEMMA WorkPop ==
  ASSUME TypesInv, mainQ # <<>>, mainQ' = Tail(mainQ), queries \subseteq queries'
  PROVE  /\ Queued' \subseteq Queued /\ Work \subseteq Work' \cup {Head(mainQ)}
         /\ Head(mainQ) \in Blocks /\ Head(mainQ) \in Queued /\ Head(mainQ) \in Work
  BY PopQueue, PopWork DEF TypesInv, Work

\* One that dispatches a reload.
LEMMA WorkPopPush ==
  ASSUME TypesInv, mainQ # <<>>, NEW k \in {"reloadGenres", "reloadSpots"},
         mainQ' = Append(Tail(mainQ), [kind |-> k]), queries' = queries
  PROVE  /\ Queued' \subseteq Queued \cup {[kind |-> k]} /\ [kind |-> k] \in Queued'
         /\ [kind |-> k] \in Work' /\ Work' \subseteq Work \cup {[kind |-> k]}
         /\ Work \subseteq Work' \cup {Head(mainQ)}
         /\ Head(mainQ) \in Blocks /\ Head(mainQ) \in Queued /\ Head(mainQ) \in Work
  <1> DEFINE b == [kind |-> k]
  <1>1. b \in Blocks
    BY DEF Blocks
  <1>2. mainQ' = Append(Tail(mainQ), b)
    OBVIOUS
  <1> HIDE DEF b
  <1>3. Queued' \subseteq Queued \cup {b} /\ Queued \subseteq Queued' \cup {Head(mainQ)}
        /\ b \in Queued'
    BY <1>1, <1>2, PopPushWork DEF TypesInv
  <1>4. Work' \subseteq Work \cup {b} /\ Work \subseteq Work' \cup {Head(mainQ)}
        /\ b \in Work'
    BY <1>3 DEF Work
  <1>5. Head(mainQ) \in Blocks /\ Head(mainQ) \in Queued /\ Head(mainQ) \in Work
    BY PopQueue DEF TypesInv, Work
  <1> QED
    BY <1>3, <1>4, <1>5 DEF b

LEMMA WorkDropdown ==
  ASSUME TypesInv, RunDropdown
  PROVE  /\ Head(mainQ).kind = "dropdown"
         /\ Head(mainQ) \in Queued /\ Head(mainQ) \in Work
         /\ Head(mainQ).docs \in SUBSET GenreDocs /\ IsFiniteSet(Head(mainQ).docs)
         /\ Queued' \subseteq Queued \cup {[kind |-> "reloadGenres"]}
         /\ Work' \subseteq Work \cup {[kind |-> "reloadGenres"]}
         /\ Work \subseteq Work' \cup {Head(mainQ)}
  <1>1. mainQ # <<>> /\ Head(mainQ).kind = "dropdown"
    BY DEF RunDropdown, Runs
  <1>2. mainQ' = Append(Tail(mainQ), [kind |-> "reloadGenres"]) /\ queries' = queries
    BY DEF RunDropdown
  <1>3. /\ Queued' \subseteq Queued \cup {[kind |-> "reloadGenres"]}
        /\ Work' \subseteq Work \cup {[kind |-> "reloadGenres"]}
        /\ Work \subseteq Work' \cup {Head(mainQ)}
        /\ Head(mainQ) \in Blocks /\ Head(mainQ) \in Queued /\ Head(mainQ) \in Work
    BY <1>1, <1>2, WorkPopPush
  <1>4. Head(mainQ).docs \in SUBSET GenreDocs /\ IsFiniteSet(Head(mainQ).docs)
    BY <1>1, <1>3, BlockFields DEF TypesInv
  <1> QED
    BY <1>1, <1>3, <1>4

LEMMA WorkGenres ==
  ASSUME TypesInv, RunGenres
  PROVE  LET h == Head(mainQ)
             n == [kind |-> "spots", load |-> h.load]
             found == {d.name : d \in h.docs}
         IN  /\ mainQ # <<>> /\ mainQ' = Tail(mainQ)
             /\ h.kind = "genres" /\ h \in Queued /\ h \in Work
             /\ h.docs \in SUBSET GenreDocs
             /\ Queued' \subseteq Queued /\ Work \subseteq Work' \cup {h}
             /\ \/ /\ Crash("genreColor")
                   /\ Work' \subseteq Work
                \/ /\ colors' = colors \cup found
                   /\ spotsList' = [g \in DOMAIN spotsList \cup found |->
                                      IF g \in found THEN <<>> ELSE spotsList[g]]
                   /\ queries' = queries \cup {n}
                   /\ n \in Work' /\ Work' \subseteq Work \cup {n}
                   /\ UNCHANGED <<data, onScreen, genres, genreRows, allArray,
                                  selected, spotRows, crashed, observed>>
  <1> DEFINE h == Head(mainQ)
             n == [kind |-> "spots", load |-> h.load]
             found == {d.name : d \in h.docs}
  <1>1. mainQ # <<>> /\ h.kind = "genres" /\ mainQ' = Tail(mainQ)
    BY DEF RunGenres, RunGenresIssuing, Runs
  <1>2. queries' = queries \/ queries' = queries \cup {n}
    BY DEF RunGenres, RunGenresIssuing, Crash
  <1>3. /\ Queued' \subseteq Queued /\ Work \subseteq Work' \cup {h}
        /\ h \in Blocks /\ h \in Queued /\ h \in Work
    BY <1>1, <1>2, WorkPop
  <1>4. \/ Crash("genreColor")
        \/ /\ colors' = colors \cup found
           /\ spotsList' = [g \in DOMAIN spotsList \cup found |->
                              IF g \in found THEN <<>> ELSE spotsList[g]]
           /\ queries' = queries \cup {n}
           /\ UNCHANGED <<data, onScreen, genres, genreRows, allArray,
                          selected, spotRows, crashed, observed>>
    BY DEF RunGenres, RunGenresIssuing
  <1> HIDE DEF h
  <1>5. h.docs \in SUBSET GenreDocs
    BY <1>1, <1>3, BlockFields
  <1> HIDE DEF n, found
  <1>6. queries' = queries => Work' \subseteq Work
    BY <1>3 DEF Work
  <1>7. queries' = queries \cup {n} => n \in Work' /\ Work' \subseteq Work \cup {n}
    BY <1>3 DEF Work
  <1>8. Crash("genreColor") => queries' = queries
    BY DEF Crash
  <1> QED
    BY <1>1, <1>3, <1>4, <1>5, <1>6, <1>7, <1>8 DEF h, n, found

LEMMA WorkSpots ==
  ASSUME TypesInv, RunSpots
  PROVE  LET h == Head(mainQ)
         IN  /\ mainQ # <<>>
             /\ h.kind = "spots" /\ h \in Queued /\ h \in Work
             /\ h.docs \in SUBSET (Spots \X Records)
             /\ Work \subseteq Work' \cup {h}
             /\ \/ /\ Crash("spotColor")
                   /\ \E d \in h.docs : d[2] \notin colors
                   /\ Queued' \subseteq Queued /\ Work' \subseteq Work
                   /\ mainQ' = Tail(mainQ)
                \/ /\ spotsList' = [g \in DOMAIN spotsList |->
                                      spotsList[g] \o InOrder(h.docs, {g})]
                   /\ allArray' = allArray \o InOrder(h.docs, Records)
                   /\ mainQ' = Append(Tail(mainQ), [kind |-> "reloadSpots"])
                   /\ Queued' \subseteq Queued \cup {[kind |-> "reloadSpots"]}
                   /\ [kind |-> "reloadSpots"] \in Work'
                   /\ Work' \subseteq Work \cup {[kind |-> "reloadSpots"]}
                   /\ UNCHANGED <<data, onScreen, genres, genreRows, colors,
                                  selected, spotRows, queries, crashed, observed>>
  <1> DEFINE h == Head(mainQ)
             r == [kind |-> "reloadSpots"]
  <1>1. mainQ # <<>> /\ h.kind = "spots"
    BY DEF RunSpots, RunSpotsWith, Runs
  <1>2. /\ h \in Blocks /\ h \in Queued /\ h \in Work
        /\ Tail(mainQ) \in Seq(Blocks)
    BY <1>1, PopQueue DEF TypesInv, Work
  <1>3. r \in Blocks
    BY DEF Blocks
  <1>4. \/ /\ Crash("spotColor") /\ mainQ' = Tail(mainQ)
           /\ \E d \in h.docs : d[2] \notin colors
        \/ /\ spotsList' = [g \in DOMAIN spotsList |->
                              spotsList[g] \o InOrder(h.docs, {g})]
           /\ allArray' = allArray \o InOrder(h.docs, Records)
           /\ mainQ' = Tail(mainQ) \o <<r>>
           /\ UNCHANGED <<data, onScreen, genres, genreRows, colors,
                          selected, spotRows, queries, crashed, observed>>
    BY DEF RunSpots, RunSpotsWith, WithSpots
  <1> HIDE DEF h
  <1>5. h.docs \in SUBSET (Spots \X Records)
    BY <1>1, <1>2, BlockFields
  <1>6. CASE Crash("spotColor") /\ mainQ' = Tail(mainQ)
             /\ \E d \in h.docs : d[2] \notin colors
    <2>1. queries' = queries
      BY <1>6 DEF Crash
    <2>2. Queued' \subseteq Queued /\ Work \subseteq Work' \cup {h}
      BY <1>1, <1>6, <2>1, WorkPop DEF h
    <2>3. Work' \subseteq Work
      BY <2>1, <2>2 DEF Work
    <2> QED
      BY <1>1, <1>2, <1>5, <1>6, <2>2, <2>3 DEF h
  <1>7. CASE /\ spotsList' = [g \in DOMAIN spotsList |->
                                spotsList[g] \o InOrder(h.docs, {g})]
             /\ allArray' = allArray \o InOrder(h.docs, Records)
             /\ mainQ' = Tail(mainQ) \o <<r>>
             /\ UNCHANGED <<data, onScreen, genres, genreRows, colors,
                            selected, spotRows, queries, crashed, observed>>
    <2>1. mainQ' = Append(Tail(mainQ), r)
      BY <1>2, <1>3, <1>7
    <2>2. /\ Queued' \subseteq Queued \cup {r}
          /\ r \in Work' /\ Work' \subseteq Work \cup {r}
          /\ Work \subseteq Work' \cup {h}
      BY <1>1, <1>7, <2>1, WorkPopPush DEF h
    <2> QED
      BY <1>1, <1>2, <1>5, <1>7, <2>1, <2>2 DEF h
  <1> QED
    BY <1>4, <1>6, <1>7

LEMMA WorkReload ==
  ASSUME TypesInv, RunReloadGenres \/ RunReloadSpots
  PROVE  /\ mainQ # <<>> /\ mainQ' = Tail(mainQ)
         /\ RunReloadGenres => Head(mainQ).kind = "reloadGenres"
         /\ RunReloadSpots => Head(mainQ).kind = "reloadSpots"
         /\ Head(mainQ).kind \in {"reloadGenres", "reloadSpots"}
         /\ Queued' \subseteq Queued /\ Work' \subseteq Work
         /\ Work \subseteq Work' \cup {Head(mainQ)}
  <1>1. /\ mainQ # <<>> /\ mainQ' = Tail(mainQ) /\ queries' = queries
        /\ RunReloadGenres => Head(mainQ).kind = "reloadGenres"
        /\ RunReloadSpots => Head(mainQ).kind = "reloadSpots"
    BY DEF RunReloadGenres, RunReloadSpots, Runs
  <1>2. Queued' \subseteq Queued /\ Work \subseteq Work' \cup {Head(mainQ)}
    BY <1>1, WorkPop
  <1> QED
    BY <1>1, <1>2 DEF Work

-----------------------------------------------------------------------------
(* The rows of the spot table.                                               *)

DropdownAwaited == \E w \in Work : w.kind = "dropdown"
GenresAwaited == \E w \in Work : w.kind = "genres"
SpotsAwaited == \E w \in Work : w.kind = "spots"
ReloadAwaited == \E w \in Work : w.kind = "reloadSpots"

\* Until the table's rows are those of its list, the reload that makes them so
\* is still to come: each stage of a load issues the next one.
RowsInv ==
  \/ failed
  \/ crashed # "no"
  \/ loads = 0
  \/ GenresAwaited
  \/ SpotsAwaited
  \/ ReloadAwaited
  \/ spotRows = Len(Current)

LEMMA RowsKept ==
  ASSUME RowsInv, UNCHANGED <<allArray, spotsList, selected, spotRows, failed, crashed, loads>>,
         \A w \in Work : w.kind \in {"genres", "spots", "reloadSpots"} =>
           \E v \in Work' : v.kind = w.kind
  PROVE  RowsInv'
  <1>1. Current' = Current
    BY DEF Current
  <1>2. /\ GenresAwaited => GenresAwaited'
        /\ SpotsAwaited => SpotsAwaited'
        /\ ReloadAwaited => ReloadAwaited'
    BY DEF GenresAwaited, SpotsAwaited, ReloadAwaited
  <1> QED
    BY <1>1, <1>2 DEF RowsInv

LEMMA RowsStep == TypesInv /\ RowsInv /\ [Next]_vars => RowsInv'
  <1> SUFFICES ASSUME TypesInv, RowsInv, [Next]_vars
               PROVE  RowsInv'
    OBVIOUS
  <1>1. ASSUME NEW g \in Genres, NEW c \in Colors, SaveGenre(g, c) PROVE RowsInv'
    BY <1>1, RowsKept, WorkKept DEF SaveGenre, lists
  <1>2. ASSUME NEW s \in Spots, SaveSpot(s) PROVE RowsInv'
    BY <1>2, RowsKept, WorkKept DEF SaveSpot, lists
  <1>3. CASE Leave
    BY <1>3, RowsKept, WorkKept DEF Leave, lists, observed
  <1>4. CASE Appear
    <2>1. GenresAwaited'
      BY <1>4, WorkAppear DEF GenresAwaited
    <2> QED
      BY <2>1 DEF RowsInv
  <1>5. ASSUME NEW q \in queries, Answer(q) PROVE RowsInv'
    <2>1. PICK b \in Work' : b.kind = q.kind /\ Work \subseteq Work' \cup {q}
      BY <1>5, WorkAnswer
    <2> QED
      BY <1>5, <2>1, RowsKept DEF Answer, lists, observed
  <1>6. ASSUME NEW q \in queries, Fail(q) PROVE RowsInv'
    BY <1>6 DEF RowsInv, Fail
  <1>7. CASE RunDropdown
    BY <1>7, WorkDropdown, RowsKept DEF RunDropdown, observed
  <1>8. CASE RunGenres
    <2>1. crashed' = "genreColor" \/ \E n \in Work' : n.kind = "spots"
      BY <1>8, WorkGenres DEF Crash
    <2> QED
      BY <2>1 DEF RowsInv, SpotsAwaited
  <1>9. CASE RunSpots
    <2>1. crashed' = "spotColor" \/ \E n \in Work' : n.kind = "reloadSpots"
      BY <1>9, WorkSpots DEF Crash
    <2> QED
      BY <2>1 DEF RowsInv, ReloadAwaited
  <1>10. CASE RunReloadGenres
    BY <1>10, WorkReload, RowsKept DEF RunReloadGenres, observed
  <1>11. ASSUME RunReloadSpots \/ \E i \in 1..genreRows : SelectGenre(i)
         PROVE  RowsInv'
    <2>1. CountRows(selected') /\ UNCHANGED <<allArray, spotsList>>
      BY <1>11 DEF RunReloadSpots, SelectGenre
    <2>2. crashed' = "genreRows" \/ spotRows' = Len(Current')
      BY <2>1 DEF CountRows, Current
    <2> QED
      BY <2>2 DEF RowsInv
  <1>12. ASSUME NEW i \in 1..spotRows, TouchRow(i) PROVE RowsInv'
    BY <1>12 DEF RowsInv, TouchRow, Crash
  <1>13. CASE UNCHANGED vars
    BY <1>13, RowsKept, WorkKept DEF vars, lists, observed
  <1> QED
    BY <1>1, <1>2, <1>3, <1>4, <1>5, <1>6, <1>7, <1>8, <1>9, <1>10, <1>11, <1>12, <1>13
    DEF Next, MainQueue

\* Once a load has ended well, the spot table has as many rows as the list
\* behind it: no row it shows can be a stale index.
THEOREM RowsAreThoseOfTheList == Spec => []RowsMatchList
  <1>1. Init => RowsInv
    BY DEF Init, RowsInv
  <1>2. TypesInv /\ RowsInv => RowsMatchList
    <2>1. SUFFICES ASSUME TypesInv, RowsInv, Quiet
                   PROVE  ~GenresAwaited /\ ~SpotsAwaited /\ ~ReloadAwaited
      BY DEF RowsMatchList, RowsInv, TypesInv, TypeOK
    <2>2. Work = {}
      BY <2>1 DEF Quiet, Work, Queued
    <2> QED
      BY <2>2 DEF GenresAwaited, SpotsAwaited, ReloadAwaited
  <1> QED
    BY <1>1, <1>2, TypesAlways, RowsStep, PTL DEF Spec

-----------------------------------------------------------------------------
(* The snapshots that wait on the main queue.                                *)

\* A snapshot only holds documents there are; while no save has raced a load it
\* holds all of them; and one of the latest load's spots has those expected.
SnapInv ==
  /\ \A b \in Queued : b.kind \in {"dropdown", "genres"} =>
       b.docs \subseteq genreDocs /\ (~raced => b.docs = genreDocs)
  /\ \A b \in Queued : b.kind = "spots" =>
       /\ ~raced => b.docs = {<<s, spotDocs[s]>> : s \in DOMAIN spotDocs}
       /\ b.load = loads => expected \subseteq {d[1] : d \in b.docs}
  /\ expected \subseteq DOMAIN spotDocs

LEMMA SnapInit == Init => SnapInv
  <1>1. SUFFICES ASSUME Init PROVE SnapInv
    OBVIOUS
  <1>2. Queued = {} /\ expected = {}
    BY <1>1 DEF Init, Queued
  <1> QED
    BY <1>2 DEF SnapInv

\* A step that saves nothing and snaps nothing.
LEMMA SnapKept ==
  ASSUME SnapInv, UNCHANGED <<data, raced, loads, expected>>,
         \A b \in Queued' : b \in Queued \/ b.kind \in {"reloadGenres", "reloadSpots"}
  PROVE  SnapInv'
  BY DEF SnapInv, data

LEMMA SnapSave ==
  ASSUME SnapInv, UNCHANGED <<queries, mainQ, loads, expected>>,
         genreDocs \subseteq genreDocs', DOMAIN spotDocs \subseteq DOMAIN spotDocs',
         raced' = (raced \/ ~Quiet)
  PROVE  SnapInv'
  <1>1. Queued' = Queued
    BY WorkKept
  <1>2. Queued # {} => raced'
    <2>1. Quiet => Queued = {}
      BY DEF Quiet, Queued
    <2> QED
      BY <2>1, Zenon
  <1> QED
    BY <1>1, <1>2 DEF SnapInv

LEMMA SnapStep == TypesInv /\ SnapInv /\ [Next]_vars => SnapInv'
  <1> SUFFICES ASSUME TypesInv, SnapInv, [Next]_vars
               PROVE  SnapInv'
    OBVIOUS
  <1>1. ASSUME NEW g \in Genres, NEW c \in Colors, SaveGenre(g, c) PROVE SnapInv'
    BY <1>1, SnapSave DEF SaveGenre
  <1>2. ASSUME NEW s \in Spots, SaveSpot(s) PROVE SnapInv'
    <2>1. DOMAIN spotDocs \subseteq DOMAIN spotDocs'
      BY <1>2 DEF SaveSpot
    <2> QED
      BY <1>2, <2>1, SnapSave DEF SaveSpot
  <1>3. CASE Leave
    BY <1>3, SnapKept, WorkKept DEF Leave, observed
  <1>4. CASE Appear
    <2>1. Queued' = Queued /\ expected' = DOMAIN spotDocs /\ UNCHANGED <<data, raced>>
      BY <1>4, WorkAppear DEF Appear, AppearWith
    <2>2. loads \in Nat /\ loads' = loads + 1
      BY <1>4, LoadAssumption DEF Appear, AppearWith, TypesInv, TypeOK
    <2>3. \A b \in Queued : b.kind = "spots" => b.load # loads'
      BY <2>2 DEF TypesInv, Work
    <2> QED
      BY <2>1, <2>3 DEF SnapInv, data
  <1>5. ASSUME NEW q \in queries, Answer(q) PROVE SnapInv'
    <2>1. PICK b \in Blocks :
            /\ b.kind = q.kind
            /\ b.docs = IF q.kind = "spots"
                          THEN {<<s, spotDocs[s]>> : s \in DOMAIN spotDocs}
                          ELSE genreDocs
            /\ Queued' = Queued \cup {b}
      BY <1>5, WorkAnswer
    <2>2. UNCHANGED <<data, raced, loads, expected>>
      BY <1>5 DEF Answer, observed
    <2>3. ASSUME b.kind = "spots"
          PROVE  expected \subseteq {d[1] : d \in b.docs}
      <3>1. ASSUME NEW s \in expected
            PROVE  s \in {d[1] : d \in b.docs}
        <4>1. s \in DOMAIN spotDocs
          BY <3>1 DEF SnapInv
        <4>2. <<s, spotDocs[s]>> \in b.docs
          BY <2>1, <2>3, <4>1
        <4>3. <<s, spotDocs[s]>>[1] = s
          OBVIOUS
        <4> QED
          BY <4>2, <4>3
      <3> QED
        BY <3>1
    <2>4. b.kind # "spots" => b.docs = genreDocs
      BY <2>1
    <2>5. b.kind = "spots" => b.docs = {<<s, spotDocs[s]>> : s \in DOMAIN spotDocs}
      BY <2>1
    <2> QED
      BY <2>1, <2>2, <2>3, <2>4, <2>5 DEF SnapInv, data
  <1>6. ASSUME NEW q \in queries, Fail(q) PROVE SnapInv'
    BY <1>6, WorkFail, SnapKept DEF Fail
  <1>7. CASE RunDropdown
    BY <1>7, WorkDropdown, SnapKept DEF RunDropdown, observed
  <1>8. CASE RunGenres
    BY <1>8, WorkGenres, SnapKept DEF Crash, observed
  <1>9. CASE RunSpots
    BY <1>9, WorkSpots, SnapKept DEF Crash, observed
  <1>10. CASE RunReloadGenres \/ RunReloadSpots
    BY <1>10, WorkReload, SnapKept DEF RunReloadGenres, RunReloadSpots, observed
  <1>11. ASSUME NEW i \in 1..genreRows, SelectGenre(i) PROVE SnapInv'
    BY <1>11, WorkKept, SnapKept DEF SelectGenre, observed
  <1>12. ASSUME NEW i \in 1..spotRows, TouchRow(i) PROVE SnapInv'
    BY <1>12, WorkKept, SnapKept DEF TouchRow, Crash, observed
  <1>13. CASE UNCHANGED vars
    BY <1>13, WorkKept, SnapKept DEF vars, observed
  <1> QED
    BY <1>1, <1>2, <1>3, <1>4, <1>5, <1>6, <1>7, <1>8, <1>9, <1>10, <1>11, <1>12, <1>13
    DEF Next, MainQueue

-----------------------------------------------------------------------------
(* The colours of the spots.                                                 *)

Names == {d.name : d \in genreDocs}

\* The spots are only fetched when the genres' colours are known.
ColorInv ==
  /\ raced \/ ~SpotsAwaited \/ Names \subseteq colors
  /\ ColorlessSpotsAreStray

LEMMA ColorKept ==
  ASSUME ColorInv, UNCHANGED <<genreDocs, raced>>, colors \subseteq colors',
         crashed' # "spotColor",
         \A w \in Work' : w.kind = "spots" => \E v \in Work : v.kind = "spots"
  PROVE  ColorInv'
  <1>1. Names' = Names
    BY DEF Names
  <1>2. SpotsAwaited' => SpotsAwaited
    BY DEF SpotsAwaited
  <1>3. raced' \/ ~SpotsAwaited' \/ Names' \subseteq colors'
    BY <1>1, <1>2 DEF ColorInv
  <1> QED
    BY <1>3 DEF ColorInv, ColorlessSpotsAreStray

\* A save while a load is under way races it.
LEMMA ColorSave ==
  ASSUME UNCHANGED <<queries, mainQ>>, crashed' = "no", raced' = (raced \/ ~Quiet)
  PROVE  ColorInv'
  <1>1. Work' = Work
    BY WorkKept
  <1>2. Quiet => Work = {}
    BY DEF Quiet, Work, Queued
  <1>3. SpotsAwaited' => ~Quiet
    BY <1>1, <1>2 DEF SpotsAwaited
  <1>4. raced' \/ ~SpotsAwaited'
    BY <1>3, Zenon
  <1> QED
    BY <1>4 DEF ColorInv, ColorlessSpotsAreStray

LEMMA ColorStep == TypesInv /\ SnapInv /\ ColorInv /\ [Next]_vars => ColorInv'
  <1> SUFFICES ASSUME TypesInv, SnapInv, ColorInv, [Next]_vars
               PROVE  ColorInv'
    OBVIOUS
  <1>1. ASSUME NEW g \in Genres, NEW c \in Colors, SaveGenre(g, c) PROVE ColorInv'
    BY <1>1, ColorSave DEF SaveGenre
  <1>2. ASSUME NEW s \in Spots, SaveSpot(s) PROVE ColorInv'
    BY <1>2, ColorSave DEF SaveSpot
  <1>3. CASE Leave
    BY <1>3, ColorKept, WorkKept DEF Leave, data, lists, observed
  <1>4. CASE Appear
    <2>1. \A w \in Work' : w.kind = "spots" => w \in Work
      BY <1>4, WorkAppear
    <2> QED
      BY <1>4, <2>1, ColorKept DEF Appear, AppearWith, data
  <1>5. ASSUME NEW q \in queries, Answer(q) PROVE ColorInv'
    <2>1. /\ q \in Work
          /\ \E b \in Blocks : b.kind = q.kind /\ Work' \subseteq Work \cup {b}
      BY <1>5, WorkAnswer
    <2>2. \A w \in Work' : w.kind = "spots" => \E v \in Work : v.kind = "spots"
      BY <2>1
    <2> QED
      BY <1>5, <2>2, ColorKept DEF Answer, data, lists, observed
  <1>6. ASSUME NEW q \in queries, Fail(q) PROVE ColorInv'
    BY <1>6, WorkFail, ColorKept DEF Fail, data, lists
  <1>7. CASE RunDropdown
    <2>1. \A w \in Work' : w.kind = "spots" => w \in Work
      BY <1>7, WorkDropdown
    <2> QED
      BY <1>7, <2>1, ColorKept DEF RunDropdown, Runs, data, observed
  <1>8. CASE RunGenres
    <2> DEFINE h == Head(mainQ)
    <2>1. crashed = "no" /\ h.kind = "genres" /\ h \in Queued
      BY <1>8, WorkGenres DEF RunGenres, RunGenresIssuing, Runs
    <2>2. CASE Crash("genreColor")
      <3>1. Work' \subseteq Work
        BY <1>8, <2>1, <2>2, WorkGenres DEF Crash
      <3> QED
        BY <2>2, <3>1, ColorKept DEF Crash, data, lists, observed
    <2>3. CASE ~Crash("genreColor")
      <3>1. /\ colors' = colors \cup {d.name : d \in h.docs}
            /\ UNCHANGED <<data, crashed, observed>>
        BY <1>8, <2>3, WorkGenres
      <3>2. ~raced => h.docs = genreDocs
        BY <2>1 DEF SnapInv
      <3>3. ~raced => Names' \subseteq colors'
        BY <3>1, <3>2 DEF Names, data
      <3> QED
        BY <2>1, <3>1, <3>3 DEF ColorInv, ColorlessSpotsAreStray, observed
    <2> QED
      BY <2>2, <2>3
  <1>9. CASE RunSpots
    <2> DEFINE h == Head(mainQ)
    <2>1. h.kind = "spots" /\ h \in Queued /\ h \in Work /\ crashed = "no"
      BY <1>9, WorkSpots DEF RunSpots, RunSpotsWith, Runs
    <2>2. raced \/ Names \subseteq colors
      BY <2>1 DEF ColorInv, SpotsAwaited
    <2>3. CASE Crash("spotColor") /\ \E d \in h.docs : d[2] \notin colors
      <3>1. UNCHANGED <<data, colors, raced>>
        BY <2>3 DEF Crash, lists, observed
      <3>2. ASSUME ~raced
            PROVE  \E s \in DOMAIN spotDocs : \A d \in genreDocs : d.name # spotDocs[s]
        <4>1. h.docs = {<<s, spotDocs[s]>> : s \in DOMAIN spotDocs}
          BY <2>1, <3>2 DEF SnapInv
        <4>2. PICK s \in DOMAIN spotDocs : <<s, spotDocs[s]>>[2] \notin colors
          BY <2>3, <4>1
        <4>3. spotDocs[s] \notin Names
          BY <2>2, <3>2, <4>2
        <4> QED
          BY <4>3 DEF Names
      <3>3. ColorlessSpotsAreStray'
        BY <3>1, <3>2 DEF ColorlessSpotsAreStray, data
      <3>4. Names' = Names
        BY <3>1 DEF Names, data
      <3> QED
        BY <2>2, <3>1, <3>3, <3>4 DEF ColorInv
    <2>4. CASE ~ (Crash("spotColor") /\ \E d \in h.docs : d[2] \notin colors)
      <3>1. /\ UNCHANGED <<data, colors, crashed, observed>>
            /\ Work' \subseteq Work \cup {[kind |-> "reloadSpots"]}
        BY <1>9, <2>4, WorkSpots
      <3>2. \A w \in Work' : w.kind = "spots" => w \in Work
        BY <3>1
      <3> QED
        BY <2>1, <3>1, <3>2, ColorKept DEF data, observed
    <2> QED
      BY <2>3, <2>4
  <1>10. CASE RunReloadGenres
    BY <1>10, WorkReload, ColorKept DEF RunReloadGenres, Runs, data, observed
  <1>11. CASE RunReloadSpots
    <2>1. crashed' \in {"no", "genreRows"}
      BY <1>11, CountsRows DEF RunReloadSpots, Runs
    <2> QED
      BY <1>11, <2>1, WorkReload, ColorKept DEF RunReloadSpots, data, observed
  <1>12. ASSUME NEW i \in 1..genreRows, SelectGenre(i) PROVE ColorInv'
    <2>1. crashed' \in {"no", "genreRows"}
      BY <1>12, CountsRows DEF SelectGenre
    <2> QED
      BY <1>12, <2>1, WorkKept, ColorKept DEF SelectGenre, data, observed
  <1>13. ASSUME NEW i \in 1..spotRows, TouchRow(i) PROVE ColorInv'
    BY <1>13, WorkKept, ColorKept DEF TouchRow, Crash, data, lists, observed
  <1>14. CASE UNCHANGED vars
    <2>1. /\ Work' = Work /\ Names' = Names
          /\ UNCHANGED <<raced, colors, crashed, spotDocs, genreDocs>>
      BY <1>14, WorkKept DEF vars, data, lists, observed, Names
    <2>2. SpotsAwaited' = SpotsAwaited
      BY <2>1 DEF SpotsAwaited
    <2> QED
      BY <2>1, <2>2 DEF ColorInv, ColorlessSpotsAreStray
  <1> QED
    BY <1>1, <1>2, <1>3, <1>4, <1>5, <1>6, <1>7, <1>8, <1>9, <1>10, <1>11, <1>12, <1>13,
       <1>14 DEF Next, MainQueue

\* color! stops the program only for a spot whose record names no genre the
\* person has, or when something was saved while a load was under way.
THEOREM ColorlessSpots == Spec => []ColorlessSpotsAreStray
  <1>1. Init => ColorInv
    <2>1. SUFFICES ASSUME Init PROVE ColorInv
      OBVIOUS
    <2>2. Work = {}
      BY <2>1 DEF Init, Work, Queued
    <2> QED
      BY <2>1, <2>2 DEF Init, ColorInv, SpotsAwaited, ColorlessSpotsAreStray
  <1>2. ColorInv => ColorlessSpotsAreStray
    BY DEF ColorInv
  <1> QED
    BY <1>1, <1>2, TypesAlways, SnapInit, SnapStep, ColorStep, PTL DEF Spec

-----------------------------------------------------------------------------
(* The spots a load shows.                                                   *)

LoadAwaited == \E w \in Work : w.kind \in {"genres", "spots"} /\ w.load = loads

\* What the tab expects is in its list or in what its latest load still brings.
MissingInv ==
  \/ failed
  \/ crashed # "no"
  \/ LoadAwaited
  \/ expected \subseteq ToSet(allArray)

LEMMA MissingKept ==
  ASSUME MissingInv, UNCHANGED <<failed, crashed, loads, expected>>,
         ToSet(allArray) \subseteq ToSet(allArray'),
         \A w \in Work : w.kind \in {"genres", "spots"} =>
           \E v \in Work' : v.kind \in {"genres", "spots"} /\ v.load = w.load
  PROVE  MissingInv'
  <1>1. LoadAwaited => LoadAwaited'
    BY DEF LoadAwaited
  <1>2. expected \subseteq ToSet(allArray) => expected' \subseteq ToSet(allArray')
    OBVIOUS
  <1>3. expected' \subseteq ToSet(allArray') => MissingInv'
    BY DEF MissingInv, ToSet
  <1> QED
    BY <1>1, <1>2, <1>3 DEF MissingInv

\* The same, for a step that leaves the list alone.
LEMMA MissingElsewhere ==
  ASSUME MissingInv, UNCHANGED <<failed, crashed, loads, expected, allArray>>,
         \A w \in Work : w.kind \in {"genres", "spots"} => w \in Work'
  PROVE  MissingInv'
  <1>1. ToSet(allArray) \subseteq ToSet(allArray')
    OBVIOUS
  <1> QED
    BY <1>1, MissingKept

LEMMA JoinedSets ==
  ASSUME NEW p \in Seq(Spots), NEW q \in Seq(Spots)
  PROVE  ToSet(p) \subseteq ToSet(p \o q) /\ ToSet(q) \subseteq ToSet(p \o q)
  <1>1. /\ Len(p) \in Nat /\ Len(q) \in Nat
        /\ DOMAIN p = 1..Len(p) /\ DOMAIN q = 1..Len(q)
        /\ DOMAIN (p \o q) = 1..Len(p) + Len(q)
        /\ \A i \in 1..Len(p) : (p \o q)[i] = p[i]
        /\ \A i \in 1..Len(q) : (p \o q)[Len(p) + i] = q[i]
    OBVIOUS
  <1>2. ASSUME NEW i \in 1..Len(p)
        PROVE  p[i] \in ToSet(p \o q)
    BY <1>1 DEF ToSet
  <1>3. ASSUME NEW i \in 1..Len(q)
        PROVE  q[i] \in ToSet(p \o q)
    <2>1. Len(p) + i \in 1..Len(p) + Len(q)
      BY <1>1
    <2> QED
      BY <1>1, <2>1 DEF ToSet
  <1> QED
    BY <1>1, <1>2, <1>3 DEF ToSet

LEMMA MissingStep == TypesInv /\ SnapInv /\ MissingInv /\ [Next]_vars => MissingInv'
  <1> SUFFICES ASSUME TypesInv, SnapInv, MissingInv, [Next]_vars
               PROVE  MissingInv'
    OBVIOUS
  <1>1. ASSUME NEW g \in Genres, NEW c \in Colors, SaveGenre(g, c) PROVE MissingInv'
    BY <1>1, WorkKept, MissingElsewhere DEF SaveGenre, lists
  <1>2. ASSUME NEW s \in Spots, SaveSpot(s) PROVE MissingInv'
    BY <1>2, WorkKept, MissingElsewhere DEF SaveSpot, lists
  <1>3. CASE Leave
    BY <1>3, WorkKept, MissingElsewhere DEF Leave, lists, observed
  <1>4. CASE Appear
    <2>1. \E n \in Work' : n.kind = "genres" /\ n.load = loads'
      BY <1>4, WorkAppear
    <2> QED
      BY <2>1 DEF MissingInv, LoadAwaited
  <1>5. ASSUME NEW q \in queries, Answer(q) PROVE MissingInv'
    <2>1. PICK b \in Work' : b.kind = q.kind /\ b.load = q.load /\ Work \subseteq Work' \cup {q}
      BY <1>5, WorkAnswer
    <2>2. \A w \in Work : w.kind \in {"genres", "spots"} =>
            \E v \in Work' : v.kind \in {"genres", "spots"} /\ v.load = w.load
      BY <2>1
    <2>3. UNCHANGED <<failed, crashed, loads, expected, allArray>>
      BY <1>5 DEF Answer, lists, observed
    <2> QED
      BY <2>2, <2>3, MissingKept
  <1>6. ASSUME NEW q \in queries, Fail(q) PROVE MissingInv'
    BY <1>6 DEF MissingInv, Fail
  <1>7. CASE RunDropdown
    <2>1. \A w \in Work : w.kind \in {"genres", "spots"} => w \in Work'
      BY <1>7, WorkDropdown
    <2> QED
      BY <1>7, <2>1, MissingElsewhere DEF RunDropdown, observed
  <1>8. CASE RunGenres
    <2> DEFINE h == Head(mainQ)
               n == [kind |-> "spots", load |-> h.load]
    <2>1. CASE Crash("genreColor")
      BY <2>1 DEF MissingInv, Crash
    <2>2. CASE ~Crash("genreColor")
      <3>1. /\ n \in Work' /\ Work \subseteq Work' \cup {h}
            /\ UNCHANGED <<failed, crashed, loads, expected, allArray>>
        BY <1>8, <2>2, WorkGenres DEF observed
      <3>2. n.kind = "spots" /\ n.load = h.load
        OBVIOUS
      <3> HIDE DEF n, h
      <3>3. \A w \in Work : w.kind \in {"genres", "spots"} =>
              \E v \in Work' : v.kind \in {"genres", "spots"} /\ v.load = w.load
        BY <3>1, <3>2
      <3> QED
        BY <3>1, <3>3, MissingKept
    <2> QED
      BY <2>1, <2>2
  <1>9. CASE RunSpots
    <2> DEFINE h == Head(mainQ)
               order == InOrder(h.docs, Records)
    <2>1. CASE Crash("spotColor")
      BY <2>1 DEF MissingInv, Crash
    <2>2. CASE ~Crash("spotColor")
      <3>1. /\ h.kind = "spots" /\ h \in Queued
            /\ h.docs \in SUBSET (Spots \X Records)
            /\ allArray' = allArray \o order
            /\ Work \subseteq Work' \cup {h}
            /\ UNCHANGED <<failed, crashed, loads, expected>>
        BY <1>9, <2>2, WorkSpots DEF observed
      <3> HIDE DEF h
      <3>2. order \in Seq(Spots)
            /\ ToSet(order) = {d[1] : d \in {e \in h.docs : e[2] \in Records}}
        BY <3>1, InOrderLists
      <3>3. {e \in h.docs : e[2] \in Records} = h.docs
        BY <3>1
      <3>4. ToSet(order) = {d[1] : d \in h.docs}
        BY <3>2, <3>3
      <3> HIDE DEF order
      <3>5. ToSet(allArray) \subseteq ToSet(allArray') /\ ToSet(order) \subseteq ToSet(allArray')
        BY <3>1, <3>2, JoinedSets DEF TypesInv, TypeOK
      <3>6. CASE h.load = loads
        <4>1. expected \subseteq ToSet(order)
          BY <3>1, <3>4, <3>6 DEF SnapInv
        <4>2. expected' \subseteq ToSet(allArray')
          BY <3>1, <3>5, <4>1
        <4> QED
          BY <4>2 DEF MissingInv, ToSet
      <3>7. CASE h.load # loads
        <4>1. LoadAwaited => LoadAwaited'
          BY <3>1, <3>7 DEF LoadAwaited
        <4>2. expected \subseteq ToSet(allArray) => expected' \subseteq ToSet(allArray')
          BY <3>1, <3>5
        <4>3. expected' \subseteq ToSet(allArray') => MissingInv'
          BY DEF MissingInv, ToSet
        <4> QED
          BY <3>1, <4>1, <4>2, <4>3 DEF MissingInv
      <3> QED
        BY <3>6, <3>7
    <2> QED
      BY <2>1, <2>2
  <1>10. CASE RunReloadGenres
    <2>1. \A w \in Work : w.kind \in {"genres", "spots"} => w \in Work'
      BY <1>10, WorkReload
    <2> QED
      BY <1>10, <2>1, MissingElsewhere DEF RunReloadGenres, observed
  <1>11. CASE RunReloadSpots
    <2>1. \A w \in Work : w.kind \in {"genres", "spots"} => w \in Work'
      BY <1>11, WorkReload
    <2>2. crashed' = "genreRows" \/ crashed' = crashed
      BY <1>11, CountsRows DEF RunReloadSpots
    <2>3. CASE crashed' = "genreRows"
      BY <2>3 DEF MissingInv
    <2>4. CASE crashed' = crashed
      BY <1>11, <2>1, <2>4, MissingElsewhere DEF RunReloadSpots, observed
    <2> QED
      BY <2>2, <2>3, <2>4
  <1>12. ASSUME NEW i \in 1..genreRows, SelectGenre(i) PROVE MissingInv'
    <2>1. crashed' = "genreRows" \/ crashed' = crashed
      BY <1>12, CountsRows DEF SelectGenre
    <2>2. CASE crashed' = "genreRows"
      BY <2>2 DEF MissingInv
    <2>3. CASE crashed' = crashed
      BY <1>12, <2>3, WorkKept, MissingElsewhere DEF SelectGenre, observed
    <2> QED
      BY <2>1, <2>2, <2>3
  <1>13. ASSUME NEW i \in 1..spotRows, TouchRow(i) PROVE MissingInv'
    BY <1>13 DEF MissingInv, TouchRow, Crash
  <1>14. CASE UNCHANGED vars
    BY <1>14, WorkKept, MissingElsewhere DEF vars, lists, observed
  <1> QED
    BY <1>1, <1>2, <1>3, <1>4, <1>5, <1>6, <1>7, <1>8, <1>9, <1>10, <1>11, <1>12, <1>13,
       <1>14 DEF Next, MainQueue

\* Once a load is over without an error, every spot that was saved when the tab
\* last appeared is in its list, whatever loads it overtook.
THEOREM EverySpotIsShown == Spec => []NoSpotIsMissing
  <1>1. Init => MissingInv
    <2>1. Init => expected = {}
      BY DEF Init
    <2> QED
      BY <2>1 DEF MissingInv
  <1>2. MissingInv => NoSpotIsMissing
    <2>1. Quiet => ~LoadAwaited
      <3>1. Quiet => Work = {}
        BY DEF Quiet, Work, Queued
      <3> QED
        BY <3>1 DEF LoadAwaited
    <2> QED
      BY <2>1 DEF MissingInv, NoSpotIsMissing
  <1> QED
    BY <1>1, <1>2, TypesAlways, SnapInit, SnapStep, MissingStep, PTL DEF Spec

-----------------------------------------------------------------------------
(* The rows of the dropdown.                                                 *)

\* The dropdown shows genres there are. Once no answer to createGenre is
\* awaited, each of them has a list, and so will those that a waiting dropdown
\* answer adds.
SelectInv ==
  /\ \A i \in 1..Len(genres) : genres[i] \in Names
  /\ \/ failed
     \/ raced
     \/ crashed # "no"
     \/ GenresAwaited
     \/ /\ \A i \in 1..Len(genres) : genres[i] \in DOMAIN spotsList
        /\ DropdownAwaited => Names \subseteq DOMAIN spotsList

LEMMA SelectKept ==
  ASSUME SelectInv, UNCHANGED <<genreDocs, genres, failed, raced>>,
         crashed' # "no" \/ crashed' = crashed,
         DOMAIN spotsList \subseteq DOMAIN spotsList',
         \A w \in Work : w.kind = "genres" => \E v \in Work' : v.kind = "genres",
         \A w \in Work' : w.kind = "dropdown" => \E v \in Work : v.kind = "dropdown"
  PROVE  SelectInv'
  <1>1. Names' = Names
    BY DEF Names
  <1>2. GenresAwaited => GenresAwaited'
    BY DEF GenresAwaited
  <1>3. DropdownAwaited' => DropdownAwaited
    BY DEF DropdownAwaited
  <1> QED
    BY <1>1, <1>2, <1>3 DEF SelectInv

\* A save adds names. While the dropdown waits for some, it races the load.
LEMMA SelectSave ==
  ASSUME SelectInv, UNCHANGED <<queries, mainQ, genres, spotsList, failed, crashed>>,
         genreDocs \subseteq genreDocs', raced' = (raced \/ ~Quiet)
  PROVE  SelectInv'
  <1>1. Names \subseteq Names'
    BY DEF Names
  <1>2. Work' = Work
    BY WorkKept
  <1>3. Quiet => Work = {}
    BY DEF Quiet, Work, Queued
  <1>4. DropdownAwaited' => ~Quiet
    BY <1>2, <1>3 DEF DropdownAwaited
  <1>5. DropdownAwaited' => raced'
    BY <1>4, Zenon
  <1>6. raced => raced'
    BY Zenon
  <1>7. GenresAwaited' = GenresAwaited
    BY <1>2 DEF GenresAwaited
  <1> QED
    BY <1>1, <1>5, <1>6, <1>7 DEF SelectInv

LEMMA SelectStep == TypesInv /\ SnapInv /\ SelectInv /\ [Next]_vars => SelectInv'
  <1> SUFFICES ASSUME TypesInv, SnapInv, SelectInv, [Next]_vars
               PROVE  SelectInv'
    OBVIOUS
  <1>1. ASSUME NEW g \in Genres, NEW c \in Colors, SaveGenre(g, c) PROVE SelectInv'
    BY <1>1, SelectSave DEF SaveGenre, lists
  <1>2. ASSUME NEW s \in Spots, SaveSpot(s) PROVE SelectInv'
    BY <1>2, SelectSave DEF SaveSpot, lists
  <1>3. CASE Leave
    BY <1>3, WorkKept, SelectKept DEF Leave, data, lists, observed
  <1>4. CASE Appear
    <2>1. GenresAwaited'
      <3>1. \E n \in Work' : n.kind = "genres"
        BY <1>4, WorkAppear
      <3> QED
        BY <3>1 DEF GenresAwaited
    <2>2. genres' = <<>>
      BY <1>4 DEF Appear, AppearWith
    <2> QED
      BY <2>1, <2>2 DEF SelectInv
  <1>5. ASSUME NEW q \in queries, Answer(q) PROVE SelectInv'
    <2>1. /\ q \in Work
          /\ \E b \in Work' : /\ b.kind = q.kind
                              /\ Work \subseteq Work' \cup {q}
                              /\ Work' \subseteq Work \cup {b}
      <3>1. PICK b \in Blocks :
              /\ b.kind = q.kind /\ b \in Work'
              /\ Work \subseteq Work' \cup {q} /\ Work' \subseteq Work \cup {b}
        BY <1>5, WorkAnswer
      <3> QED
        BY <1>5, <3>1, WorkAnswer
    <2>2. \A w \in Work : w.kind = "genres" => \E v \in Work' : v.kind = "genres"
      BY <2>1
    <2>3. \A w \in Work' : w.kind = "dropdown" => \E v \in Work : v.kind = "dropdown"
      BY <2>1
    <2> QED
      BY <1>5, <2>2, <2>3, SelectKept DEF Answer, data, lists, observed
  <1>6. ASSUME NEW q \in queries, Fail(q) PROVE SelectInv'
    <2>1. failed' /\ Names' = Names /\ genres' = genres
      BY <1>6 DEF Fail, data, lists, Names
    <2> QED
      BY <2>1 DEF SelectInv
  <1>7. CASE RunDropdown
    <2> DEFINE h == Head(mainQ)
               rows == [i \in DOMAIN SetToSeq(h.docs) |-> SetToSeq(h.docs)[i].name]
    <2>1. /\ h.kind = "dropdown" /\ h \in Queued /\ h \in Work
          /\ h.docs \in SUBSET GenreDocs /\ IsFiniteSet(h.docs)
          /\ Work' \subseteq Work \cup {[kind |-> "reloadGenres"]}
          /\ Work \subseteq Work' \cup {h}
      BY <1>7, WorkDropdown
    <2>2. genres' = genres \o rows
          /\ UNCHANGED <<genreDocs, spotsList, failed, raced, crashed>>
      BY <1>7 DEF RunDropdown, data, observed
    <2> HIDE DEF h
    <2>3. h.docs \subseteq genreDocs
      BY <2>1 DEF SnapInv
    <2>4. rows \in Seq(Genres) /\ \A i \in DOMAIN rows : \E d \in h.docs : rows[i] = d.name
      BY <2>1, RowsOf
    <2>5. \A i \in DOMAIN rows : rows[i] \in Names
      BY <2>3, <2>4 DEF Names
    <2> HIDE DEF rows
    <2>6. ASSUME NEW i \in 1..Len(genres')
          PROVE  \/ \E j \in 1..Len(genres) : genres'[i] = genres[j]
                 \/ genres'[i] \in Names
      <3>1. genres \in Seq(Genres)
        BY DEF TypesInv, TypeOK
      <3>2. CASE i \in 1..Len(genres)
        BY <2>2, <2>4, <3>1, <3>2
      <3>3. CASE i \notin 1..Len(genres)
        <4>1. i - Len(genres) \in DOMAIN rows /\ genres'[i] = rows[i - Len(genres)]
          BY <2>2, <2>4, <3>1, <3>3
        <4> QED
          BY <2>5, <4>1
      <3> QED
        BY <3>2, <3>3
    <2>7. Names' = Names
      BY <2>2 DEF Names
    <2>8. DropdownAwaited
      BY <2>1 DEF DropdownAwaited
    <2>9. GenresAwaited => GenresAwaited'
      BY <2>1 DEF GenresAwaited
    <2>10. \A i \in 1..Len(genres') : genres'[i] \in Names'
      BY <2>6, <2>7 DEF SelectInv
    <2>11. /\ \A i \in 1..Len(genres) : genres[i] \in DOMAIN spotsList
           /\ Names \subseteq DOMAIN spotsList
           => \A i \in 1..Len(genres') : genres'[i] \in DOMAIN spotsList'
      BY <2>2, <2>6
    <2> QED
      BY <2>2, <2>7, <2>8, <2>9, <2>10, <2>11 DEF SelectInv
  <1>8. CASE RunGenres
    <2> DEFINE h == Head(mainQ)
               found == {d.name : d \in h.docs}
    <2>1. h.kind = "genres" /\ h \in Queued
      BY <1>8, WorkGenres
    <2>2. CASE Crash("genreColor")
      <3>1. crashed' # "no" /\ Names' = Names /\ genres' = genres
        BY <2>2 DEF Crash, Names, data, lists
      <3> QED
        BY <3>1 DEF SelectInv
    <2>3. CASE ~Crash("genreColor")
      <3>1. /\ DOMAIN spotsList' = DOMAIN spotsList \cup found
            /\ UNCHANGED <<genreDocs, genres, raced>>
        BY <1>8, <2>3, WorkGenres DEF data, observed
      <3>2. ~raced => found = Names
        BY <2>1 DEF SnapInv, Names
      <3>3. Names' = Names
        BY <3>1 DEF Names
      <3>4. ~raced => Names' \subseteq DOMAIN spotsList'
        BY <3>1, <3>2, <3>3
      <3> HIDE DEF h, found
      <3>5. \A i \in 1..Len(genres') : genres'[i] \in Names'
        BY <3>1, <3>3 DEF SelectInv
      <3> QED
        BY <3>1, <3>4, <3>5 DEF SelectInv
    <2> QED
      BY <2>2, <2>3
  <1>9. CASE RunSpots
    <2> DEFINE h == Head(mainQ)
    <2>1. h.kind = "spots" /\ Work \subseteq Work' \cup {h}
      BY <1>9, WorkSpots
    <2>2. CASE Crash("spotColor")
      <3>1. crashed' # "no" /\ Names' = Names /\ genres' = genres
        BY <2>2 DEF Crash, Names, data, lists
      <3> QED
        BY <3>1 DEF SelectInv
    <2>3. CASE ~Crash("spotColor")
      <3>1. /\ DOMAIN spotsList' = DOMAIN spotsList
            /\ UNCHANGED <<genreDocs, genres, failed, raced, crashed>>
            /\ Work' \subseteq Work \cup {[kind |-> "reloadSpots"]}
        BY <1>9, <2>3, WorkSpots DEF data, observed
      <3>2. \A w \in Work' : w.kind = "dropdown" => w \in Work
        BY <3>1
      <3>3. \A w \in Work : w.kind = "genres" => w \in Work'
        BY <2>1
      <3> QED
        BY <3>1, <3>2, <3>3, SelectKept
    <2> QED
      BY <2>2, <2>3
  <1>10. CASE RunReloadGenres
    <2>1. /\ \A w \in Work : w.kind = "genres" => w \in Work'
          /\ Work' \subseteq Work
      BY <1>10, WorkReload
    <2> QED
      BY <1>10, <2>1, SelectKept DEF RunReloadGenres, data, observed
  <1>11. CASE RunReloadSpots
    <2>1. /\ \A w \in Work : w.kind = "genres" => w \in Work'
          /\ Work' \subseteq Work
      BY <1>11, WorkReload
    <2>2. crashed' = "genreRows" \/ crashed' = crashed
      BY <1>11, CountsRows DEF RunReloadSpots
    <2> QED
      BY <1>11, <2>1, <2>2, SelectKept DEF RunReloadSpots, data, observed
  <1>12. ASSUME NEW i \in 1..genreRows, SelectGenre(i) PROVE SelectInv'
    <2>1. crashed' = "genreRows" \/ crashed' = crashed
      BY <1>12, CountsRows DEF SelectGenre
    <2> QED
      BY <1>12, <2>1, WorkKept, SelectKept DEF SelectGenre, data, observed
  <1>13. ASSUME NEW i \in 1..spotRows, TouchRow(i) PROVE SelectInv'
    BY <1>13, WorkKept, SelectKept DEF TouchRow, Crash, data, lists, observed
  <1>14. CASE UNCHANGED vars
    BY <1>14, WorkKept, SelectKept DEF vars, data, lists, observed
  <1> QED
    BY <1>1, <1>2, <1>3, <1>4, <1>5, <1>6, <1>7, <1>8, <1>9, <1>10, <1>11, <1>12, <1>13,
       <1>14 DEF Next, MainQueue

\* Once a load is over without an error and without a save beside it, each row
\* of the dropdown whose name survives its display has a list to select.
THEOREM EveryRowCanBeSelected == Spec => []RowsCanBeSelected
  <1>1. Init => SelectInv
    <2>1. SUFFICES ASSUME Init PROVE SelectInv
      OBVIOUS
    <2>2. Work = {} /\ genres = <<>>
      BY <2>1 DEF Init, Work, Queued
    <2> QED
      BY <2>2 DEF SelectInv, DropdownAwaited
  <1>2. TypesInv /\ SelectInv => RowsCanBeSelected
    <2>1. Quiet => ~GenresAwaited
      <3>1. Quiet => Work = {}
        BY DEF Quiet, Work, Queued
      <3> QED
        BY <3>1 DEF GenresAwaited
    <2>2. TypesInv => 1..genreRows \subseteq 1..Len(genres)
      BY DEF TypesInv, TypeOK
    <2> QED
      BY <2>1, <2>2 DEF SelectInv, RowsCanBeSelected
  <1> QED
    BY <1>1, <1>2, TypesAlways, SnapInit, SnapStep, SelectStep, PTL DEF Spec

-----------------------------------------------------------------------------
(* No spot twice.                                                            *)

Filling == {"genres", "spots"}

\* While no load overlaps another, one query or callback at most is to fill the
\* list, and the list is empty until it has.
OnceInv ==
  \/ overlapped
  \/ /\ \A p, q \in queries : p.kind \in Filling /\ q.kind \in Filling => p = q
     /\ \A i, j \in 1..Len(mainQ) :
          mainQ[i].kind \in Filling /\ mainQ[j].kind \in Filling => i = j
     /\ \A q \in queries, i \in 1..Len(mainQ) :
          ~ (q.kind \in Filling /\ mainQ[i].kind \in Filling)
     /\ \A q \in queries : q.kind \in Filling => allArray = <<>>
     /\ \A i \in 1..Len(mainQ) : mainQ[i].kind \in Filling => allArray = <<>>
     /\ IsInjective(allArray)

\* A step that takes the head of the main queue and adds at most a reload: what
\* remains to fill the list has moved up by one.
LEMMA MovesUp ==
  ASSUME TypesInv, mainQ # <<>>,
         \/ mainQ' = Tail(mainQ)
         \/ mainQ' = Append(Tail(mainQ), [kind |-> "reloadGenres"])
         \/ mainQ' = Append(Tail(mainQ), [kind |-> "reloadSpots"])
  PROVE  \A i \in 1..Len(mainQ') : mainQ'[i].kind \in Filling =>
           i + 1 \in 1..Len(mainQ) /\ mainQ'[i] = mainQ[i + 1]
  <1> DEFINE t == Tail(mainQ)
  <1>1. /\ t \in Seq(Blocks) /\ Len(t) = Len(mainQ) - 1 /\ Len(mainQ) \in Nat
        /\ \A i \in 1..Len(mainQ) - 1 : t[i] = mainQ[i + 1]
    BY PopQueue DEF TypesInv
  <1> HIDE DEF t
  <1>2. CASE mainQ' = t
    BY <1>1, <1>2
  <1>3. ASSUME NEW k \in {"reloadGenres", "reloadSpots"}, mainQ' = Append(t, [kind |-> k])
        PROVE  \A i \in 1..Len(mainQ') : mainQ'[i].kind \in Filling =>
                 i + 1 \in 1..Len(mainQ) /\ mainQ'[i] = mainQ[i + 1]
    <2> DEFINE b == [kind |-> k]
    <2>1. b \in Blocks /\ b.kind \notin Filling
      BY DEF Blocks, Filling
    <2>2. mainQ' = Append(t, b)
      BY <1>3
    <2> HIDE DEF b
    <2>3. /\ Len(mainQ') = Len(t) + 1 /\ Len(t) \in Nat
          /\ \A i \in 1..Len(t) : mainQ'[i] = t[i]
          /\ mainQ'[Len(t) + 1] = b
      BY <1>1, <2>1, <2>2, PushWork
    <2> QED
      BY <1>1, <2>1, <2>3
  <1> QED
    BY <1>2, <1>3 DEF t

LEMMA OnceKept ==
  ASSUME OnceInv, UNCHANGED <<queries, mainQ, allArray, overlapped>>
  PROVE  OnceInv'
  BY DEF OnceInv, IsInjective

LEMMA OnceMovesUp ==
  ASSUME OnceInv, TypesInv, mainQ # <<>>, UNCHANGED <<queries, allArray, overlapped>>,
         \A i \in 1..Len(mainQ') : mainQ'[i].kind \in Filling =>
           i + 1 \in 1..Len(mainQ) /\ mainQ'[i] = mainQ[i + 1]
  PROVE  OnceInv'
  <1>1. SUFFICES ASSUME ~overlapped PROVE OnceInv'
    BY DEF OnceInv
  <1>2. ASSUME NEW i \in 1..Len(mainQ'), NEW j \in 1..Len(mainQ'),
               mainQ'[i].kind \in Filling, mainQ'[j].kind \in Filling
        PROVE  i = j
    <2>1. i + 1 = j + 1
      BY <1>1, <1>2 DEF OnceInv
    <2>2. i \in Int /\ j \in Int
      OBVIOUS
    <2> QED
      BY <2>1, <2>2
  <1>3. \A i \in 1..Len(mainQ') : mainQ'[i].kind \in Filling => allArray = <<>>
    BY <1>1 DEF OnceInv
  <1>4. \A q \in queries, i \in 1..Len(mainQ') :
          ~ (q.kind \in Filling /\ mainQ'[i].kind \in Filling)
    BY <1>1 DEF OnceInv
  <1>5. IsInjective(allArray')
    BY <1>1 DEF OnceInv, IsInjective
  <1> QED
    BY <1>1, <1>2, <1>3, <1>4, <1>5 DEF OnceInv

LEMMA OnceAppear ==
  ASSUME OnceInv, Appear
  PROVE  OnceInv'
  <1>1. SUFFICES ASSUME ~overlapped' PROVE OnceInv'
    BY DEF OnceInv
  <1>2. queries = {} /\ mainQ = <<>>
    <2>1. Quiet
      BY <1>1, Zenon DEF Appear, AppearWith
    <2> QED
      BY <2>1 DEF Quiet
  <1> DEFINE g == [kind |-> "genres", load |-> loads + 1]
             d == [kind |-> "dropdown", load |-> loads + 1]
  <1>3. g.kind = "genres" /\ d.kind = "dropdown" /\ d.kind \notin Filling
    BY DEF Filling
  <1>4. queries' = {g, d} /\ mainQ' = <<>> /\ allArray' = <<>>
    BY <1>2 DEF Appear, AppearWith
  <1> HIDE DEF g, d
  <1>5. Len(mainQ') = 0
    BY <1>4
  <1>6. IsInjective(allArray')
    BY <1>4 DEF IsInjective
  <1> QED
    BY <1>3, <1>4, <1>5, <1>6 DEF OnceInv

LEMMA OnceAnswer ==
  ASSUME TypesInv, OnceInv, NEW q \in queries, Answer(q)
  PROVE  OnceInv'
  <1>1. SUFFICES ASSUME ~overlapped' PROVE OnceInv'
    BY DEF OnceInv
  <1>2. ~overlapped /\ queries' = queries \ {q} /\ allArray' = allArray
    BY <1>1 DEF Answer, lists, observed
  <1>3. PICK b \in Blocks : b.kind = q.kind /\ mainQ' = Append(mainQ, b)
    BY WorkAnswer
  <1>4. /\ Len(mainQ') = Len(mainQ) + 1 /\ Len(mainQ) \in Nat
        /\ \A i \in 1..Len(mainQ) : mainQ'[i] = mainQ[i]
        /\ mainQ'[Len(mainQ) + 1] = b
    BY <1>3, PushWork DEF TypesInv
  <1>5. IsInjective(allArray')
    BY <1>2 DEF OnceInv, IsInjective
  <1>6. CASE q.kind \in Filling
    <2>1. /\ \A p \in queries' : p.kind \notin Filling
          /\ \A i \in 1..Len(mainQ) : mainQ[i].kind \notin Filling
          /\ allArray = <<>>
      BY <1>2, <1>6 DEF OnceInv
    <2>2. \A i \in 1..Len(mainQ') : mainQ'[i].kind \in Filling => i = Len(mainQ) + 1
      BY <1>4, <2>1
    <2> QED
      BY <1>2, <1>5, <2>1, <2>2 DEF OnceInv
  <1>7. CASE q.kind \notin Filling
    <2>1. \A i \in 1..Len(mainQ') : mainQ'[i].kind \in Filling =>
            i \in 1..Len(mainQ) /\ mainQ'[i] = mainQ[i]
      BY <1>3, <1>4, <1>7
    <2>2. /\ \A p, r \in queries' : p.kind \in Filling /\ r.kind \in Filling => p = r
          /\ \A p \in queries' : p.kind \in Filling => allArray' = <<>>
      BY <1>2 DEF OnceInv
    <2>3. \A i, j \in 1..Len(mainQ') :
            mainQ'[i].kind \in Filling /\ mainQ'[j].kind \in Filling => i = j
      BY <1>2, <2>1 DEF OnceInv
    <2>4. /\ \A p \in queries', i \in 1..Len(mainQ') :
               ~ (p.kind \in Filling /\ mainQ'[i].kind \in Filling)
          /\ \A i \in 1..Len(mainQ') : mainQ'[i].kind \in Filling => allArray' = <<>>
      BY <1>2, <2>1 DEF OnceInv
    <2> QED
      BY <1>5, <2>2, <2>3, <2>4 DEF OnceInv
  <1> QED
    BY <1>6, <1>7

LEMMA OnceRunGenres ==
  ASSUME TypesInv, OnceInv, RunGenres
  PROVE  OnceInv'
  <1> DEFINE h == Head(mainQ)
             n == [kind |-> "spots", load |-> h.load]
  <1>1. mainQ # <<>> /\ mainQ' = Tail(mainQ) /\ h.kind = "genres"
    BY WorkGenres
  <1>2. \A i \in 1..Len(mainQ') : mainQ'[i].kind \in Filling =>
          i + 1 \in 1..Len(mainQ) /\ mainQ'[i] = mainQ[i + 1]
    BY <1>1, MovesUp
  <1>3. CASE Crash("genreColor")
    BY <1>1, <1>2, <1>3, OnceMovesUp DEF Crash, lists, observed
  <1>4. CASE ~Crash("genreColor")
    <2>1. queries' = queries \cup {n} /\ UNCHANGED <<allArray, overlapped>>
      BY <1>4, WorkGenres DEF observed
    <2>2. SUFFICES ASSUME ~overlapped PROVE OnceInv'
      BY <2>1 DEF OnceInv
    <2>3. 1 \in 1..Len(mainQ) /\ mainQ[1] = h
      BY <1>1, PopQueue DEF TypesInv
    <2> HIDE DEF h, n
    <2>4. \A i \in 1..Len(mainQ) : mainQ[i].kind \in Filling => i = 1
      BY <1>1, <2>2, <2>3 DEF OnceInv, Filling
    <2>5. /\ \A q \in queries : q.kind \notin Filling
          /\ allArray = <<>>
      BY <1>1, <2>2, <2>3 DEF OnceInv, Filling
    <2>6. \A i \in 1..Len(mainQ') : mainQ'[i].kind \notin Filling
      BY <1>2, <2>4
    <2>7. IsInjective(allArray')
      BY <2>1, <2>2 DEF OnceInv, IsInjective
    <2> QED
      BY <2>1, <2>5, <2>6, <2>7 DEF OnceInv
  <1> QED
    BY <1>3, <1>4

LEMMA OnceRunSpots ==
  ASSUME TypesInv, OnceInv, RunSpots
  PROVE  OnceInv'
  <1> DEFINE h == Head(mainQ)
  <1>1. mainQ # <<>> /\ h.kind = "spots" /\ h.docs \in SUBSET (Spots \X Records)
    BY WorkSpots
  <1>2. \/ mainQ' = Tail(mainQ)
        \/ mainQ' = Append(Tail(mainQ), [kind |-> "reloadSpots"])
    BY WorkSpots
  <1>3. \A i \in 1..Len(mainQ') : mainQ'[i].kind \in Filling =>
          i + 1 \in 1..Len(mainQ) /\ mainQ'[i] = mainQ[i + 1]
    BY <1>1, <1>2, MovesUp
  <1>4. CASE Crash("spotColor")
    BY <1>1, <1>3, <1>4, OnceMovesUp DEF Crash, lists, observed
  <1>5. CASE ~Crash("spotColor")
    <2>1. allArray' = allArray \o InOrder(h.docs, Records)
          /\ UNCHANGED <<queries, overlapped>>
      BY <1>5, WorkSpots DEF observed
    <2>2. SUFFICES ASSUME ~overlapped PROVE OnceInv'
      BY <2>1 DEF OnceInv
    <2>3. 1 \in 1..Len(mainQ) /\ mainQ[1] = h
      BY <1>1, PopQueue DEF TypesInv
    <2>4. InOrder(h.docs, Records) \in Seq(Spots) /\ IsInjective(InOrder(h.docs, Records))
      BY <1>1, InOrderLists
    <2> HIDE DEF h
    <2>5. \A i \in 1..Len(mainQ) : mainQ[i].kind \in Filling => i = 1
      BY <1>1, <2>2, <2>3 DEF OnceInv, Filling
    <2>6. /\ \A q \in queries : q.kind \notin Filling
          /\ allArray = <<>>
      BY <1>1, <2>2, <2>3 DEF OnceInv, Filling
    <2>7. \A i \in 1..Len(mainQ') : mainQ'[i].kind \notin Filling
      BY <1>3, <2>5
    <2>8. allArray' = InOrder(h.docs, Records)
      BY <2>1, <2>4, <2>6
    <2>9. IsInjective(allArray')
      BY <2>4, <2>8 DEF IsInjective
    <2> QED
      BY <2>1, <2>6, <2>7, <2>9 DEF OnceInv
  <1> QED
    BY <1>4, <1>5

LEMMA OnceStep == TypesInv /\ OnceInv /\ [Next]_vars => OnceInv'
  <1> SUFFICES ASSUME TypesInv, OnceInv, [Next]_vars
               PROVE  OnceInv'
    OBVIOUS
  <1>1. ASSUME NEW g \in Genres, NEW c \in Colors, SaveGenre(g, c) PROVE OnceInv'
    BY <1>1, OnceKept DEF SaveGenre, lists
  <1>2. ASSUME NEW s \in Spots, SaveSpot(s) PROVE OnceInv'
    BY <1>2, OnceKept DEF SaveSpot, lists
  <1>3. CASE Leave
    BY <1>3, OnceKept DEF Leave, lists, observed
  <1>4. CASE Appear
    BY <1>4, OnceAppear
  <1>5. ASSUME NEW q \in queries, Answer(q) PROVE OnceInv'
    BY <1>5, OnceAnswer
  <1>6. ASSUME NEW q \in queries, Fail(q) PROVE OnceInv'
    BY <1>6 DEF OnceInv, IsInjective, Fail, lists
  <1>7. CASE RunDropdown
    <2>1. mainQ # <<>> /\ mainQ' = Append(Tail(mainQ), [kind |-> "reloadGenres"])
      BY <1>7 DEF RunDropdown, Runs
    <2>2. UNCHANGED <<queries, allArray, overlapped>>
      BY <1>7 DEF RunDropdown, observed
    <2> QED
      BY <2>1, <2>2, MovesUp, OnceMovesUp
  <1>8. CASE RunGenres
    BY <1>8, OnceRunGenres
  <1>9. CASE RunSpots
    BY <1>9, OnceRunSpots
  <1>10. CASE RunReloadGenres \/ RunReloadSpots
    <2>1. mainQ # <<>> /\ mainQ' = Tail(mainQ)
      BY <1>10, WorkReload
    <2>2. UNCHANGED <<queries, allArray, overlapped>>
      BY <1>10 DEF RunReloadGenres, RunReloadSpots, observed
    <2> QED
      BY <2>1, <2>2, MovesUp, OnceMovesUp
  <1>11. ASSUME NEW i \in 1..genreRows, SelectGenre(i) PROVE OnceInv'
    BY <1>11, OnceKept DEF SelectGenre, observed
  <1>12. ASSUME NEW i \in 1..spotRows, TouchRow(i) PROVE OnceInv'
    BY <1>12, OnceKept DEF TouchRow, Crash, lists, observed
  <1>13. CASE UNCHANGED vars
    BY <1>13, OnceKept DEF vars, lists, observed
  <1> QED
    BY <1>1, <1>2, <1>3, <1>4, <1>5, <1>6, <1>7, <1>8, <1>9, <1>10, <1>11, <1>12, <1>13
    DEF Next, MainQueue

\* A spot is listed twice only after the tab has appeared again before an
\* earlier load had ended.
THEOREM EverySpotIsListedOnce == Spec => []NoSpotTwice
  <1>1. Init => OnceInv
    <2>1. SUFFICES ASSUME Init PROVE OnceInv
      OBVIOUS
    <2>2. queries = {} /\ Len(mainQ) = 0
      BY <2>1 DEF Init
    <2>3. IsInjective(allArray)
      BY <2>1 DEF Init, IsInjective
    <2> QED
      BY <2>2, <2>3 DEF OnceInv
  <1>2. OnceInv => NoSpotTwice
    BY DEF OnceInv, NoSpotTwice
  <1> QED
    BY <1>1, <1>2, TypesAlways, OnceStep, PTL DEF Spec

-----------------------------------------------------------------------------
(* The lists by genre.                                                       *)

LEMMA TailEmpty ==
  ASSUME NEW all \in Seq(Spots), NEW set
  PROVE  IsTailOf(<<>>, all, set)
  <1> DEFINE n == Len(all)
             places == {j \in n + 1..n : all[j] \in set}
  <1>1. n \in Nat /\ n + 1 \in 1..n + 1
    OBVIOUS
  <1>2. places = {}
    <2>1. n + 1..n = {}
      BY <1>1
    <2> QED
      BY <2>1
  <1> DEFINE at == [i \in DOMAIN <<>> |-> 0]
  <1>3. DOMAIN <<>> = {}
    OBVIOUS
  <1>4. at \in [DOMAIN <<>> -> places] /\ DOMAIN at = {}
    BY <1>3
  <1>5. ToSet(at) = places
    BY <1>2, <1>4 DEF ToSet
  <1> HIDE DEF n, at
  <1> QED
    BY <1>1, <1>4, <1>5 DEF IsTailOf, n

\* A set matters by the elements it shares with the list.
LEMMA TailOfAnother ==
  ASSUME NEW list, NEW all, NEW S, NEW T,
         \A j \in 1..Len(all) : all[j] \in S <=> all[j] \in T,
         Len(all) \in Nat, IsTailOf(list, all, S)
  PROVE  IsTailOf(list, all, T)
  <1>1. ASSUME NEW from \in 1..Len(all) + 1
        PROVE  {j \in from..Len(all) : all[j] \in S} = {j \in from..Len(all) : all[j] \in T}
    <2>1. \A j \in from..Len(all) : j \in 1..Len(all)
      BY <1>1
    <2> QED
      BY <2>1
  <1>2. PICK from \in 1..Len(all) + 1 :
          LET places == {j \in from..Len(all) : all[j] \in S}
          IN  \E at \in [DOMAIN list -> places] :
                /\ ToSet(at) = places
                /\ \A i, k \in DOMAIN at : i < k => at[i] < at[k]
                /\ \A i \in DOMAIN at : list[i] = all[at[i]]
    BY DEF IsTailOf
  <1> DEFINE P == {j \in from..Len(all) : all[j] \in S}
             Q == {j \in from..Len(all) : all[j] \in T}
  <1>3. P = Q
    BY <1>1
  <1>4. \E at \in [DOMAIN list -> P] :
          /\ ToSet(at) = P
          /\ \A i, k \in DOMAIN at : i < k => at[i] < at[k]
          /\ \A i \in DOMAIN at : list[i] = all[at[i]]
    BY <1>2
  <1> HIDE DEF P, Q
  <1>5. \E at \in [DOMAIN list -> Q] :
          /\ ToSet(at) = Q
          /\ \A i, k \in DOMAIN at : i < k => at[i] < at[k]
          /\ \A i \in DOMAIN at : list[i] = all[at[i]]
    BY <1>3, <1>4
  <1> QED
    BY <1>5, Zenon DEF IsTailOf, Q

\* A snapshot's spots are appended to the complete list, and those of them that
\* are in a set to the list of that set.
LEMMA TailLonger ==
  ASSUME NEW list \in Seq(Spots), NEW all \in Seq(Spots), NEW set,
         NEW x \in Seq(Spots), NEW y \in Seq(Spots),
         \A i, j \in DOMAIN x : i < j => x[i] < x[j],
         \A i, j \in DOMAIN y : i < j => y[i] < y[j],
         ToSet(y) = {s \in ToSet(x) : s \in set},
         IsTailOf(list, all, set)
  PROVE  IsTailOf(list \o y, all \o x, set)
  <1> DEFINE n == Len(list)
             m == Len(all)
             a == all \o x
             l == list \o y
             places(f, s) == {j \in f..Len(s) : s[j] \in set}
  <1>1. /\ n \in Nat /\ m \in Nat /\ Len(x) \in Nat /\ Len(y) \in Nat
        /\ DOMAIN x = 1..Len(x) /\ DOMAIN y = 1..Len(y) /\ DOMAIN list = 1..n
        /\ Len(a) = m + Len(x) /\ DOMAIN l = 1..n + Len(y)
        /\ \A i \in 1..m : a[i] = all[i]
        /\ \A i \in 1..Len(x) : a[m + i] = x[i]
        /\ \A i \in 1..n : l[i] = list[i]
        /\ \A i \in 1..Len(y) : l[n + i] = y[i]
        /\ \A i \in 1..Len(x) : x[i] \in Nat
        /\ \A i \in 1..Len(y) : y[i] \in Nat
    BY LoadAssumption DEF Spots
  <1>2. PICK from \in 1..m + 1 :
          \E at \in [DOMAIN list -> places(from, all)] :
            /\ ToSet(at) = places(from, all)
            /\ \A i, k \in DOMAIN at : i < k => at[i] < at[k]
            /\ \A i \in DOMAIN at : list[i] = all[at[i]]
    BY Zenon DEF IsTailOf
  <1>3. PICK at \in [1..n -> places(from, all)] :
            /\ ToSet(at) = places(from, all)
            /\ \A i, k \in 1..n : i < k => at[i] < at[k]
            /\ \A i \in 1..n : list[i] = all[at[i]]
    BY <1>1, <1>2
  <1>4. \A j \in places(from, all) : \E i \in 1..n : at[i] = j
    BY <1>3 DEF ToSet
  <1>5. \A i \in 1..n : at[i] \in from..m /\ all[at[i]] \in set
    BY <1>3
  \* Where in x the elements of y are.
  <1> DEFINE pos == [k \in 1..Len(y) |-> CHOOSE p \in 1..Len(x) : x[p] = y[k]]
  <1>6. ASSUME NEW k \in 1..Len(y)
        PROVE  pos[k] \in 1..Len(x) /\ x[pos[k]] = y[k] /\ y[k] \in set
    <2>1. y[k] \in ToSet(x) /\ y[k] \in set
      <3>1. y[k] \in ToSet(y)
        BY <1>1 DEF ToSet
      <3> QED
        BY <3>1
    <2>2. \E p \in 1..Len(x) : x[p] = y[k]
      BY <1>1, <2>1 DEF ToSet
    <2> QED
      BY <2>1, <2>2
  <1> HIDE DEF pos
  <1>7. ASSUME NEW i \in 1..Len(x), x[i] \in set
        PROVE  \E k \in 1..Len(y) : pos[k] = i
    <2>1. x[i] \in ToSet(x)
      BY <1>1 DEF ToSet
    <2>2. x[i] \in ToSet(y)
      BY <1>7, <2>1
    <2>3. PICK k \in 1..Len(y) : y[k] = x[i]
      BY <1>1, <2>2 DEF ToSet
    <2>4. pos[k] \in 1..Len(x) /\ x[pos[k]] = x[i]
      BY <1>6, <2>3
    <2> DEFINE p == pos[k]
    <2>5. p \in Nat /\ i \in Nat /\ x[i] \in Nat
      BY <1>1, <2>4
    <2>6. ~ (p < i) /\ ~ (i < p)
      <3>1. p < i => x[p] < x[i]
        BY <1>1, <2>4
      <3>2. i < p => x[i] < x[p]
        BY <1>1, <2>4
      <3>3. ~ (x[i] < x[i])
        BY <2>5
      <3> QED
        BY <2>4, <3>1, <3>2, <3>3
    <2> HIDE DEF p
    <2>7. p = i
      BY <2>5, <2>6
    <2> QED
      BY <2>7 DEF p
  <1>8. ASSUME NEW i \in 1..Len(y), NEW k \in 1..Len(y), i < k
        PROVE  pos[i] < pos[k]
    <2>1. y[i] < y[k]
      BY <1>1, <1>8
    <2>2. pos[i] \in 1..Len(x) /\ pos[k] \in 1..Len(x) /\ x[pos[i]] < x[pos[k]]
      BY <1>6, <2>1
    <2>3. pos[k] < pos[i] => x[pos[k]] < x[pos[i]]
      BY <1>1, <2>2
    <2>4. x[pos[i]] \in Nat /\ x[pos[k]] \in Nat /\ pos[i] \in Nat /\ pos[k] \in Nat
      BY <1>1, <2>2
    <2> QED
      BY <2>2, <2>3, <2>4
  <1> DEFINE to == [i \in 1..n + Len(y) |-> IF i <= n THEN at[i] ELSE m + pos[i - n]]
  <1>9. /\ \A i \in 1..n : to[i] = at[i]
        /\ \A k \in 1..Len(y) : to[n + k] = m + pos[k]
        /\ DOMAIN to = 1..n + Len(y)
    BY <1>1
  <1>10. \A i \in 1..n + Len(y) : i \in 1..n \/ \E k \in 1..Len(y) : i = n + k
    <2> TAKE i \in 1..n + Len(y)
    <2>1. CASE i <= n
      BY <1>1, <2>1
    <2>2. CASE ~ (i <= n)
      <3>1. i - n \in 1..Len(y) /\ i = n + (i - n)
        BY <1>1, <2>2
      <3> QED
        BY <3>1
    <2> QED
      BY <2>1, <2>2
  <1> HIDE DEF to, a, l
  <1>11. ASSUME NEW i \in 1..n
         PROVE  to[i] \in places(from, a) /\ l[i] = a[to[i]]
    <2>1. to[i] \in from..m /\ all[to[i]] \in set /\ to[i] \in 1..m
      BY <1>1, <1>2, <1>5, <1>9
    <2>2. to[i] \in from..Len(a)
      BY <1>1, <1>2, <2>1
    <2>3. a[to[i]] = all[to[i]] /\ l[i] = list[i] /\ list[i] = all[at[i]]
      BY <1>1, <1>3, <2>1
    <2> QED
      BY <1>9, <2>1, <2>2, <2>3
  <1>12. ASSUME NEW k \in 1..Len(y)
         PROVE  to[n + k] \in places(from, a) /\ l[n + k] = a[to[n + k]]
    <2>1. to[n + k] = m + pos[k] /\ pos[k] \in 1..Len(x) /\ x[pos[k]] = y[k] /\ y[k] \in set
      BY <1>6, <1>9
    <2>2. m + pos[k] \in from..Len(a)
      BY <1>1, <1>2, <2>1
    <2>3. a[m + pos[k]] = x[pos[k]] /\ l[n + k] = y[k]
      BY <1>1, <2>1
    <2> QED
      BY <2>1, <2>2, <2>3
  <1>13. to \in [DOMAIN l -> places(from, a)] /\ \A i \in DOMAIN to : l[i] = a[to[i]]
    <2>1. \A i \in 1..n + Len(y) : to[i] \in places(from, a) /\ l[i] = a[to[i]]
      BY <1>10, <1>11, <1>12
    <2>2. to = [i \in 1..n + Len(y) |-> to[i]]
      BY DEF to
    <2>3. to \in [1..n + Len(y) -> places(from, a)]
      BY <2>1, <2>2
    <2> QED
      BY <1>1, <1>9, <2>1, <2>3
  <1>14. ASSUME NEW j \in places(from, a)
         PROVE  \E i \in DOMAIN to : to[i] = j
    <2>1. j \in from..Len(a) /\ a[j] \in set
      OBVIOUS
    <2>2. CASE j <= m
      <3>1. j \in 1..m /\ j \in from..m /\ a[j] = all[j]
        BY <1>1, <1>2, <2>1, <2>2
      <3>2. j \in places(from, all)
        BY <2>1, <3>1
      <3>3. PICK i \in 1..n : at[i] = j
        BY <1>4, <3>2
      <3>4. i \in DOMAIN to
        BY <1>1, <1>9
      <3> QED
        BY <1>9, <3>3, <3>4
    <2>3. CASE ~ (j <= m)
      <3>1. j - m \in 1..Len(x) /\ j = m + (j - m)
        BY <1>1, <1>2, <2>1, <2>3
      <3>2. x[j - m] \in set
        BY <1>1, <2>1, <3>1
      <3>3. PICK k \in 1..Len(y) : pos[k] = j - m
        BY <1>7, <3>1, <3>2
      <3>4. n + k \in DOMAIN to /\ to[n + k] = j
        BY <1>1, <1>9, <3>1, <3>3
      <3> QED
        BY <3>4
    <2> QED
      BY <2>2, <2>3
  <1>15. ASSUME NEW i \in DOMAIN to, NEW k \in DOMAIN to, i < k
         PROVE  to[i] < to[k]
    <2>1. i \in 1..n + Len(y) /\ k \in 1..n + Len(y)
      BY <1>9
    <2>2. CASE i \in 1..n /\ k \in 1..n
      BY <1>3, <1>9, <1>15, <2>2
    <2>3. CASE i \in 1..n /\ k \notin 1..n
      <3>1. PICK h \in 1..Len(y) : k = n + h
        BY <1>10, <2>1, <2>3
      <3>2. to[i] \in from..m /\ to[k] = m + pos[h] /\ pos[h] \in 1..Len(x)
        BY <1>5, <1>6, <1>9, <2>3, <3>1
      <3> QED
        BY <1>1, <1>2, <3>2
    <2>4. CASE i \notin 1..n
      <3>1. PICK g \in 1..Len(y) : i = n + g
        BY <1>10, <2>1, <2>4
      <3>2. k \notin 1..n
        BY <1>1, <1>15, <2>1, <3>1
      <3>3. PICK h \in 1..Len(y) : k = n + h
        BY <1>10, <2>1, <3>2
      <3>4. g < h
        BY <1>1, <1>15, <3>1, <3>3
      <3>5. pos[g] < pos[h] /\ pos[g] \in Nat /\ pos[h] \in Nat
        BY <1>1, <1>6, <1>8, <3>4
      <3> QED
        BY <1>1, <1>9, <3>1, <3>3, <3>5
    <2> QED
      BY <2>2, <2>3, <2>4
  <1>16. ToSet(to) = places(from, a)
    <2>1. \A i \in DOMAIN to : to[i] \in places(from, a)
      BY <1>13
    <2> QED
      BY <1>14, <2>1 DEF ToSet
  <1>17. from \in 1..Len(a) + 1
    BY <1>1, <1>2
  <1> QED
    BY <1>13, <1>15, <1>16, <1>17 DEF IsTailOf, a, l

SpotsOf(g) == {s \in DOMAIN spotDocs : spotDocs[s] = g}

\* Snapshots and the complete list hold spots there are, with their records.
TrueInv ==
  /\ \A b \in Queued : b.kind = "spots" =>
       \A d \in b.docs : d[1] \in DOMAIN spotDocs /\ spotDocs[d[1]] = d[2]
  /\ \A i \in 1..Len(allArray) : allArray[i] \in DOMAIN spotDocs
  /\ \A g \in DOMAIN spotsList : IsTailOf(spotsList[g], allArray, SpotsOf(g))

LEMMA TrueInit == Init => TrueInv
  <1> SUFFICES ASSUME Init PROVE TrueInv
    OBVIOUS
  <1>1. Queued = {} /\ Len(allArray) = 0 /\ DOMAIN spotsList = {}
    BY DEF Init, Queued
  <1> QED
    BY <1>1 DEF TrueInv

\* A step that leaves documents and lists alone, and snaps nothing.
LEMMA TrueKept ==
  ASSUME TrueInv, UNCHANGED <<spotDocs, allArray, spotsList>>,
         \A b \in Queued' : b \in Queued \/ b.kind # "spots"
  PROVE  TrueInv'
  <1>1. \A b \in Queued' : b.kind = "spots" =>
          \A d \in b.docs : d[1] \in DOMAIN spotDocs' /\ spotDocs'[d[1]] = d[2]
    BY DEF TrueInv
  <1>2. \A g : SpotsOf(g)' = SpotsOf(g)
    BY DEF SpotsOf
  <1> QED
    BY <1>1, <1>2 DEF TrueInv

\* What a spot's record says does not change.
LEMMA TrueSaveSpot ==
  ASSUME TypesInv, TrueInv, NEW s \in Spots, SaveSpot(s)
  PROVE  TrueInv'
  <1>1. UNCHANGED <<allArray, spotsList, queries, mainQ>>
    BY DEF SaveSpot, lists
  <1>2. Queued' = Queued
    BY <1>1, WorkKept
  <1>3. \A t \in DOMAIN spotDocs : t \in DOMAIN spotDocs' /\ spotDocs'[t] = spotDocs[t]
    <2>1. s \notin DOMAIN spotDocs
      BY DEF SaveSpot
    <2>2. PICK r : spotDocs' = [t \in DOMAIN spotDocs \cup {s} |->
                                  IF t = s THEN r ELSE spotDocs[t]]
      BY DEF SaveSpot
    <2> QED
      BY <2>1, <2>2
  <1>4. ASSUME NEW b \in Queued', b.kind = "spots", NEW d \in b.docs
        PROVE  d[1] \in DOMAIN spotDocs' /\ spotDocs'[d[1]] = d[2]
    BY <1>2, <1>3, <1>4 DEF TrueInv
  <1>5. \A i \in 1..Len(allArray') : allArray'[i] \in DOMAIN spotDocs'
    BY <1>1, <1>3 DEF TrueInv
  <1>6. ASSUME NEW g \in DOMAIN spotsList'
        PROVE  IsTailOf(spotsList'[g], allArray', SpotsOf(g)')
    <2>1. \A j \in 1..Len(allArray) : allArray[j] \in SpotsOf(g) <=> allArray[j] \in SpotsOf(g)'
      BY <1>3 DEF TrueInv, SpotsOf
    <2>2. IsTailOf(spotsList[g], allArray, SpotsOf(g)) /\ Len(allArray) \in Nat
      BY <1>1, <1>6 DEF TrueInv, TypesInv, TypeOK
    <2>3. IsTailOf(spotsList[g], allArray, SpotsOf(g)')
      BY <2>1, <2>2, TailOfAnother
    <2> QED
      BY <1>1, <2>3
  <1> QED
    BY <1>4, <1>5, <1>6 DEF TrueInv

LEMMA TrueAppear ==
  ASSUME TypesInv, TrueInv, Appear
  PROVE  TrueInv'
  <1>1. Queued' = Queued /\ spotDocs' = spotDocs /\ spotsList' = <<>> /\ allArray' = <<>>
    BY WorkAppear DEF Appear, AppearWith, data
  <1>2. Len(allArray') = 0 /\ DOMAIN spotsList' = {}
    BY <1>1
  <1> QED
    BY <1>1, <1>2 DEF TrueInv

LEMMA TrueAnswer ==
  ASSUME TypesInv, TrueInv, NEW q \in queries, Answer(q)
  PROVE  TrueInv'
  <1>1. PICK b \in Blocks :
          /\ b.kind = q.kind
          /\ b.docs = IF q.kind = "spots"
                        THEN {<<s, spotDocs[s]>> : s \in DOMAIN spotDocs}
                        ELSE genreDocs
          /\ Queued' = Queued \cup {b}
    BY WorkAnswer
  <1>2. UNCHANGED <<spotDocs, allArray, spotsList>>
    BY DEF Answer, data, lists
  <1>3. ASSUME b.kind = "spots", NEW d \in b.docs
        PROVE  d[1] \in DOMAIN spotDocs /\ spotDocs[d[1]] = d[2]
    BY <1>1, <1>3
  <1>4. ASSUME NEW c \in Queued', c.kind = "spots", NEW d \in c.docs
        PROVE  d[1] \in DOMAIN spotDocs' /\ spotDocs'[d[1]] = d[2]
    BY <1>1, <1>2, <1>3, <1>4 DEF TrueInv
  <1>5. \A g : SpotsOf(g)' = SpotsOf(g)
    BY <1>2 DEF SpotsOf
  <1> QED
    BY <1>2, <1>4, <1>5 DEF TrueInv

\* createGenre's callback empties lists.
LEMMA TrueRunGenres ==
  ASSUME TypesInv, TrueInv, RunGenres
  PROVE  TrueInv'
  <1> DEFINE h == Head(mainQ)
             found == {d.name : d \in h.docs}
  <1>1. Queued' \subseteq Queued
    BY WorkGenres
  <1>2. CASE Crash("genreColor")
    BY <1>1, <1>2, TrueKept DEF Crash, data, lists
  <1>3. CASE ~Crash("genreColor")
    <2>1. /\ spotsList' = [g \in DOMAIN spotsList \cup found |->
                             IF g \in found THEN <<>> ELSE spotsList[g]]
          /\ UNCHANGED <<spotDocs, allArray>>
      BY <1>3, WorkGenres DEF data
    <2> HIDE DEF found
    <2>2. allArray \in Seq(Spots)
      BY DEF TypesInv, TypeOK
    <2>3. \A g : SpotsOf(g)' = SpotsOf(g)
      BY <2>1 DEF SpotsOf
    <2>4. ASSUME NEW g \in DOMAIN spotsList'
          PROVE  IsTailOf(spotsList'[g], allArray', SpotsOf(g)')
      <3>1. CASE g \in found
        <4>1. spotsList'[g] = <<>>
          BY <2>1, <3>1
        <4> QED
          BY <2>1, <2>2, <4>1, TailEmpty
      <3>2. CASE g \notin found
        <4>1. g \in DOMAIN spotsList /\ spotsList'[g] = spotsList[g]
          BY <2>1, <2>4, <3>2
        <4> QED
          BY <2>1, <2>3, <4>1 DEF TrueInv
      <3> QED
        BY <3>1, <3>2
    <2>5. \A b \in Queued' : b.kind = "spots" =>
            \A d \in b.docs : d[1] \in DOMAIN spotDocs' /\ spotDocs'[d[1]] = d[2]
      BY <1>1, <2>1 DEF TrueInv
    <2>6. \A i \in 1..Len(allArray') : allArray'[i] \in DOMAIN spotDocs'
      BY <2>1 DEF TrueInv
    <2> QED
      BY <2>4, <2>5, <2>6 DEF TrueInv
  <1> QED
    BY <1>2, <1>3

\* fetchSaved's callback appends the same spots to the complete list and, each
\* to its genre's, to the others.
LEMMA TrueRunSpots ==
  ASSUME TypesInv, TrueInv, RunSpots
  PROVE  TrueInv'
  <1> DEFINE h == Head(mainQ)
             x == InOrder(h.docs, Records)
  <1>1. /\ h.kind = "spots" /\ h \in Queued /\ h.docs \in SUBSET (Spots \X Records)
        /\ \A b \in Queued' : b \in Queued \/ b.kind # "spots"
    BY WorkSpots
  <1>2. CASE Crash("spotColor")
    BY <1>1, <1>2, TrueKept DEF Crash, data, lists
  <1>3. CASE ~Crash("spotColor")
    <2>1. /\ spotsList' = [g \in DOMAIN spotsList |->
                             spotsList[g] \o InOrder(h.docs, {g})]
          /\ allArray' = allArray \o x
          /\ spotDocs' = spotDocs
      BY <1>3, WorkSpots DEF data
    <2> HIDE DEF h
    <2>2. \A d \in h.docs : d[1] \in DOMAIN spotDocs /\ spotDocs[d[1]] = d[2]
      BY <1>1 DEF TrueInv
    <2>3. /\ x \in Seq(Spots) /\ \A i, j \in DOMAIN x : i < j => x[i] < x[j]
          /\ ToSet(x) = {d[1] : d \in {e \in h.docs : e[2] \in Records}}
      BY <1>1, InOrderLists
    <2>4. ToSet(x) = {d[1] : d \in h.docs}
      <3>1. {e \in h.docs : e[2] \in Records} = h.docs
        BY <1>1
      <3> QED
        BY <2>3, <3>1
    <2> HIDE DEF x
    <2>5. allArray \in Seq(Spots) /\ \A g \in DOMAIN spotsList : spotsList[g] \in Seq(Spots)
      BY DEF TypesInv, TypeOK
    <2>6. \A g : SpotsOf(g)' = SpotsOf(g)
      BY <2>1 DEF SpotsOf
    <2>7. ASSUME NEW g \in DOMAIN spotsList'
          PROVE  IsTailOf(spotsList'[g], allArray', SpotsOf(g)')
      <3> DEFINE y == InOrder(h.docs, {g})
      <3>1. /\ y \in Seq(Spots) /\ \A i, j \in DOMAIN y : i < j => y[i] < y[j]
            /\ ToSet(y) = {d[1] : d \in {e \in h.docs : e[2] \in {g}}}
        BY <1>1, InOrderLists
      <3>2. ToSet(y) = {s \in ToSet(x) : s \in SpotsOf(g)}
        <4>1. ASSUME NEW s \in ToSet(y) PROVE s \in ToSet(x) /\ s \in SpotsOf(g)
          <5>1. PICK d \in h.docs : d[2] = g /\ s = d[1]
            BY <3>1
          <5> QED
            BY <2>2, <2>4, <5>1 DEF SpotsOf
        <4>2. ASSUME NEW s \in ToSet(x), s \in SpotsOf(g) PROVE s \in ToSet(y)
          <5>1. PICK d \in h.docs : s = d[1]
            BY <2>4
          <5>2. d[2] = g
            BY <2>2, <4>2, <5>1 DEF SpotsOf
          <5> QED
            BY <3>1, <5>1, <5>2
        <4> QED
          BY <4>1, <4>2
      <3> HIDE DEF y
      <3>3. g \in DOMAIN spotsList /\ spotsList'[g] = spotsList[g] \o y
        BY <2>1, <2>7 DEF y
      <3>4. IsTailOf(spotsList[g], allArray, SpotsOf(g)) /\ spotsList[g] \in Seq(Spots)
        BY <2>5, <3>3 DEF TrueInv
      <3>5. IsTailOf(spotsList[g] \o y, allArray \o x, SpotsOf(g))
        BY <2>3, <2>5, <3>1, <3>2, <3>4, TailLonger
      <3> QED
        BY <2>1, <2>6, <3>3, <3>5
    <2>8. ASSUME NEW i \in 1..Len(allArray')
          PROVE  allArray'[i] \in DOMAIN spotDocs'
      <3>1. allArray'[i] \in ToSet(allArray) \cup ToSet(x)
        <4>1. /\ Len(allArray') = Len(allArray) + Len(x)
              /\ Len(allArray) \in Nat /\ Len(x) \in Nat
              /\ DOMAIN allArray = 1..Len(allArray) /\ DOMAIN x = 1..Len(x)
          BY <2>1, <2>3, <2>5
        <4>2. CASE i <= Len(allArray)
          <5>1. i \in DOMAIN allArray /\ allArray'[i] = allArray[i]
            BY <2>1, <2>3, <2>5, <4>1, <4>2
          <5> QED
            BY <5>1 DEF ToSet
        <4>3. CASE ~ (i <= Len(allArray))
          <5>1. i - Len(allArray) \in DOMAIN x /\ allArray'[i] = x[i - Len(allArray)]
            BY <2>1, <2>3, <2>5, <4>1, <4>3
          <5> QED
            BY <5>1 DEF ToSet
        <4> QED
          BY <4>2, <4>3
      <3>2. \A s \in ToSet(x) : s \in DOMAIN spotDocs
        BY <2>2, <2>4
      <3>3. \A s \in ToSet(allArray) : s \in DOMAIN spotDocs
        BY <2>5 DEF TrueInv, ToSet
      <3> QED
        BY <2>1, <3>1, <3>2, <3>3
    <2>9. \A b \in Queued' : b.kind = "spots" =>
            \A d \in b.docs : d[1] \in DOMAIN spotDocs' /\ spotDocs'[d[1]] = d[2]
      BY <1>1, <2>1 DEF TrueInv
    <2> QED
      BY <2>7, <2>8, <2>9 DEF TrueInv
  <1> QED
    BY <1>2, <1>3

LEMMA TrueStep == TypesInv /\ TrueInv /\ [Next]_vars => TrueInv'
  <1> SUFFICES ASSUME TypesInv, TrueInv, [Next]_vars
               PROVE  TrueInv'
    OBVIOUS
  <1>1. ASSUME NEW g \in Genres, NEW c \in Colors, SaveGenre(g, c) PROVE TrueInv'
    BY <1>1, WorkKept, TrueKept DEF SaveGenre, lists
  <1>2. ASSUME NEW s \in Spots, SaveSpot(s) PROVE TrueInv'
    BY <1>2, TrueSaveSpot
  <1>3. CASE Leave
    BY <1>3, WorkKept, TrueKept DEF Leave, data, lists
  <1>4. CASE Appear
    BY <1>4, TrueAppear
  <1>5. ASSUME NEW q \in queries, Answer(q) PROVE TrueInv'
    BY <1>5, TrueAnswer
  <1>6. ASSUME NEW q \in queries, Fail(q) PROVE TrueInv'
    BY <1>6, WorkFail, TrueKept DEF Fail, data, lists
  <1>7. CASE RunDropdown
    <2>1. \A b \in Queued' : b \in Queued \/ b.kind # "spots"
      BY <1>7, WorkDropdown
    <2> QED
      BY <1>7, <2>1, TrueKept DEF RunDropdown, data
  <1>8. CASE RunGenres
    BY <1>8, TrueRunGenres
  <1>9. CASE RunSpots
    BY <1>9, TrueRunSpots
  <1>10. CASE RunReloadGenres \/ RunReloadSpots
    BY <1>10, WorkReload, TrueKept DEF RunReloadGenres, RunReloadSpots, data
  <1>11. ASSUME NEW i \in 1..genreRows, SelectGenre(i) PROVE TrueInv'
    BY <1>11, WorkKept, TrueKept DEF SelectGenre, data
  <1>12. ASSUME NEW i \in 1..spotRows, TouchRow(i) PROVE TrueInv'
    BY <1>12, WorkKept, TrueKept DEF TouchRow, Crash, data, lists
  <1>13. CASE UNCHANGED vars
    BY <1>13, WorkKept, TrueKept DEF vars, data, lists
  <1> QED
    BY <1>1, <1>2, <1>3, <1>4, <1>5, <1>6, <1>7, <1>8, <1>9, <1>10, <1>11, <1>12, <1>13
    DEF Next, MainQueue

\* However loads overlap, each genre's list is the end of what the complete
\* list holds of that genre, in the same order.
THEOREM GenreListsEndTheCompleteOne == Spec => []GenreListsAreSuffixes
  <1>1. TrueInv => GenreListsAreSuffixes
    BY DEF TrueInv, GenreListsAreSuffixes, SpotsOf
  <1> QED
    BY <1>1, TrueInit, TypesAlways, TrueStep, PTL DEF Spec
-----------------------------------------------------------------------------
(* The names of genres, as a person types them.                              *)

Text == INSTANCE GenreText

\* What can be typed with some words, and what can be in a record of it.
Typed(Words) == Seq([word : Words, upper : BOOLEAN] \cup {Text!Space, Text!Underscore})
Letters(Words) == [word : Words \cup {"null"}, upper : {FALSE}] \cup {Text!Underscore}

\* A record that neither begins nor ends with an underscore and is not no_genre.
Plain(record) ==
  /\ record # <<Text!Token("no", FALSE), Text!Underscore, Text!Token("genre", FALSE)>>
  /\ record # <<>> => record[1] # Text!Underscore /\ record[Len(record)] # Text!Underscore

\* The first and the last of some places.
LEMMA FirstAndLast ==
  ASSUME NEW n \in Nat, NEW K \in SUBSET (1..n), K # {}
  PROVE  /\ Text!Min(K) \in K /\ \A k \in K : Text!Min(K) <= k
         /\ Text!Max(K) \in K /\ \A k \in K : k <= Text!Max(K)
  <1>1. \E k \in K : \A i \in K : k <= i
    <2>1. K \subseteq Nat
      OBVIOUS
    <2> QED
      BY <2>1, Smallest
  <1>2. \E k \in K : \A i \in K : k >= i
    <2> DEFINE R == {n - k : k \in K}
    <2>1. R \subseteq Nat /\ R # {}
      <3>1. \A k \in K : n - k \in Nat
        OBVIOUS
      <3>2. PICK k \in K : TRUE
        OBVIOUS
      <3>3. n - k \in R
        OBVIOUS
      <3> QED
        BY <3>1, <3>3
    <2>2. PICK r \in R : \A q \in R : r <= q
      BY <2>1, Smallest
    <2>3. PICK k \in K : r = n - k
      BY <2>2
    <2>4. \A i \in K : n - k <= n - i
      BY <2>2, <2>3
    <2>5. k \in Nat /\ \A i \in K : i \in Nat
      <3>1. K \subseteq Nat
        OBVIOUS
      <3> QED
        BY <3>1
    <2> QED
      BY <2>3, <2>4, <2>5
  <1>3. Text!Min(K) \in K /\ \A k \in K : Text!Min(K) <= k
    BY <1>1 DEF Text!Min
  <1>4. Text!Max(K) \in K /\ \A k \in K : Text!Max(K) >= k
    BY <1>2 DEF Text!Max
  <1>5. \A k \in K : k \in Nat
    OBVIOUS
  <1> QED
    BY <1>3, <1>4, <1>5

\* Trimming a text takes spaces away at its ends, and none where there is none.
LEMMA Trims ==
  ASSUME NEW T, NEW text \in Seq(T)
  PROVE  /\ Text!Trim(text) \in Seq(T)
         /\ text # <<>> /\ (text[1] = Text!Space \/ text[Len(text)] = Text!Space) =>
              Len(Text!Trim(text)) < Len(text)
         /\ (text # <<>> => text[1] # Text!Space /\ text[Len(text)] # Text!Space) =>
              Text!Trim(text) = text
  <1> DEFINE n == Len(text)
             K == {i \in 1..Len(text) : text[i] # Text!Space}
             a == Text!Min(K)
             b == Text!Max(K)
  <1>1. n \in Nat /\ (text # <<>> <=> n # 0)
    OBVIOUS
  <1>2. CASE K = {}
    <2>1. Text!Trim(text) = <<>>
      BY <1>2 DEF Text!Trim
    <2>2. text # <<>> => 1 \notin K /\ 1 \in 1..n
      BY <1>1, <1>2
    <2> QED
      BY <1>1, <2>1, <2>2
  <1>3. CASE K # {}
    <2>1. /\ a \in K /\ b \in K /\ K \subseteq 1..n
          /\ \A k \in K : a <= k /\ k <= b
      BY <1>1, <1>3, FirstAndLast
    <2>2. Text!Trim(text) = SubSeq(text, a, b)
      BY <1>3 DEF Text!Trim
    <2> HIDE DEF a, b
    <2>3. a \in 1..n /\ b \in 1..n /\ a <= b
      BY <2>1
    <2>4. SubSeq(text, a, b) \in Seq(T) /\ Len(SubSeq(text, a, b)) = b - a + 1
      BY <1>1, <2>3
    <2>5. ASSUME text[1] = Text!Space \/ text[n] = Text!Space
          PROVE  b - a + 1 < n
      <3>1. a # 1 \/ b # n
        BY <2>1, <2>5
      <3> QED
        BY <1>1, <2>3, <3>1
    <2>6. ASSUME text[1] # Text!Space, text[n] # Text!Space
          PROVE  SubSeq(text, a, b) = text
      <3>1. 1 \in K /\ n \in K
        BY <1>1, <2>3, <2>6
      <3>2. a = 1 /\ b = n
        BY <1>1, <2>1, <2>3, <3>1
      <3> QED
        BY <1>1, <3>2
    <2>7. text # <<>>
      BY <1>1, <2>3
    <2> QED
      BY <2>2, <2>4, <2>5, <2>6, <2>7
  <1> QED
    BY <1>2, <1>3

\* A record is displayed token by token, and each token is parsed back.
LEMMA TokensSurvive ==
  ASSUME NEW Words, "SPACE" \notin Words, "UNDERSCORE" \notin Words, NEW t \in Letters(Words)
  PROVE  /\ Text!Lowercased(Text!Displayed(t)) = t
         /\ Text!Displayed(t) = Text!Space <=> t = Text!Underscore
  <1>1. CASE t = Text!Underscore
    BY <1>1 DEF Text!Displayed, Text!Lowercased
  <1>2. CASE t # Text!Underscore
    <2>1. PICK w \in Words \cup {"null"} : t = [word |-> w, upper |-> FALSE]
      BY <1>2 DEF Letters
    <2>2. w # "SPACE" /\ t.word = w
      BY <2>1
    <2> DEFINE u == w \notin Text!connectors
    <2>3. Text!Displayed(t) = [word |-> w, upper |-> u]
      BY <1>2, <2>2 DEF Text!Displayed, Text!Token
    <2> HIDE DEF u
    <2>4. Text!Displayed(t) # Text!Space
      BY <2>2, <2>3 DEF Text!Space, Text!Token
    <2>5. Text!Lowercased(Text!Displayed(t)) = [word |-> w, upper |-> FALSE]
      BY <2>3, <2>4 DEF Text!Lowercased, Text!Token
    <2> QED
      BY <1>2, <2>1, <2>4, <2>5
  <1> QED
    BY <1>1, <1>2

LEMMA RecordTyped ==
  ASSUME NEW Words, NEW text \in Typed(Words)
  PROVE  Text!parseInputToRecord(text) \in Seq(Letters(Words))
  <1> DEFINE T == [word : Words, upper : BOOLEAN] \cup {Text!Space, Text!Underscore}
             clean == Text!Trim(text)
  <1>1. clean \in Seq(T)
    BY Trims DEF Typed
  <1>2. \A t \in T : Text!Lowercased(t) \in Letters(Words)
    <2> TAKE t \in T
    <2>1. CASE t = Text!Space \/ t = Text!Underscore
      <3>1. Text!Underscore.word = "UNDERSCORE"
            /\ Text!Underscore = Text!Token("UNDERSCORE", FALSE)
        BY DEF Text!Token, Text!Underscore
      <3>2. Text!Lowercased(t) = Text!Underscore
        BY <2>1, <3>1 DEF Text!Lowercased
      <3> QED
        BY <3>2 DEF Letters
    <2>2. CASE t # Text!Space /\ t # Text!Underscore
      <3>1. t.word \in Words
        BY <2>2
      <3>2. Text!Lowercased(t) = [word |-> t.word, upper |-> FALSE]
        BY <2>2 DEF Text!Lowercased, Text!Token
      <3> QED
        BY <3>1, <3>2 DEF Letters
    <2> QED
      BY <2>1, <2>2
  <1>3. Text!NullRecord \in Seq(Letters(Words))
    BY DEF Text!NullRecord, Text!Token, Letters
  <1> HIDE DEF T, clean
  <1>4. Len(clean) \in Nat /\ \A i \in 1..Len(clean) : clean[i] \in T
    BY <1>1
  <1>5. [i \in 1..Len(clean) |-> Text!Lowercased(clean[i])] \in Seq(Letters(Words))
    BY <1>2, <1>4
  <1> QED
    BY <1>3, <1>5 DEF Text!parseInputToRecord, clean

\* What remains of a record after display and parsing.
LEMMA NullSurvives == Text!Reparsed(Text!NullRecord) = Text!NullRecord /\ Plain(Text!NullRecord)
  <1> DEFINE no == Text!NoGenreText
             T == {Text!Token("no", TRUE), Text!Space, Text!Token("genre", TRUE)}
  <1>1. Text!parseRecordToDisplayText(Text!NullRecord) = no
    BY DEF Text!parseRecordToDisplayText
  <1>2. /\ no \in Seq(T) /\ Len(no) = 3
        /\ no[1] = Text!Token("no", TRUE) /\ no[3] = Text!Token("genre", TRUE)
    BY DEF Text!NoGenreText
  <1>3. no[1] # Text!Space /\ no[Len(no)] # Text!Space
    BY <1>2 DEF Text!Token, Text!Space
  <1> HIDE DEF no, T
  <1>4. Text!Trim(no) = no
    BY <1>2, <1>3, Trims
  <1>5. Text!parseInputToRecord(no) = Text!NullRecord
    BY <1>4 DEF Text!parseInputToRecord, no
  <1>6. Plain(Text!NullRecord)
    <2>1. /\ Text!NullRecord = <<Text!Token("null", FALSE)>>
          /\ Text!Token("null", FALSE) # Text!Underscore
      BY DEF Text!NullRecord, Text!Token, Text!Underscore
    <2> HIDE DEF Text!Token, Text!Underscore
    <2>2. Len(Text!NullRecord) = 1 /\ Text!NullRecord[1] # Text!Underscore
      BY <2>1
    <2>3. Text!NullRecord #
            <<Text!Token("no", FALSE), Text!Underscore, Text!Token("genre", FALSE)>>
      BY <2>1
    <2> QED
      BY <2>2, <2>3 DEF Plain
  <1> QED
    BY <1>1, <1>5, <1>6 DEF Text!Reparsed

\* A record is shown as No Genre, and so parsed as the null record, only if it
\* is no_genre.
LEMMA ShownAsNoGenre ==
  ASSUME NEW Words, "SPACE" \notin Words, "UNDERSCORE" \notin Words,
         NEW r \in Seq(Letters(Words))
  PROVE  [i \in 1..Len(r) |-> Text!Displayed(r[i])] = Text!NoGenreText <=>
           r = <<Text!Token("no", FALSE), Text!Underscore, Text!Token("genre", FALSE)>>
  <1> DEFINE d == [i \in 1..Len(r) |-> Text!Displayed(r[i])]
             N == Text!Token("no", FALSE)
             U == Text!Underscore
             G == Text!Token("genre", FALSE)
             A == Text!Token("no", TRUE)
             S == Text!Space
             B == Text!Token("genre", TRUE)
  <1>1. Text!Displayed(N) = A /\ Text!Displayed(U) = S /\ Text!Displayed(G) = B
    BY DEF Text!Displayed, Text!Token, Text!Underscore, Text!connectors
  <1>2. Text!Lowercased(A) = N /\ Text!Lowercased(S) = U /\ Text!Lowercased(B) = G
    BY DEF Text!Lowercased, Text!Token, Text!Space
  <1>3. Text!NoGenreText = <<A, S, B>>
    BY DEF Text!NoGenreText
  <1>4. Len(r) \in Nat /\ \A i \in 1..Len(r) : r[i] \in Letters(Words)
    OBVIOUS
  <1>5. \A i \in 1..Len(r) : Text!Lowercased(Text!Displayed(r[i])) = r[i]
    BY <1>4, TokensSurvive
  <1> HIDE DEF N, U, G, A, S, B
  <1>6. ASSUME d = <<A, S, B>> PROVE r = <<N, U, G>>
    <2>1. 1..Len(r) = 1..3
      <3>1. DOMAIN d = 1..Len(r)
        OBVIOUS
      <3>2. DOMAIN <<A, S, B>> = 1..3
        OBVIOUS
      <3> HIDE DEF d
      <3> QED
        BY <1>6, <3>1, <3>2
    <2>2. Len(r) = 3
      <3> DEFINE n == Len(r)
      <3>1. n \in Nat /\ 1..n = 1..3
        BY <1>4, <2>1
      <3> HIDE DEF n
      <3>2. 3 \in 1..n /\ 4 \notin 1..n
        <4>1. 3 \in 1..3 /\ 4 \notin 1..3
          OBVIOUS
        <4> QED
          BY <3>1, <4>1, Zenon
      <3>3. n = 3
        BY <3>1, <3>2
      <3> QED
        BY <3>3 DEF n
    <2>3. d[1] = A /\ d[2] = S /\ d[3] = B
      BY <1>6
    <2>4. r[1] = N /\ r[2] = U /\ r[3] = G
      BY <1>2, <1>5, <2>2, <2>3
    <2> QED
      BY <2>2, <2>4
  <1>7. ASSUME r = <<N, U, G>> PROVE d = <<A, S, B>>
    <2>1. Len(r) = 3 /\ r[1] = N /\ r[2] = U /\ r[3] = G
      BY <1>7
    <2>2. d = [i \in 1..3 |-> Text!Displayed(r[i])]
      BY <2>1
    <2>3. d[1] = A /\ d[2] = S /\ d[3] = B
      BY <1>1, <2>1
    <2> QED
      BY <2>2, <2>3
  <1> QED
    BY <1>3, <1>6, <1>7 DEF N, U, G, A, S, B

\* A record that is typed comes back from its display exactly when it is plain:
\* the underscores at its ends are displayed as spaces, which are trimmed, and
\* no_genre is displayed as the text that stands for no genre.
LEMMA PlainSurvives ==
  ASSUME NEW Words, "SPACE" \notin Words, "UNDERSCORE" \notin Words,
         NEW r \in Seq(Letters(Words)), r # Text!NullRecord
  PROVE  Text!Reparsed(r) = r <=> Plain(r)
  <1> DEFINE n == Len(r)
             d == [i \in 1..Len(r) |-> Text!Displayed(r[i])]
             clean == Text!Trim(d)
             back == [i \in 1..Len(clean) |-> Text!Lowercased(clean[i])]
             noGenre == <<Text!Token("no", FALSE), Text!Underscore, Text!Token("genre", FALSE)>>
  <1>1. n \in Nat /\ (r = <<>> <=> n = 0) /\ \A i \in 1..n : r[i] \in Letters(Words)
    OBVIOUS
  <1>2. \A i \in 1..n : /\ Text!Lowercased(d[i]) = r[i]
                        /\ d[i] = Text!Space <=> r[i] = Text!Underscore
    BY <1>1, TokensSurvive
  <1>3. Text!Reparsed(r) = IF clean = Text!NoGenreText THEN Text!NullRecord ELSE back
    BY DEF Text!Reparsed, Text!parseInputToRecord, Text!parseRecordToDisplayText
  <1>4. d = Text!NoGenreText <=> r = noGenre
    BY ShownAsNoGenre
  <1> DEFINE T == {Text!Displayed(t) : t \in Letters(Words)}
  <1>5. d \in Seq(T) /\ Len(d) = n /\ (d = <<>> <=> n = 0)
    <2>1. \A i \in 1..n : d[i] \in T
      BY <1>1
    <2>2. d \in [1..n -> T]
      BY <2>1
    <2> QED
      BY <1>1, <2>2
  <1> HIDE DEF T, d
  <1>6. /\ clean \in Seq(T)
        /\ n # 0 /\ (d[1] = Text!Space \/ d[n] = Text!Space) => Len(clean) < n
        /\ (n # 0 => d[1] # Text!Space /\ d[n] # Text!Space) => clean = d
    BY <1>5, Trims
  <1> HIDE DEF clean
  <1>7. n # 0 => 1 \in 1..n /\ n \in 1..n
    BY <1>1
  <1> HIDE DEF noGenre
  <1>8. CASE n # 0 /\ (r[1] = Text!Underscore \/ r[n] = Text!Underscore)
    <2>1. Len(clean) < n /\ Len(clean) \in Nat
      BY <1>2, <1>6, <1>7, <1>8
    <2>2. back # r
      <3>1. DOMAIN back = 1..Len(clean) /\ DOMAIN r = 1..n
        OBVIOUS
      <3> DEFINE m == Len(clean)
      <3>2. m < n /\ m \in Nat
        BY <2>1
      <3> HIDE DEF n, m
      <3>3. n \in 1..n /\ n \notin 1..m
        BY <1>1, <3>2
      <3> HIDE DEF back
      <3> QED
        BY <3>1, <3>3 DEF n, m
    <2>3. Text!Reparsed(r) # r
      BY <1>3, <2>2
    <2>4. ~Plain(r)
      BY <1>1, <1>8 DEF Plain
    <2> QED
      BY <2>3, <2>4
  <1>9. CASE ~(n # 0 /\ (r[1] = Text!Underscore \/ r[n] = Text!Underscore))
    <2>1. clean = d
      BY <1>2, <1>6, <1>7, <1>9
    <2>2. back = r
      <3>1. back = [i \in 1..n |-> r[i]]
        BY <1>2, <1>5, <2>1
      <3> QED
        BY <3>1
    <2>3. Plain(r) <=> r # noGenre
      BY <1>1, <1>9 DEF Plain, noGenre
    <2> HIDE DEF back
    <2> QED
      BY <1>3, <1>4, <2>1, <2>2, <2>3
  <1> QED
    BY <1>8, <1>9

\* What the screens store for a typed text is what the saved tab makes of the
\* row displayed for it, if and only if it is plain.
THEOREM PlainNamesSurvive ==
  ASSUME NEW Words, "SPACE" \notin Words, "UNDERSCORE" \notin Words,
         NEW text \in Typed(Words)
  PROVE  LET r == Text!parseInputToRecord(text)
         IN  Text!Reparsed(r) = r <=> Plain(r)
  <1> DEFINE r == Text!parseInputToRecord(text)
  <1>1. r \in Seq(Letters(Words))
    BY RecordTyped
  <1> HIDE DEF r
  <1>2. r = Text!NullRecord => (Text!Reparsed(r) = r <=> Plain(r))
    BY NullSurvives
  <1>3. r # Text!NullRecord => (Text!Reparsed(r) = r <=> Plain(r))
    BY <1>1, PlainSurvives
  <1> QED
    BY <1>2, <1>3 DEF r

\* With genres a person has typed, once a load has ended without an error and
\* without a save beside it, selecting the row of a plain genre selects that
\* very genre, and there is a list for it.
THEOREM PlainGenresCanBeSelected ==
  ASSUME NEW Words, "SPACE" \notin Words, "UNDERSCORE" \notin Words,
         \A g \in Genres : \E text \in Typed(Words) : g = Text!parseInputToRecord(text),
         \A g \in Genres : Reparse[g] = Text!Reparsed(g)
  PROVE  Spec => [](Quiet /\ ~failed /\ ~raced /\ crashed = "no" =>
           \A i \in 1..genreRows : Plain(genres[i]) =>
             Reparse[genres[i]] = genres[i] /\ genres[i] \in DOMAIN spotsList)
  <1>1. \A g \in Genres : Plain(g) => Reparse[g] = g
    BY PlainNamesSurvive
  <1>2. ASSUME TypesInv, RowsCanBeSelected, Quiet, ~failed, ~raced, crashed = "no",
               NEW i \in 1..genreRows, Plain(genres[i])
        PROVE  Reparse[genres[i]] = genres[i] /\ genres[i] \in DOMAIN spotsList
    <2>1. genres[i] \in Genres
      BY <1>2 DEF TypesInv, TypeOK
    <2>2. Reparse[genres[i]] = genres[i]
      BY <1>1, <1>2, <2>1
    <2> QED
      BY <1>2, <2>2 DEF RowsCanBeSelected
  <1>3. TypesInv /\ RowsCanBeSelected =>
          (Quiet /\ ~failed /\ ~raced /\ crashed = "no" =>
             \A i \in 1..genreRows : Plain(genres[i]) =>
               Reparse[genres[i]] = genres[i] /\ genres[i] \in DOMAIN spotsList)
    BY <1>2
  <1> QED
    BY <1>3, TypesAlways, EveryRowCanBeSelected, PTL
=============================================================================
