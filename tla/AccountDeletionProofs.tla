------------------------ MODULE AccountDeletionProofs ------------------------
(* Theorems about AccountDeletion, for every number of spots and failures.   *)
EXTENDS AccountDeletion, TLAPS

\* The blocks the main queue may hold: a listing has documents of mine only.
Blocks ==
  [run : {"notify"}, user : Users] \cup {[run |-> "deleted"]}
    \cup {b \in Listing : b.docs \subseteq {d \in Mine : d.in = b.in}}

Owned == {Me, Other} \X (0..MaxSpots)

\* What Firestore's writes keep: no deletion in them is of another's document.
LogInv ==
  /\ pending \in [Users -> Seq(Writes)]
  /\ ahead \in [Users -> Nat]
  /\ \A u \in Users : ahead[u] <= Len(pending[u])
  /\ \A u \in Users : \A i \in 1..Len(pending[u]) :
        ~pending[u][i].set => pending[u][i].doc \in Mine

StorageInv ==
  /\ images \subseteq Owned /\ removals \subseteq Owned /\ uploads \subseteq Owned
  /\ <<Other, 1>> \in images /\ \A i \in removals : i[1] = Me

ServerInv == server \subseteq Documents /\ FirstSpot(Other) \in server

PlainInv ==
  /\ account \in {"live", "deleted"}
  /\ signedIn \in Users /\ fsUser \in Users
  /\ screen \in {"profile", "login"}
  /\ queries \subseteq Kinds
  /\ call \in {"none", "sent", "done", "refused", "answered"}
  /\ spots \in 0..MaxSpots /\ tapped \in BOOLEAN /\ failures \in 0..MaxFailures
  /\ late \subseteq Mine

IInv == main \in Seq(Blocks) /\ LogInv /\ StorageInv /\ ServerInv /\ PlainInv

\* What a block on the main queue is known to be.
LEMMA BlockFacts ==
  ASSUME NEW b \in Blocks
  PROVE  /\ b.run = "listed" => b \in Listing /\ b.docs \subseteq {d \in Mine : d.in = b.in}
         /\ b.run = "notify" => b.user \in Users
  BY DEF Blocks, Listing

\* The inductive invariant says all that the type invariant and the safety
\* property say.
LEMMA InvImplies ==
  ASSUME IInv
  PROVE  TypeOK /\ OthersUntouched
  <1>1. \A i \in 1..Len(main) : main[i] \in Blocks
    BY DEF IInv
  <1>2. \A b \in Blocks :
          \/ b \in [run : {"notify"}, user : Users]
          \/ b = [run |-> "deleted"]
          \/ b \in Listing /\ \A d \in b.docs : d.in = b.in
    BY DEF Blocks
  <1>3. \A u \in Users : pending[u] \in Seq(Writes) /\ ahead[u] \in 0..Len(pending[u])
    BY DEF IInv, LogInv
  <1> QED
    BY <1>1, <1>2, <1>3
    DEF IInv, TypeOK, OthersUntouched, LogInv, StorageInv, ServerInv, PlainInv, Owned

LEMMA SpotFacts ==
  /\ FirstSpot(Me) \in Documents /\ FirstSpot(Other) \in Documents
  /\ FirstSpot(Other) \notin Mine
  /\ \A d \in Documents : Image(d) \in Owned
  /\ \A d \in Mine : Image(d) \in Owned /\ Image(d)[1] = Me /\ d \in Documents
  /\ ProfileImage \in Owned /\ ProfileImage[1] = Me
  BY BoundsAssumption, UidsAssumption
  DEF FirstSpot, Documents, Mine, Image, Owned, ProfileImage

LEMMA InitEstablishes == Init => IInv
  <1> SUFFICES ASSUME Init PROVE IInv
    OBVIOUS
  <1>1. LogInv
    BY DEF Init, Log!Init, LogInv
  <1>2. StorageInv
    BY BoundsAssumption, UidsAssumption DEF Init, StorageInv, Owned
  <1>3. ServerInv
    <2>1. FirstSpot(Other) # FirstSpot(Me)
      BY UidsAssumption DEF FirstSpot
    <2>2. FirstSpot(Other).id = 1
      BY DEF FirstSpot
    <2> QED
      BY <2>1, <2>2, SpotFacts DEF Init, ServerInv
  <1>4. PlainInv
    <2>1. spots \in 0..MaxSpots /\ failures \in 0..MaxFailures
      BY BoundsAssumption DEF Init
    <2> QED
      BY <2>1 DEF Init, PlainInv, Users
  <1>5. main \in Seq(Blocks)
    BY DEF Init
  <1> QED
    BY <1>1, <1>2, <1>3, <1>4, <1>5 DEF IInv

-----------------------------------------------------------------------------
(* Firestore's writes.                                                       *)

\* A new write that is not the deletion of another's document is harmless.
LEMMA MakeKeeps ==
  ASSUME LogInv, NEW u \in Users, NEW w \in Writes, ~w.set => w.doc \in Mine,
         Log!Make(u, w)
  PROVE  LogInv'
  <1>1. /\ pending' = [pending EXCEPT ![u] = Append(pending[u], w)]
        /\ ahead' = ahead
    BY DEF Log!Make
  <1>2. pending' \in [Users -> Seq(Writes)]
    BY <1>1 DEF LogInv
  <1>3. ASSUME NEW v \in Users
        PROVE  /\ ahead'[v] <= Len(pending'[v])
               /\ \A i \in 1..Len(pending'[v]) :
                    ~pending'[v][i].set => pending'[v][i].doc \in Mine
    <2>1. CASE v = u
      <3>1. pending'[v] = Append(pending[u], w) /\ pending[u] \in Seq(Writes)
        BY <1>1, <2>1 DEF LogInv
      <3> QED
        BY <1>1, <2>1, <3>1 DEF LogInv
    <2>2. CASE v # u
      BY <1>1, <2>2 DEF LogInv
    <2> QED
      BY <2>1, <2>2
  <1> QED
    BY <1>1, <1>2, <1>3 DEF LogInv

\* The head of a sequence ends, and nothing else of the sequences changes.
LEMMA EndKeeps ==
  ASSUME LogInv, NEW u \in Users, Log!Acknowledge(u) \/ Log!Refuse(u)
  PROVE  LogInv'
  <1>1. pending[u] \in Seq(Writes) /\ pending[u] # <<>>
    BY DEF LogInv, Log!Acknowledge, Log!Refuse
  <1>2. pending' = [pending EXCEPT ![u] = Tail(pending[u])]
    BY DEF Log!Acknowledge, Log!Refuse
  <1>3. \/ ahead[u] # 0 /\ ahead' = [ahead EXCEPT ![u] = ahead[u] - 1]
        \/ ahead[u] = 0 /\ ahead' = ahead
    BY DEF Log!Acknowledge, Log!Refuse
  <1>4. pending' \in [Users -> Seq(Writes)] /\ ahead' \in [Users -> Nat]
    <2>1. Tail(pending[u]) \in Seq(Writes)
      BY <1>1
    <2>2. ahead[u] # 0 => ahead[u] - 1 \in Nat
      BY DEF LogInv
    <2> QED
      BY <1>2, <1>3, <2>1, <2>2 DEF LogInv
  <1>5. ASSUME NEW v \in Users
        PROVE  /\ ahead'[v] <= Len(pending'[v])
               /\ \A i \in 1..Len(pending'[v]) :
                    ~pending'[v][i].set => pending'[v][i].doc \in Mine
    <2>1. CASE v = u
      <3>1. /\ pending'[v] = Tail(pending[u]) /\ Len(pending'[v]) = Len(pending[u]) - 1
            /\ \A i \in 1..Len(pending'[v]) : pending'[v][i] = pending[u][i + 1]
                                              /\ i + 1 \in 1..Len(pending[u])
        BY <1>1, <1>2, <2>1 DEF LogInv
      <3>2. ahead'[v] = IF ahead[u] = 0 THEN 0 ELSE ahead[u] - 1
        BY <1>3, <2>1 DEF LogInv
      <3>3. ahead[u] \in Nat /\ ahead[u] <= Len(pending[u]) /\ Len(pending[u]) \in Nat \ {0}
        BY <1>1 DEF LogInv
      <3>4. ahead'[v] <= Len(pending'[v])
        BY <3>1, <3>2, <3>3
      <3>5. \A i \in 1..Len(pending[u]) : ~pending[u][i].set => pending[u][i].doc \in Mine
        BY DEF LogInv
      <3> QED
        BY <3>1, <3>4, <3>5
    <2>2. CASE v # u
      BY <1>2, <1>3, <2>2 DEF LogInv
    <2> QED
      BY <2>1, <2>2
  <1> QED
    BY <1>4, <1>5 DEF LogInv

\* Applying a write and starting over only move the server's position.
LEMMA AheadKeeps ==
  ASSUME LogInv, NEW u \in Users,
         \/ Log!Apply(u) \/ Log!StartOver(u)
         \/ UNCHANGED pending /\ ahead' = [ahead EXCEPT ![u] = 0]
  PROVE  LogInv'
  <1>1. pending' = pending
    BY DEF Log!Apply, Log!StartOver
  <1>2. CASE Log!Apply(u)
    <2>1. ahead' = [ahead EXCEPT ![u] = ahead[u] + 1] /\ ahead[u] < Len(pending[u])
      BY <1>2 DEF Log!Apply
    <2>2. ahead[u] \in Nat /\ Len(pending[u]) \in Nat
      BY DEF LogInv
    <2>3. ahead[u] + 1 \in Nat /\ ahead[u] + 1 <= Len(pending[u])
      BY <2>1, <2>2
    <2> QED
      BY <1>1, <2>1, <2>3 DEF LogInv
  <1>3. CASE ahead' = [ahead EXCEPT ![u] = 0]
    <2>1. \A v \in Users : Len(pending[v]) \in Nat /\ 0 <= Len(pending[v])
      BY DEF LogInv
    <2> QED
      BY <1>1, <1>3, <2>1 DEF LogInv
  <1> QED
    BY <1>2, <1>3 DEF Log!StartOver

-----------------------------------------------------------------------------
(* Steps.                                                                    *)

\* What has happened to the main queue when its first block was run.
LEMMA TailTyped ==
  ASSUME main \in Seq(Blocks), main # <<>>
  PROVE  Head(main) \in Blocks /\ Tail(main) \in Seq(Blocks)
  OBVIOUS

LEMMA SaveSpotKeeps ==
  ASSUME IInv, NEW d \in Documents, SaveSpot(d)
  PROVE  IInv'
  <1>1. d \in Mine /\ Set(d) \in Writes /\ Set(d).set
    BY DEF SaveSpot, Set, Writes, Mine
  <1>2. LogInv'
    BY <1>1, MakeKeeps DEF SaveSpot, IInv, PlainInv
  <1>3. StorageInv'
    BY <1>1, SpotFacts DEF SaveSpot, IInv, StorageInv
  <1>4. spots' \in 0..MaxSpots
    BY <1>1, BoundsAssumption DEF SaveSpot, IInv, PlainInv, Documents, Mine
  <1>5. PlainInv'
    BY <1>1, <1>4 DEF SaveSpot, IInv, PlainInv, authVars
  <1> QED
    BY <1>2, <1>3, <1>5 DEF SaveSpot, IInv, ServerInv

LEMMA QueryAnsweredKeeps ==
  ASSUME IInv, NEW k \in queries, QueryAnswered(k)
  PROVE  IInv'
  <1> DEFINE b == [run |-> "listed", in |-> k,
                   docs |-> {d \in Mine : d.in = k /\ Listed(d)}]
  <1>1. k \in Kinds /\ Mine \subseteq Documents
    BY DEF IInv, PlainInv, Mine
  <1>2. b \in Listing
    BY <1>1 DEF Listing
  <1>3. b \in Blocks
    BY <1>2 DEF Blocks
  <1>4. main' \in Seq(Blocks)
    <2> HIDE DEF b
    <2>1. main' = Append(main, b)
      BY DEF QueryAnswered, b
    <2> QED
      BY <1>3, <2>1 DEF IInv
  <1>5. PlainInv'
    BY DEF QueryAnswered, IInv, PlainInv, authVars
  <1> QED
    BY <1>4, <1>5
    DEF QueryAnswered, IInv, LogInv, StorageInv, ServerInv, storage, logVars

LEMMA DeleteNextKeeps ==
  ASSUME IInv, NEW d \in Documents, DeleteNext(d)
  PROVE  IInv'
  <1> DEFINE h == Head(main)
             b == [h EXCEPT !.docs = h.docs \ {d}]
  <1>1. h \in Blocks /\ Tail(main) \in Seq(Blocks) /\ h.run = "listed" /\ d \in h.docs
    BY TailTyped DEF DeleteNext, Runs, IInv
  <1>2. h \in Listing /\ h.docs \subseteq {e \in Mine : e.in = h.in}
    BY <1>1, BlockFacts
  <1>3. b \in Listing /\ b.docs \subseteq {e \in Mine : e.in = b.in}
    BY <1>2 DEF Listing
  <1>4. b \in Blocks
    BY <1>3 DEF Blocks
  <1>5. main' \in Seq(Blocks)
    <2>1. main' = <<b>> \o Tail(main)
      BY DEF DeleteNext
    <2> HIDE DEF b, h
    <2> QED
      BY <1>1, <1>4, <2>1
  <1>6. d \in Mine
    BY <1>1, <1>2
  <1>7. Delete(d) \in Writes /\ Delete(d).doc = d
    BY DEF Delete, Writes
  <1>8. LogInv'
    BY <1>6, <1>7, MakeKeeps DEF DeleteNext, IInv, PlainInv
  <1>9. StorageInv'
    BY <1>6, SpotFacts DEF DeleteNext, IInv, StorageInv
  <1>10. PlainInv' /\ ServerInv'
    BY DEF DeleteNext, IInv, PlainInv, ServerInv, authVars
  <1> QED
    BY <1>5, <1>8, <1>9, <1>10 DEF IInv

\* The other blocks of the main queue.
LEMMA BlocksKeep ==
  ASSUME IInv, ListDone \/ RunNotify \/ RunDeleted
  PROVE  IInv'
  <1>1. main' = Tail(main) /\ main # <<>>
    BY DEF ListDone, RunNotify, RunDeleted, Runs
  <1>2. main' \in Seq(Blocks) /\ Head(main) \in Blocks
    BY <1>1, TailTyped DEF IInv
  <1>3. CASE ListDone
    <2>1. StorageInv'
      BY <1>3, SpotFacts DEF ListDone, IInv, StorageInv
    <2> QED
      BY <1>2, <1>3, <2>1
      DEF ListDone, IInv, LogInv, PlainInv, ServerInv, authVars, logVars
  <1>4. CASE RunNotify
    <2>1. fsUser' \in Users
      BY <1>2, <1>4, BlockFacts DEF RunNotify, Runs
    <2>2. LogInv'
      BY <1>4, AheadKeeps DEF RunNotify, IInv, PlainInv
    <2> QED
      BY <1>2, <1>4, <2>1, <2>2
      DEF RunNotify, IInv, PlainInv, StorageInv, ServerInv, storage
  <1>5. CASE RunDeleted
    BY <1>2, <1>5
    DEF RunDeleted, IInv, LogInv, PlainInv, StorageInv, ServerInv, authVars, storage, logVars
  <1> QED
    BY <1>3, <1>4, <1>5

\* The user is signed out, or another signs in.
LEMMA UserChangesKeep ==
  ASSUME IInv, DeleteAnswered \/ OtherSignsIn
  PROVE  IInv'
  <1>1. /\ [run |-> "deleted"] \in Blocks
        /\ \A u \in Users : [run |-> "notify", user |-> u] \in Blocks
    BY DEF Blocks
  <1>2. Nobody \in Users /\ Other \in Users
    BY DEF Users
  <1>3. main' \in Seq(Blocks)
    <2>1. CASE DeleteAnswered
      BY <1>1, <1>2, <2>1 DEF DeleteAnswered, IInv
    <2>2. CASE OtherSignsIn
      BY <1>1, <1>2, <2>2 DEF OtherSignsIn
    <2> QED
      BY <2>1, <2>2
  <1> QED
    BY <1>2, <1>3
    DEF DeleteAnswered, OtherSignsIn, IInv, LogInv, PlainInv, StorageInv, ServerInv,
        authVars, storage, logVars

LEMMA ApplyKeeps ==
  ASSUME IInv, Apply
  PROVE  IInv'
  <1>1. fsUser \in Users
    BY DEF IInv, PlainInv
  <1>2. LogInv'
    BY <1>1, AheadKeeps DEF Apply, IInv
  <1> DEFINE n == ahead[fsUser] + 1
             w == pending[fsUser][n]
  <1>3. n \in 1..Len(pending[fsUser])
    BY <1>1 DEF Apply, Log!Apply, IInv, LogInv
  <1>4. w \in Writes /\ (~w.set => w.doc \in Mine)
    BY <1>1, <1>3 DEF IInv, LogInv
  <1>5. ServerInv'
    <2>1. server' = IF w.set THEN server \cup {w.doc} ELSE server \ {w.doc}
      BY DEF Apply
    <2> HIDE DEF w
    <2>2. w.doc \in Documents
      BY <1>4 DEF Writes
    <2> QED
      BY <1>4, <2>1, <2>2, SpotFacts DEF IInv, ServerInv
  <1> QED
    BY <1>2, <1>5 DEF Apply, IInv, PlainInv, StorageInv, authVars, storage

\* One more failure.
LEMMA FailsTyped ==
  ASSUME PlainInv, Fails
  PROVE  failures' \in 0..MaxFailures
  BY BoundsAssumption DEF PlainInv, Fails

LEMMA LogStepsKeep ==
  ASSUME IInv, Acknowledge \/ Refuse \/ StartOver
  PROVE  IInv'
  <1>1. LogInv'
    BY EndKeeps, AheadKeeps DEF Acknowledge, Refuse, StartOver, IInv, PlainInv
  <1>2. failures' \in 0..MaxFailures
    BY FailsTyped DEF Acknowledge, Refuse, StartOver, IInv, PlainInv
  <1> QED
    BY <1>1, <1>2
    DEF Acknowledge, Refuse, StartOver, IInv, PlainInv, StorageInv, ServerInv, authVars, storage

LEMMA StorageKeeps ==
  ASSUME IInv,
         \/ \E i \in removals : ImageRemoved(i) \/ RemovalFails(i)
         \/ \E i \in uploads : Uploaded(i)
  PROVE  IInv'
  <1>1. StorageInv'
    <2>1. ASSUME NEW i \in removals, ImageRemoved(i)
          PROVE  StorageInv'
      <3>1. i # <<Other, 1>>
        BY UidsAssumption DEF IInv, StorageInv
      <3> QED
        BY <2>1, <3>1 DEF ImageRemoved, IInv, StorageInv
    <2>2. ASSUME NEW i \in removals, RemovalFails(i)
          PROVE  StorageInv'
      BY <2>2 DEF RemovalFails, IInv, StorageInv
    <2>3. ASSUME NEW i \in uploads, Uploaded(i)
          PROVE  StorageInv'
      BY <2>3 DEF Uploaded, IInv, StorageInv
    <2> QED
      BY <2>1, <2>2, <2>3
  <1>2. PlainInv'
    BY FailsTyped
    DEF ImageRemoved, RemovalFails, Uploaded, IInv, PlainInv, authVars, Mine
  <1> QED
    BY <1>1, <1>2
    DEF ImageRemoved, RemovalFails, Uploaded, IInv, LogInv, ServerInv, logVars

\* Steps that touch neither documents nor images, writes nor blocks.
LEMMA PlainKeeps ==
  ASSUME IInv,
         \/ TapDelete \/ AccountDeleted \/ AccountDeletionFails
         \/ \E k \in queries : QueryFails(k)
  PROVE  IInv'
  <1>1. failures' \in 0..MaxFailures
    BY FailsTyped
    DEF TapDelete, AccountDeleted, AccountDeletionFails, QueryFails, IInv, PlainInv
  <1> QED
    BY <1>1
    DEF TapDelete, AccountDeleted, AccountDeletionFails, QueryFails, IInv, LogInv,
        PlainInv, StorageInv, ServerInv, authVars, storage, logVars

\* Every step keeps the inductive invariant.
LEMMA StepKeeps == IInv /\ [Next]_vars => IInv'
  <1> SUFFICES ASSUME IInv, [Next]_vars PROVE IInv'
    OBVIOUS
  <1>1. CASE \E d \in Documents : SaveSpot(d)
    BY <1>1, SaveSpotKeeps
  <1>2. CASE TapDelete \/ AccountDeleted \/ AccountDeletionFails
             \/ \E k \in queries : QueryFails(k)
    BY <1>2, PlainKeeps
  <1>3. CASE Callbacks
    BY <1>3, DeleteNextKeeps, BlocksKeep DEF Callbacks
  <1>4. CASE \E k \in queries : QueryAnswered(k)
    BY <1>4, QueryAnsweredKeeps
  <1>5. CASE DeleteAnswered \/ OtherSignsIn
    BY <1>5, UserChangesKeep
  <1>6. CASE Apply
    BY <1>6, ApplyKeeps
  <1>7. CASE Acknowledge \/ Refuse \/ StartOver
    BY <1>7, LogStepsKeep
  <1>8. CASE \/ \E i \in removals : ImageRemoved(i) \/ RemovalFails(i)
             \/ \E i \in uploads : Uploaded(i)
    BY <1>8, StorageKeeps
  <1>9. CASE UNCHANGED vars
    BY <1>9
    DEF vars, authVars, storage, logVars, IInv, LogInv, PlainInv, StorageInv, ServerInv
  <1> QED
    BY <1>1, <1>2, <1>3, <1>4, <1>5, <1>6, <1>7, <1>8, <1>9 DEF Next

\* Every variable keeps its type, and a listing holds documents of the
\* collection that was asked.
THEOREM DeletionTypes == Spec => []TypeOK
  BY InitEstablishes, StepKeeps, InvImplies, PTL DEF Spec

\* Deleting an account never takes a document or an image of another account
\* (deleteUserTapped): not when that other signs in while the callbacks and
\* the writes of the deletion are under way, and whatever fails or is sent
\* again.
THEOREM DeletionSparesOthers == Spec => []OthersUntouched
  BY InitEstablishes, StepKeeps, InvImplies, PTL DEF Spec

-----------------------------------------------------------------------------
(* Sequences of writes.                                                      *)

Has(s, w) == \E i \in 1..Len(s) : s[i] = w
After(s, n, w) == \E i \in 1..Len(s) : i > n /\ s[i] = w
SetFirst(s, d) == \A i, j \in 1..Len(s) : s[i] = Set(d) /\ s[j] = Delete(d) => i < j
NoneTwice(s) == \A i, j \in 1..Len(s) : s[i] = s[j] => i = j

LEMMA WriteFacts ==
  /\ \A d \in Documents : Set(d) \in Writes /\ Delete(d) \in Writes
  /\ \A d, e \in Documents : Set(d) # Delete(e)
  /\ \A d, e \in Documents : Set(d) = Set(e) => d = e
  /\ \A d, e \in Documents : Delete(d) = Delete(e) => d = e
  /\ \A d \in Documents : Set(d).set /\ ~Delete(d).set /\ Set(d).doc = d /\ Delete(d).doc = d
  /\ \A w \in Writes : w.doc \in Documents /\ (w = Set(w.doc) \/ w = Delete(w.doc))
  <1>1. \A d : Set(d).set /\ ~Delete(d).set /\ Set(d).doc = d /\ Delete(d).doc = d
    BY DEF Set, Delete
  <1>2. \A d \in Documents : Set(d) \in Writes /\ Delete(d) \in Writes
    BY DEF Set, Delete, Writes
  <1>3. \A w \in Writes : w.doc \in Documents /\ w.set \in BOOLEAN
                          /\ w = [set |-> w.set, doc |-> w.doc]
    BY DEF Writes
  <1>4. ASSUME NEW w \in Writes PROVE w = Set(w.doc) \/ w = Delete(w.doc)
    <2>1. CASE w.set = TRUE
      BY <1>3, <2>1 DEF Set
    <2>2. CASE w.set = FALSE
      BY <1>3, <2>2 DEF Delete
    <2> QED
      BY <1>3, <2>1, <2>2
  <1>5. \A d, e \in Documents : Set(d) # Delete(e)
    BY <1>1
  <1>6. \A d, e \in Documents : Set(d) = Set(e) => d = e
    BY <1>1
  <1>7. \A d, e \in Documents : Delete(d) = Delete(e) => d = e
    BY <1>1
  <1> QED
    BY <1>1, <1>2, <1>3, <1>4, <1>5, <1>6, <1>7

\* A write joins a sequence.
LEMMA Joins ==
  ASSUME NEW s \in Seq(Writes), NEW w \in Writes, NEW n \in Nat, n <= Len(s)
  PROVE  /\ \A x : Has(Append(s, w), x) <=> Has(s, x) \/ x = w
         /\ \A x : After(Append(s, w), n, x) <=> After(s, n, x) \/ x = w
         /\ NoneTwice(s) /\ ~Has(s, w) => NoneTwice(Append(s, w))
         /\ \A d \in Documents :
              SetFirst(s, d) /\ (w # Set(d) \/ ~Has(s, Delete(d))) => SetFirst(Append(s, w), d)
  <1> DEFINE t == Append(s, w)
             m == Len(s)
  <1>1. /\ m \in Nat /\ Len(t) = m + 1 /\ t[m + 1] = w
        /\ \A i \in 1..m : t[i] = s[i]
    OBVIOUS
  <1>2. 1..(m + 1) = (1..m) \cup {m + 1} /\ m + 1 > n /\ m + 1 \notin 1..m
        /\ \A i \in 1..m : i < m + 1
    BY <1>1
  <1> HIDE DEF t
  <1>3. \A x : Has(t, x) <=> Has(s, x) \/ x = w
    BY <1>1, <1>2 DEF Has
  <1>4. \A x : After(t, n, x) <=> After(s, n, x) \/ x = w
    BY <1>1, <1>2 DEF After
  <1>5. ASSUME NoneTwice(s), ~Has(s, w) PROVE NoneTwice(t)
    <2> SUFFICES ASSUME NEW i \in 1..(m + 1), NEW j \in 1..(m + 1), t[i] = t[j] PROVE i = j
      BY <1>1 DEF NoneTwice
    <2>1. CASE i \in 1..m /\ j \in 1..m
      BY <1>1, <1>5, <2>1 DEF NoneTwice
    <2>2. CASE i \in 1..m /\ j = m + 1
      BY <1>1, <1>5, <2>2 DEF Has
    <2>3. CASE i = m + 1 /\ j \in 1..m
      BY <1>1, <1>5, <2>3 DEF Has
    <2> QED
      BY <1>2, <2>1, <2>2, <2>3
  <1>6. ASSUME NEW d \in Documents, SetFirst(s, d), w # Set(d) \/ ~Has(s, Delete(d))
        PROVE  SetFirst(t, d)
    <2> SUFFICES ASSUME NEW i \in 1..(m + 1), NEW j \in 1..(m + 1),
                        t[i] = Set(d), t[j] = Delete(d)
                 PROVE  i < j
      BY <1>1 DEF SetFirst
    <2>1. CASE i \in 1..m /\ j \in 1..m
      BY <1>1, <1>6, <2>1 DEF SetFirst
    <2>2. CASE i \in 1..m /\ j = m + 1
      BY <1>2, <2>2
    <2>3. CASE i = m + 1 /\ j \in 1..m
      BY <1>1, <1>6, <2>3 DEF Has
    <2>4. Set(d) # Delete(d)
      BY WriteFacts
    <2> QED
      BY <1>2, <2>1, <2>2, <2>3, <2>4
  <1> QED
    BY <1>3, <1>4, <1>5, <1>6 DEF t

\* The head of a sequence ends; it was applied.
LEMMA Leaves ==
  ASSUME NEW s \in Seq(Writes), s # <<>>, NEW n \in Nat, n # 0
  PROVE  /\ \A x : Has(Tail(s), x) => Has(s, x)
         /\ \A x : After(Tail(s), n - 1, x) <=> After(s, n, x)
         /\ NoneTwice(s) => NoneTwice(Tail(s))
         /\ \A d \in Documents : SetFirst(s, d) => SetFirst(Tail(s), d)
  <1> DEFINE t == Tail(s)
             m == Len(s)
  <1>1. /\ m \in Nat /\ m # 0 /\ Len(t) = m - 1
        /\ \A i \in 1..(m - 1) : i + 1 \in 1..m /\ t[i] = s[i + 1]
        /\ \A i \in 1..m : i # 1 => i - 1 \in 1..(m - 1)
    OBVIOUS
  <1> HIDE DEF t, m
  <1>2. \A x : Has(t, x) => Has(s, x)
    BY <1>1 DEF Has, m
  <1>3. ASSUME NEW x, After(t, n - 1, x) PROVE After(s, n, x)
    <2>1. PICK i \in 1..(m - 1) : i > n - 1 /\ t[i] = x
      BY <1>1, <1>3 DEF After
    <2>2. i + 1 > n /\ i + 1 \in 1..m /\ s[i + 1] = x
      BY <1>1, <2>1
    <2> QED
      BY <2>2 DEF After, m
  <1>4. ASSUME NEW x, After(s, n, x) PROVE After(t, n - 1, x)
    <2>1. PICK i \in 1..m : i > n /\ s[i] = x
      BY <1>4 DEF After, m
    <2>2. i - 1 > n - 1 /\ i # 1 /\ i - 1 \in 1..(m - 1) /\ (i - 1) + 1 = i
      BY <1>1, <2>1
    <2>3. t[i - 1] = x
      BY <1>1, <2>1, <2>2
    <2> QED
      BY <1>1, <2>2, <2>3 DEF After
  <1>5. ASSUME NoneTwice(s) PROVE NoneTwice(t)
    <2> SUFFICES ASSUME NEW i \in 1..(m - 1), NEW j \in 1..(m - 1), t[i] = t[j] PROVE i = j
      BY <1>1 DEF NoneTwice
    <2>1. i + 1 = j + 1
      BY <1>1, <1>5 DEF NoneTwice, m
    <2> QED
      BY <1>1, <2>1
  <1>6. ASSUME NEW d \in Documents, SetFirst(s, d) PROVE SetFirst(t, d)
    <2> SUFFICES ASSUME NEW i \in 1..(m - 1), NEW j \in 1..(m - 1),
                        t[i] = Set(d), t[j] = Delete(d)
                 PROVE  i < j
      BY <1>1 DEF SetFirst
    <2>1. i + 1 < j + 1
      BY <1>1, <1>6 DEF SetFirst, m
    <2> QED
      BY <1>1, <2>1
  <1> QED
    BY <1>2, <1>3, <1>4, <1>5, <1>6 DEF t

\* The server applies the next write of a sequence.
LEMMA Advances ==
  ASSUME NEW s \in Seq(Writes), NEW n \in Nat, n < Len(s)
  PROVE  /\ s[n + 1] \in Writes
         /\ After(s, n, s[n + 1])
         /\ \A x : After(s, n + 1, x) => After(s, n, x)
         /\ \A x : After(s, n, x) => After(s, n + 1, x) \/ x = s[n + 1]
         /\ \A d \in Documents :
              SetFirst(s, d) /\ s[n + 1] = Delete(d) => ~After(s, n, Set(d))
  <1> DEFINE m == Len(s)
  <1>1. m \in Nat /\ n + 1 \in 1..m /\ n + 1 > n
        /\ \A i \in 1..m : (i > n + 1 => i > n) /\ (i > n => i > n + 1 \/ i = n + 1)
    OBVIOUS
  <1>2. s[n + 1] \in Writes
    BY <1>1
  <1> HIDE DEF m
  <1>3. After(s, n, s[n + 1])
    BY <1>1 DEF After, m
  <1>4. \A x : After(s, n + 1, x) => After(s, n, x)
    BY <1>1 DEF After, m
  <1>5. \A x : After(s, n, x) => After(s, n + 1, x) \/ x = s[n + 1]
    BY <1>1 DEF After, m
  <1>6. ASSUME NEW d \in Documents, SetFirst(s, d), s[n + 1] = Delete(d), After(s, n, Set(d))
        PROVE  FALSE
    <2>1. PICK i \in 1..m : i > n /\ s[i] = Set(d)
      BY <1>6 DEF After, m
    <2>2. i < n + 1
      BY <1>1, <1>6, <2>1 DEF SetFirst, m
    <2> QED
      BY <2>1, <2>2
  <1> QED
    BY <1>2, <1>3, <1>4, <1>5, <1>6

LEMMA AfterFacts ==
  ASSUME NEW s \in Seq(Writes), NEW n \in Nat, NEW x
  PROVE  /\ After(s, n, x) => Has(s, x) /\ After(s, 0, x)
         /\ Has(s, x) => After(s, 0, x)
         /\ s = <<>> => ~Has(s, x)
  BY DEF After, Has

-----------------------------------------------------------------------------
(* What a step of the log changes.                                           *)

LEMMA MakeLog ==
  ASSUME LogInv, NEW u \in Users, NEW w \in Writes, Log!Make(u, w), NEW v \in Users
  PROVE  /\ ~Has(pending[v], w)
         /\ \A x : Has(pending'[v], x) <=> Has(pending[v], x) \/ (v = u /\ x = w)
         /\ \A x : After(pending'[v], ahead'[v], x) <=>
                     After(pending[v], ahead[v], x) \/ (v = u /\ x = w)
         /\ NoneTwice(pending[v]) => NoneTwice(pending'[v])
         /\ \A d \in Documents :
              SetFirst(pending[v], d) /\ (v # u \/ w # Set(d) \/ ~Has(pending[u], Delete(d)))
                => SetFirst(pending'[v], d)
  <1>1. /\ pending' = [pending EXCEPT ![u] = Append(pending[u], w)]
        /\ ahead' = ahead
    BY DEF Log!Make
  <1>2. ~Has(pending[v], w)
    BY DEF Log!Make, Has
  <1>3. /\ pending[v] \in Seq(Writes) /\ ahead[v] \in Nat /\ ahead[v] <= Len(pending[v])
        /\ pending \in [Users -> Seq(Writes)]
    BY DEF LogInv
  <1>4. CASE v = u
    <2>1. pending'[v] = Append(pending[v], w) /\ ahead'[v] = ahead[v]
      BY <1>1, <1>3, <1>4
    <2> QED
      BY <1>2, <1>3, <1>4, <2>1, Joins
  <1>5. CASE v # u
    <2>1. pending'[v] = pending[v] /\ ahead'[v] = ahead[v]
      BY <1>1, <1>3, <1>5
    <2> QED
      BY <1>2, <1>5, <2>1
  <1> QED
    BY <1>4, <1>5

LEMMA AcknowledgeLog ==
  ASSUME LogInv, NEW u \in Users, Log!Acknowledge(u), NEW v \in Users
  PROVE  /\ \A x : Has(pending'[v], x) => Has(pending[v], x)
         /\ v # u => pending'[v] = pending[v]
         /\ \A x : After(pending'[v], ahead'[v], x) <=> After(pending[v], ahead[v], x)
         /\ NoneTwice(pending[v]) => NoneTwice(pending'[v])
         /\ \A d \in Documents : SetFirst(pending[v], d) => SetFirst(pending'[v], d)
  <1>1. /\ pending' = [pending EXCEPT ![u] = Tail(pending[u])]
        /\ ahead' = [ahead EXCEPT ![u] = ahead[u] - 1] /\ ahead[u] # 0
    BY DEF Log!Acknowledge
  <1>2. /\ pending[v] \in Seq(Writes) /\ ahead[v] \in Nat /\ ahead[v] <= Len(pending[v])
        /\ pending \in [Users -> Seq(Writes)] /\ ahead \in [Users -> Nat]
    BY DEF LogInv
  <1>3. CASE v = u
    <2>1. pending'[v] = Tail(pending[v]) /\ ahead'[v] = ahead[v] - 1 /\ ahead[v] # 0
      BY <1>1, <1>2, <1>3
    <2>2. pending[v] # <<>>
      BY <1>2, <2>1
    <2> QED
      BY <1>2, <1>3, <2>1, <2>2, Leaves
  <1>4. CASE v # u
    <2>1. pending'[v] = pending[v] /\ ahead'[v] = ahead[v]
      BY <1>1, <1>2, <1>4
    <2> QED
      BY <2>1
  <1> QED
    BY <1>3, <1>4

LEMMA ApplyLog ==
  ASSUME LogInv, NEW u \in Users, Log!Apply(u), NEW v \in Users
  PROVE  LET w == pending[u][ahead[u] + 1]
         IN  /\ w \in Writes /\ pending' = pending
             /\ After(pending[u], ahead[u], w)
             /\ \A x : After(pending[v], ahead'[v], x) => After(pending[v], ahead[v], x)
             /\ \A x : After(pending[v], ahead[v], x) =>
                         After(pending[v], ahead'[v], x) \/ x = w
             /\ \A d \in Documents :
                  SetFirst(pending[u], d) /\ w = Delete(d) =>
                    ~After(pending[u], ahead[u], Set(d))
  <1>1. /\ pending' = pending
        /\ ahead' = [ahead EXCEPT ![u] = ahead[u] + 1] /\ ahead[u] < Len(pending[u])
    BY DEF Log!Apply
  <1>2. /\ pending[u] \in Seq(Writes) /\ ahead[u] \in Nat /\ ahead \in [Users -> Nat]
    BY DEF LogInv
  <1> DEFINE w == pending[u][ahead[u] + 1]
  <1>3. /\ w \in Writes /\ After(pending[u], ahead[u], w)
        /\ \A x : After(pending[u], ahead[u] + 1, x) => After(pending[u], ahead[u], x)
        /\ \A x : After(pending[u], ahead[u], x) =>
                    After(pending[u], ahead[u] + 1, x) \/ x = w
        /\ \A d \in Documents :
             SetFirst(pending[u], d) /\ w = Delete(d) => ~After(pending[u], ahead[u], Set(d))
    BY <1>1, <1>2, Advances
  <1> HIDE DEF w
  <1>4. ahead'[v] = IF v = u THEN ahead[u] + 1 ELSE ahead[v]
    BY <1>1, <1>2
  <1>5. \A x : /\ After(pending[v], ahead'[v], x) => After(pending[v], ahead[v], x)
               /\ After(pending[v], ahead[v], x) => After(pending[v], ahead'[v], x) \/ x = w
    BY <1>3, <1>4
  <1> QED
    BY <1>1, <1>3, <1>5 DEF w

-----------------------------------------------------------------------------
(* The main queue.                                                           *)

OnList(m, d) == \E i \in 1..Len(m) : m[i].run = "listed" /\ d \in m[i].docs
SpotsListed(m) == \E i \in 1..Len(m) : m[i].run = "listed" /\ m[i].in = "spots"
HasNotice(m, u) == \E i \in 1..Len(m) : m[i].run = "notify" /\ m[i].user = u

LEMMA BlockAdded ==
  ASSUME NEW m \in Seq(Blocks), NEW b \in Blocks
  PROVE  /\ \A d : OnList(Append(m, b), d) <=>
                     OnList(m, d) \/ (b.run = "listed" /\ d \in b.docs)
         /\ SpotsListed(Append(m, b)) <=>
              SpotsListed(m) \/ (b.run = "listed" /\ b.in = "spots")
         /\ \A u : HasNotice(Append(m, b), u) <=>
                     HasNotice(m, u) \/ (b.run = "notify" /\ b.user = u)
  <1> DEFINE t == Append(m, b)
             n == Len(m)
  <1>1. /\ Len(t) = n + 1 /\ t[n + 1] = b /\ 1..(n + 1) = (1..n) \cup {n + 1}
        /\ \A i \in 1..n : t[i] = m[i]
    OBVIOUS
  <1> HIDE DEF t
  <1>2. \A d : OnList(t, d) <=> OnList(m, d) \/ (b.run = "listed" /\ d \in b.docs)
    BY <1>1 DEF OnList
  <1>3. SpotsListed(t) <=> SpotsListed(m) \/ (b.run = "listed" /\ b.in = "spots")
    BY <1>1 DEF SpotsListed
  <1>4. \A u : HasNotice(t, u) <=> HasNotice(m, u) \/ (b.run = "notify" /\ b.user = u)
    BY <1>1 DEF HasNotice
  <1> QED
    BY <1>2, <1>3, <1>4 DEF t

LEMMA BlockRun ==
  ASSUME NEW m \in Seq(Blocks), m # <<>>
  PROVE  /\ \A d : OnList(m, d) <=>
                     OnList(Tail(m), d) \/ (Head(m).run = "listed" /\ d \in Head(m).docs)
         /\ SpotsListed(m) <=>
              SpotsListed(Tail(m)) \/ (Head(m).run = "listed" /\ Head(m).in = "spots")
         /\ \A u : HasNotice(m, u) <=>
                     HasNotice(Tail(m), u) \/ (Head(m).run = "notify" /\ Head(m).user = u)
  <1> DEFINE t == Tail(m)
             n == Len(m)
             h == Head(m)
  <1>1. /\ n \in Nat /\ Len(t) = n - 1 /\ 1 \in 1..n /\ h = m[1]
        /\ \A i \in 1..(n - 1) : i + 1 \in 1..n /\ t[i] = m[i + 1]
        /\ \A i \in 1..n : i # 1 => i - 1 \in 1..(n - 1) /\ t[i - 1] = m[i]
    OBVIOUS
  <1> HIDE DEF t, n, h
  <1>2. ASSUME NEW d
        PROVE  OnList(m, d) <=> OnList(t, d) \/ (h.run = "listed" /\ d \in h.docs)
    BY <1>1 DEF OnList, n
  <1>3. SpotsListed(m) <=> SpotsListed(t) \/ (h.run = "listed" /\ h.in = "spots")
    BY <1>1 DEF SpotsListed, n
  <1>4. ASSUME NEW u
        PROVE  HasNotice(m, u) <=> HasNotice(t, u) \/ (h.run = "notify" /\ h.user = u)
    <2>1. ASSUME HasNotice(t, u) PROVE HasNotice(m, u)
      BY <1>1, <2>1 DEF HasNotice, n
    <2>2. ASSUME HasNotice(m, u), h.run # "notify" \/ h.user # u PROVE HasNotice(t, u)
      <3>1. PICK i \in 1..n : m[i].run = "notify" /\ m[i].user = u
        BY <2>2 DEF HasNotice, n
      <3>2. i # 1
        BY <1>1, <2>2, <3>1
      <3>3. i - 1 \in 1..Len(t) /\ t[i - 1] = m[i]
        BY <1>1, <3>2
      <3> QED
        BY <3>1, <3>3 DEF HasNotice
    <2>3. h.run = "notify" /\ h.user = u => HasNotice(m, u)
      BY <1>1 DEF HasNotice, n
    <2> QED
      BY <2>1, <2>2, <2>3
  <1> QED
    BY <1>2, <1>3, <1>4 DEF t, h

\* The head of the queue is replaced.
LEMMA BlockReplaced ==
  ASSUME NEW m \in Seq(Blocks), NEW b \in Blocks
  PROVE  /\ \A d : OnList(<<b>> \o m, d) <=>
                     OnList(m, d) \/ (b.run = "listed" /\ d \in b.docs)
         /\ SpotsListed(<<b>> \o m) <=>
              SpotsListed(m) \/ (b.run = "listed" /\ b.in = "spots")
         /\ \A u : HasNotice(<<b>> \o m, u) <=>
                     HasNotice(m, u) \/ (b.run = "notify" /\ b.user = u)
  <1> DEFINE t == <<b>> \o m
  <1>1. t \in Seq(Blocks) /\ t # <<>> /\ Head(t) = b /\ Tail(t) = m
    OBVIOUS
  <1> HIDE DEF t
  <1>2. /\ \A d : OnList(t, d) <=> OnList(m, d) \/ (b.run = "listed" /\ d \in b.docs)
        /\ SpotsListed(t) <=> SpotsListed(m) \/ (b.run = "listed" /\ b.in = "spots")
        /\ \A u : HasNotice(t, u) <=> HasNotice(m, u) \/ (b.run = "notify" /\ b.user = u)
    <2>1. /\ \A d : OnList(t, d) <=>
                     OnList(Tail(t), d) \/ (Head(t).run = "listed" /\ d \in Head(t).docs)
          /\ SpotsListed(t) <=>
               SpotsListed(Tail(t)) \/ (Head(t).run = "listed" /\ Head(t).in = "spots")
          /\ \A u : HasNotice(t, u) <=>
                     HasNotice(Tail(t), u) \/ (Head(t).run = "notify" /\ Head(t).user = u)
      BY <1>1, BlockRun
    <2> QED
      BY <1>1, <2>1
  <1> QED
    BY <1>2 DEF t

LEMMA NoBlocks ==
  (\A d : ~OnList(<<>>, d)) /\ ~SpotsListed(<<>>) /\ \A u : ~HasNotice(<<>>, u)
  <1>1. Len(<<>>) = 0
    OBVIOUS
  <1> QED
    BY <1>1 DEF OnList, SpotsListed, HasNotice

-----------------------------------------------------------------------------
(* The users.                                                                *)

\* I am signed out before Firestore hears of it, and never come back; before
\* the deletion is confirmed, nothing is under way.
UserInv ==
  /\ \A u \in Users : HasNotice(main, u) => u # Me /\ signedIn # Me
  /\ signedIn = Me => fsUser = Me
  /\ ~tapped => signedIn = Me /\ main = <<>> /\ queries = {} /\ call = "none"

LEMMA UserInit == Init => UserInv
  BY NoBlocks DEF Init, UserInv

\* The main queue loses its head, or a listing joins it or gets shorter.
LEMMA NoticesKept ==
  ASSUME IInv, UserInv, UNCHANGED <<signedIn, fsUser, tapped>>, tapped,
         \A u \in Users : HasNotice(main', u) => HasNotice(main, u)
  PROVE  UserInv'
  BY DEF UserInv

LEMMA UserDeleteNext ==
  ASSUME IInv, UserInv, NEW d \in Documents, DeleteNext(d)
  PROVE  UserInv'
  <1> DEFINE h == Head(main)
             b == [h EXCEPT !.docs = h.docs \ {d}]
  <1>1. h \in Blocks /\ Tail(main) \in Seq(Blocks) /\ h.run = "listed" /\ main # <<>>
    BY TailTyped DEF DeleteNext, Runs, IInv
  <1>2. h \in Listing /\ h.docs \subseteq {e \in Mine : e.in = h.in}
    BY <1>1, BlockFacts
  <1>3. b \in Listing /\ b.docs \subseteq {e \in Mine : e.in = b.in} /\ b.run = "listed"
    BY <1>2 DEF Listing
  <1>4. b \in Blocks /\ b.run = "listed"
    BY <1>3 DEF Blocks
  <1>5. main' = <<b>> \o Tail(main)
    BY DEF DeleteNext
  <1> HIDE DEF h, b
  <1>6. \A u \in Users : HasNotice(main', u) => HasNotice(main, u)
    <2>1. \A u : HasNotice(main', u) <=>
                   HasNotice(Tail(main), u) \/ (b.run = "notify" /\ b.user = u)
      BY <1>1, <1>4, <1>5, BlockReplaced
    <2>2. \A u : HasNotice(Tail(main), u) => HasNotice(main, u)
      BY <1>1, BlockRun DEF IInv
    <2> QED
      BY <1>4, <2>1, <2>2
  <1>7. tapped
    BY <1>1 DEF UserInv
  <1> QED
    BY <1>6, <1>7, NoticesKept DEF DeleteNext, authVars

LEMMA UserBlocks ==
  ASSUME IInv, UserInv, ListDone \/ RunNotify \/ RunDeleted
  PROVE  UserInv'
  <1>1. main' = Tail(main) /\ main # <<>> /\ main \in Seq(Blocks)
    BY DEF ListDone, RunNotify, RunDeleted, Runs, IInv
  <1>2. /\ \A u \in Users : HasNotice(main', u) => HasNotice(main, u)
        /\ Head(main).run = "notify" => HasNotice(main, Head(main).user)
    BY <1>1, BlockRun
  <1>3. tapped
    BY <1>1 DEF UserInv
  <1>4. CASE ListDone \/ RunDeleted
    BY <1>2, <1>3, <1>4, NoticesKept DEF ListDone, RunDeleted, authVars
  <1>5. CASE RunNotify
    <2>1. Head(main).run = "notify" /\ Head(main).user \in Users
      BY <1>1, <1>5, TailTyped, BlockFacts DEF RunNotify, Runs
    <2>2. signedIn # Me /\ UNCHANGED <<signedIn, tapped>>
      BY <1>2, <1>5, <2>1 DEF UserInv, RunNotify
    <2> QED
      BY <1>2, <1>3, <2>2 DEF UserInv
  <1> QED
    BY <1>4, <1>5

LEMMA UserQueryAnswered ==
  ASSUME IInv, UserInv, NEW k \in queries, QueryAnswered(k)
  PROVE  UserInv'
  <1> DEFINE b == [run |-> "listed", in |-> k,
                   docs |-> {d \in Mine : d.in = k /\ Listed(d)}]
  <1>1. k \in Kinds /\ Mine \subseteq Documents
    BY DEF IInv, PlainInv, Mine
  <1>2. b \in Listing /\ b.run = "listed"
    BY <1>1 DEF Listing
  <1>3. b \in Blocks
    BY <1>2 DEF Blocks
  <1>4. main' = Append(main, b)
    BY DEF QueryAnswered
  <1> HIDE DEF b
  <1>5. \A u \in Users : HasNotice(main', u) => HasNotice(main, u)
    BY <1>2, <1>3, <1>4, BlockAdded DEF IInv
  <1>6. tapped
    BY DEF UserInv
  <1> QED
    BY <1>5, <1>6, NoticesKept DEF QueryAnswered, authVars

LEMMA UserChanges ==
  ASSUME IInv, UserInv, DeleteAnswered \/ OtherSignsIn
  PROVE  UserInv'
  <1>1. CASE DeleteAnswered
    <2>1. signedIn' = Nobody /\ Nobody # Me /\ call # "none" /\ tapped' = tapped
      BY <1>1, UidsAssumption DEF DeleteAnswered
    <2>2. tapped
      BY <2>1 DEF UserInv
    <2> DEFINE n == [run |-> "notify", user |-> Nobody]
               c == [run |-> "deleted"]
    <2>3. n \in Blocks /\ c \in Blocks /\ n.run = "notify" /\ n.user = Nobody /\ c.run = "deleted"
      BY DEF Blocks, Users
    <2>4. main' = main \o <<n, c>>
      BY <1>1 DEF DeleteAnswered
    <2> HIDE DEF n, c
    <2>5. main' = Append(Append(main, n), c) /\ Append(main, n) \in Seq(Blocks)
      BY <2>3, <2>4 DEF IInv
    <2>6. \A u : HasNotice(main', u) => HasNotice(main, u) \/ u = Nobody
      <3>1. \A u : HasNotice(Append(main, n), u) => HasNotice(main, u) \/ u = Nobody
        BY <2>3, BlockAdded DEF IInv
      <3>2. \A u : HasNotice(main', u) => HasNotice(Append(main, n), u)
        BY <2>3, <2>5, BlockAdded
      <3> QED
        BY <3>1, <3>2
    <2> QED
      BY <2>1, <2>2, <2>6 DEF UserInv
  <1>2. CASE OtherSignsIn
    <2> DEFINE n == [run |-> "notify", user |-> Other]
    <2>1. /\ main = <<>> /\ main' = <<n>> /\ signedIn' = Other /\ signedIn = Nobody
          /\ Other # Me /\ Nobody # Me /\ UNCHANGED tapped
      BY <1>2, UidsAssumption DEF OtherSignsIn
    <2>2. tapped
      BY <2>1 DEF UserInv
    <2>3. n \in Blocks /\ n.run = "notify" /\ n.user = Other
      BY DEF Blocks, Users
    <2> HIDE DEF n
    <2>4. main' = Append(<<>>, n) /\ <<>> \in Seq(Blocks)
      BY <2>1
    <2>5. \A u : HasNotice(main', u) => u = Other
      BY <2>3, <2>4, BlockAdded, NoBlocks
    <2> QED
      BY <2>1, <2>2, <2>5 DEF UserInv
  <1> QED
    BY <1>1, <1>2

LEMMA UserNext == IInv /\ UserInv /\ [Next]_vars => UserInv'
  <1> SUFFICES ASSUME IInv, UserInv, [Next]_vars PROVE UserInv'
    OBVIOUS
  <1>1. CASE Callbacks
    BY <1>1, UserDeleteNext, UserBlocks DEF Callbacks
  <1>2. CASE \E k \in queries : QueryAnswered(k)
    BY <1>2, UserQueryAnswered
  <1>3. CASE DeleteAnswered \/ OtherSignsIn
    BY <1>3, UserChanges
  <1>4. CASE TapDelete
    BY <1>4 DEF TapDelete, UserInv, authVars
  <1>5. CASE AccountDeleted \/ AccountDeletionFails \/ \E k \in queries : QueryFails(k)
    <2>1. UNCHANGED <<signedIn, fsUser, main, tapped>>
      BY <1>5 DEF AccountDeleted, AccountDeletionFails, QueryFails, authVars
    <2>2. tapped
      BY <1>5 DEF AccountDeleted, AccountDeletionFails, UserInv
    <2> QED
      BY <2>1, <2>2 DEF UserInv
  <1>6. CASE \/ \E d \in Documents : SaveSpot(d)
             \/ Apply \/ Acknowledge \/ Refuse \/ StartOver
             \/ \E i \in removals : ImageRemoved(i) \/ RemovalFails(i)
             \/ \E i \in uploads : Uploaded(i)
             \/ UNCHANGED vars
    <2>1. UNCHANGED <<signedIn, fsUser, main, tapped, queries, call>>
      BY <1>6 DEF SaveSpot, Apply, Acknowledge, Refuse, StartOver, ImageRemoved, RemovalFails,
                  Uploaded, vars, authVars
    <2> QED
      BY <2>1 DEF UserInv
  <1> QED
    BY <1>1, <1>2, <1>3, <1>4, <1>5, <1>6 DEF Next

-----------------------------------------------------------------------------
(* The fate of my documents and images.                                      *)

SetsInv == \A u \in Users, d \in Mine : Has(pending[u], Set(d)) => u = Me
TidyInv == \A u \in Users : NoneTwice(pending[u])

\* Until a collection is listed, nothing of it is deleted. From then on each
\* document that is on the server, or will be, is on a list that waits, or its
\* deletion waits behind all that could set it.
FateInv ==
  \A d \in Mine \ late :
    /\ \A u \in Users : SetFirst(pending[u], d)
    /\ ~tapped \/ d.in \in queries =>
         ~OnList(main, d) /\ \A u \in Users : ~Has(pending[u], Delete(d))
    /\ tapped /\ d.in \notin queries =>
         (d \in server \/ After(pending[fsUser], ahead[fsUser], Set(d)) =>
            OnList(main, d) \/ \E u \in Users : After(pending[u], ahead[u], Delete(d)))

\* Until the spots are listed, an image belongs to a spot that is stored or
\* about to be; from then on it waits to be removed, or its spot is stranded.
PhotosInv ==
  \A d \in Mine \ late : d.in = "spots" =>
    /\ ~tapped \/ "spots" \in queries =>
         /\ Image(d) \in images \cup uploads => d \in server \/ Has(pending[Me], Set(d))
         /\ fsUser = Me /\ Has(pending[Me], Set(d)) =>
              d \in server \/ After(pending[Me], ahead[Me], Set(d))
    /\ tapped /\ "spots" \notin queries =>
         (Image(d) \in images =>
            \/ OnList(main, d) \/ Image(d) \in removals
            \/ fsUser # Me /\ Has(pending[Me], Set(d)))

ProfileInv ==
  /\ ProfileImage \notin uploads
  /\ tapped /\ "spots" \notin queries =>
       (ProfileImage \in images => SpotsListed(main) \/ ProfileImage \in removals)

Kept == SetsInv /\ TidyInv /\ FateInv /\ PhotosInv /\ ProfileInv

MineFacts ==
  /\ Me \in Users /\ Mine \subseteq Documents
  /\ \A d \in Mine : d.uid = Me /\ d.in \in Kinds

LEMMA MineHolds == MineFacts
  BY DEF MineFacts, Users, Mine, Documents, Kinds

LEMMA ImageFacts ==
  /\ \A d \in Mine : Image(d) # ProfileImage
  /\ \A d, e \in Mine : d.in = "spots" /\ e.in = "spots" /\ Image(d) = Image(e) => d = e
  <1>1. \A d \in Documents : d.id \in Nat \ {0} /\ d = [in |-> d.in, uid |-> d.uid, id |-> d.id]
    BY BoundsAssumption DEF Documents
  <1>2. \A d \in Mine : d \in Documents /\ Image(d) = <<Me, d.id>> /\ d.uid = Me
    BY DEF Mine, Image
  <1>3. \A d \in Mine : Image(d) # ProfileImage
    BY <1>1, <1>2 DEF ProfileImage
  <1>4. ASSUME NEW d \in Mine, NEW e \in Mine, d.in = "spots", e.in = "spots",
               Image(d) = Image(e)
        PROVE  d = e
    <2>1. d.id = e.id /\ d.uid = e.uid
      BY <1>2, <1>4
    <2>2. /\ d = [in |-> d.in, uid |-> d.uid, id |-> d.id]
          /\ e = [in |-> e.in, uid |-> e.uid, id |-> e.id]
      BY <1>1, <1>2
    <2> QED
      BY <1>4, <2>1, <2>2
  <1> QED
    BY <1>3, <1>4

LEMMA KeptInit == Init => Kept
  <1> SUFFICES ASSUME Init PROVE Kept
    OBVIOUS
  <1>1. \A u \in Users : pending[u] = <<>> /\ \A x : ~Has(pending[u], x)
    <2>1. \A u \in Users : pending[u] = <<>> /\ pending[u] \in Seq(Writes)
      BY DEF Init, Log!Init
    <2> QED
      BY <2>1, AfterFacts
  <1>2. \A u \in Users : Len(pending[u]) = 0
    BY <1>1
  <1>3. /\ ~tapped /\ main = <<>> /\ uploads = {} /\ spots \in 0..1
        /\ images = {<<Me, i>> : i \in 0..spots} \cup {<<Other, i>> : i \in 0..1}
        /\ server = {d \in Documents : d.id = 1} \ (IF spots = 1 THEN {} ELSE {FirstSpot(Me)})
    BY DEF Init
  <1>4. SetsInv
    BY <1>1 DEF SetsInv
  <1>5. TidyInv
    BY <1>2 DEF TidyInv, NoneTwice
  <1>6. FateInv
    <2>1. \A u \in Users : \A d : SetFirst(pending[u], d)
      BY <1>2 DEF SetFirst
    <2> QED
      BY <1>1, <1>3, <2>1, NoBlocks DEF FateInv
  <1>7. PhotosInv
    <2>1. ASSUME NEW d \in Mine, d.in = "spots", Image(d) \in images PROVE d \in server
      <3>1. d \in Documents /\ Image(d) = <<Me, d.id>> /\ d.id \in Nat \ {0}
        BY BoundsAssumption DEF Mine, Image, Documents
      <3>2. d.id \in 0..spots
        BY <1>3, <2>1, <3>1, UidsAssumption
      <3>3. spots = 1 /\ d.id = 1
        BY <1>3, <3>1, <3>2
      <3> QED
        BY <1>3, <3>1, <3>3
    <2>2. ASSUME NEW d \in Mine PROVE ~Has(pending[Me], Set(d))
      BY <1>1, MineHolds DEF MineFacts
    <2> QED
      BY <1>3, <2>1, <2>2 DEF PhotosInv
  <1>8. ProfileInv
    BY <1>3 DEF ProfileInv
  <1> QED
    BY <1>4, <1>5, <1>6, <1>7, <1>8 DEF Kept

-----------------------------------------------------------------------------
(* Steps that leave the writes alone.                                        *)

LEMMA LogElsewhere ==
  ASSUME Kept, UNCHANGED <<pending, ahead, fsUser, server>>, late \subseteq late',
         tapped' = tapped \/ (~tapped /\ queries' = Kinds),
         tapped' = tapped => queries' = queries,
         \A d : OnList(main', d) <=> OnList(main, d)
  PROVE  SetsInv' /\ TidyInv' /\ FateInv'
  <1>1. SetsInv' /\ TidyInv'
    BY DEF Kept, SetsInv, TidyInv
  <1>2. ASSUME NEW d \in Mine \ late'
        PROVE  /\ \A u \in Users : SetFirst(pending[u], d)'
               /\ ~tapped' \/ d.in \in queries' =>
                    ~OnList(main', d) /\ \A u \in Users : ~Has(pending'[u], Delete(d))
               /\ tapped' /\ d.in \notin queries' =>
                    (d \in server' \/ After(pending'[fsUser'], ahead'[fsUser'], Set(d)) =>
                       OnList(main', d) \/
                         \E u \in Users : After(pending'[u], ahead'[u], Delete(d)))
    <2>1. d \in Mine \ late /\ d.in \in Kinds
      BY MineHolds DEF MineFacts
    <2>2. ~tapped' \/ d.in \in queries' => ~tapped \/ d.in \in queries
      OBVIOUS
    <2>3. tapped' /\ d.in \notin queries' => tapped /\ d.in \notin queries
      BY <2>1
    <2>4. /\ \A u \in Users : SetFirst(pending[u], d)
          /\ ~tapped \/ d.in \in queries =>
               ~OnList(main, d) /\ \A u \in Users : ~Has(pending[u], Delete(d))
          /\ tapped /\ d.in \notin queries =>
               (d \in server \/ After(pending[fsUser], ahead[fsUser], Set(d)) =>
                  OnList(main, d) \/ \E u \in Users : After(pending[u], ahead[u], Delete(d)))
      BY <2>1 DEF Kept, FateInv
    <2> QED
      BY <2>2, <2>3, <2>4
  <1>3. FateInv'
    BY <1>2 DEF FateInv
  <1> QED
    BY <1>1, <1>3

LEMMA PhotosElsewhere ==
  ASSUME Kept, UNCHANGED <<pending, ahead, fsUser, server>>, late \subseteq late',
         tapped' = tapped \/ (~tapped /\ queries' = Kinds),
         tapped' = tapped => queries' = queries,
         \A d : OnList(main', d) <=> OnList(main, d),
         \A d \in Mine \ late' : d.in = "spots" /\ Image(d) \in images' \cup uploads' =>
           Image(d) \in images \cup uploads,
         \A d \in Mine \ late' : tapped /\ d.in = "spots" /\ Image(d) \in images' =>
           Image(d) \in images /\ (Image(d) \in removals => Image(d) \in removals')
  PROVE  PhotosInv'
  <1>1. ASSUME NEW d \in Mine \ late', d.in = "spots"
        PROVE  /\ ~tapped' \/ "spots" \in queries' =>
                    /\ Image(d) \in images' \cup uploads' =>
                         d \in server' \/ Has(pending'[Me], Set(d))
                    /\ fsUser' = Me /\ Has(pending'[Me], Set(d)) =>
                         d \in server' \/ After(pending'[Me], ahead'[Me], Set(d))
               /\ tapped' /\ "spots" \notin queries' =>
                    (Image(d) \in images' =>
                       \/ OnList(main', d) \/ Image(d) \in removals'
                       \/ fsUser' # Me /\ Has(pending'[Me], Set(d)))
    <2>1. d \in Mine \ late /\ "spots" \in Kinds
      BY <1>1 DEF Kinds
    <2>2. ~tapped' \/ "spots" \in queries' => ~tapped \/ "spots" \in queries
      OBVIOUS
    <2>3. tapped' /\ "spots" \notin queries' => tapped /\ "spots" \notin queries
      BY <2>1
    <2>4. /\ ~tapped \/ "spots" \in queries =>
               /\ Image(d) \in images \cup uploads => d \in server \/ Has(pending[Me], Set(d))
               /\ fsUser = Me /\ Has(pending[Me], Set(d)) =>
                    d \in server \/ After(pending[Me], ahead[Me], Set(d))
          /\ tapped /\ "spots" \notin queries =>
               (Image(d) \in images =>
                  \/ OnList(main, d) \/ Image(d) \in removals
                  \/ fsUser # Me /\ Has(pending[Me], Set(d)))
      BY <1>1, <2>1 DEF Kept, PhotosInv
    <2> QED
      BY <1>1, <2>2, <2>3, <2>4
  <1> QED
    BY <1>1 DEF PhotosInv

\* Steps that leave the images alone as well.
LEMMA KeptElsewhere ==
  ASSUME Kept, UNCHANGED <<pending, ahead, fsUser, server, storage>>, late' = late,
         tapped' = tapped \/ (~tapped /\ queries' = Kinds),
         tapped' = tapped => queries' = queries,
         \A d : OnList(main', d) <=> OnList(main, d),
         SpotsListed(main') <=> SpotsListed(main)
  PROVE  Kept'
  <1>1. UNCHANGED <<images, removals, uploads>>
    BY DEF storage
  <1>2. SetsInv' /\ TidyInv' /\ FateInv'
    BY LogElsewhere
  <1>3. PhotosInv'
    BY <1>1, PhotosElsewhere
  <1>4. ProfileInv'
    <2>1. tapped' /\ "spots" \notin queries' => tapped /\ "spots" \notin queries
      BY DEF Kinds
    <2> QED
      BY <1>1, <2>1 DEF Kept, ProfileInv
  <1> QED
    BY <1>2, <1>3, <1>4 DEF Kept

LEMMA KeptAccount ==
  ASSUME IInv, UserInv, Kept,
         TapDelete \/ AccountDeleted \/ RunDeleted \/ DeleteAnswered \/ OtherSignsIn
           \/ UNCHANGED vars
  PROVE  Kept'
  <1>1. CASE TapDelete
    BY <1>1, KeptElsewhere DEF TapDelete, authVars, logVars
  <1>2. CASE AccountDeleted
    BY <1>2, KeptElsewhere DEF AccountDeleted, logVars
  <1>3. CASE RunDeleted
    <2>1. main' = Tail(main) /\ main # <<>> /\ main \in Seq(Blocks) /\ Head(main).run = "deleted"
      BY <1>3 DEF RunDeleted, Runs, IInv
    <2>2. /\ \A d : OnList(main', d) <=> OnList(main, d)
          /\ SpotsListed(main') <=> SpotsListed(main)
      BY <2>1, BlockRun
    <2> QED
      BY <1>3, <2>2, KeptElsewhere DEF RunDeleted, authVars, logVars
  <1>4. CASE DeleteAnswered
    <2> DEFINE n == [run |-> "notify", user |-> Nobody]
               c == [run |-> "deleted"]
    <2>1. n \in Blocks /\ c \in Blocks /\ n.run = "notify" /\ c.run = "deleted"
      BY DEF Blocks, Users
    <2>2. main' = main \o <<n, c>> /\ main \in Seq(Blocks)
      BY <1>4 DEF DeleteAnswered, IInv
    <2> HIDE DEF n, c
    <2>3. main' = Append(Append(main, n), c) /\ Append(main, n) \in Seq(Blocks)
      BY <2>1, <2>2
    <2>4. /\ \A d : OnList(Append(main, n), d) <=> OnList(main, d)
          /\ SpotsListed(Append(main, n)) <=> SpotsListed(main)
      BY <2>1, <2>2, BlockAdded
    <2>5. /\ \A d : OnList(main', d) <=> OnList(Append(main, n), d)
          /\ SpotsListed(main') <=> SpotsListed(Append(main, n))
      BY <2>1, <2>3, BlockAdded
    <2> QED
      BY <1>4, <2>4, <2>5, KeptElsewhere DEF DeleteAnswered, logVars
  <1>5. CASE OtherSignsIn
    <2> DEFINE n == [run |-> "notify", user |-> Other]
    <2>1. n \in Blocks /\ n.run = "notify"
      BY DEF Blocks, Users
    <2>2. main = <<>> /\ main' = <<n>>
      BY <1>5 DEF OtherSignsIn
    <2> HIDE DEF n
    <2>3. main' = Append(main, n) /\ main \in Seq(Blocks)
      BY <2>2
    <2>4. /\ \A d : OnList(main', d) <=> OnList(main, d)
          /\ SpotsListed(main') <=> SpotsListed(main)
      BY <2>1, <2>3, BlockAdded
    <2> QED
      BY <1>5, <2>4, KeptElsewhere DEF OtherSignsIn, logVars
  <1>6. CASE UNCHANGED vars
    BY <1>6, KeptElsewhere DEF vars, authVars, logVars
  <1> QED
    BY <1>1, <1>2, <1>3, <1>4, <1>5, <1>6

LEMMA KeptListDone ==
  ASSUME IInv, Kept, ListDone
  PROVE  Kept'
  <1>1. /\ main' = Tail(main) /\ main # <<>> /\ main \in Seq(Blocks)
        /\ Head(main).docs = {} /\ Head(main).run = "listed"
    BY DEF ListDone, Runs, IInv
  <1>2. \A d : OnList(main', d) <=> OnList(main, d)
    BY <1>1, BlockRun
  <1>3. /\ UNCHANGED <<pending, ahead, fsUser, server, late, tapped, queries, images, uploads>>
        /\ removals' = IF Head(main).in = "spots" THEN removals \cup {ProfileImage}
                       ELSE removals
    BY DEF ListDone, authVars, logVars
  <1>4. SetsInv' /\ TidyInv' /\ FateInv'
    BY <1>2, <1>3, LogElsewhere
  <1>5. removals \subseteq removals' /\ (Head(main).in = "spots" => ProfileImage \in removals')
    BY <1>3
  <1>6. PhotosInv'
    BY <1>2, <1>3, <1>5, PhotosElsewhere
  <1>7. SpotsListed(main) => SpotsListed(main') \/ ProfileImage \in removals'
    BY <1>1, <1>5, BlockRun
  <1>8. ProfileInv'
    BY <1>3, <1>5, <1>7 DEF Kept, ProfileInv
  <1> QED
    BY <1>4, <1>6, <1>8 DEF Kept

LEMMA KeptStorage ==
  ASSUME IInv, Kept,
         \/ \E i \in removals : ImageRemoved(i)
         \/ \E i \in uploads : Uploaded(i)
  PROVE  Kept'
  <1>1. ASSUME NEW i \in removals, ImageRemoved(i) PROVE Kept'
    <2>1. /\ UNCHANGED <<pending, ahead, fsUser, server, late, tapped, queries, main, uploads>>
          /\ removals' = removals \ {i} /\ images' = images \ {i}
      BY <1>1 DEF ImageRemoved, authVars, logVars
    <2>2. SetsInv' /\ TidyInv' /\ FateInv'
      BY <2>1, LogElsewhere
    <2>3. PhotosInv'
      BY <2>1, PhotosElsewhere
    <2>4. ProfileInv'
      BY <2>1 DEF Kept, ProfileInv
    <2> QED
      BY <2>2, <2>3, <2>4 DEF Kept
  <1>2. ASSUME NEW i \in uploads, Uploaded(i) PROVE Kept'
    <2>1. /\ UNCHANGED <<pending, ahead, fsUser, server, tapped, queries, main, removals>>
          /\ uploads' = uploads \ {i} /\ images' = images \cup {i}
          /\ late' = late \cup {d \in Mine : d.in = "spots" /\ Image(d) = i /\ tapped}
      BY <1>2 DEF Uploaded, authVars, logVars
    <2>2. late \subseteq late'
      BY <2>1
    <2>3. SetsInv' /\ TidyInv' /\ FateInv'
      BY <2>1, <2>2, LogElsewhere
    <2>4. \A d \in Mine \ late' : tapped /\ d.in = "spots" /\ Image(d) \in images' =>
            Image(d) \in images /\ (Image(d) \in removals => Image(d) \in removals')
      BY <2>1
    <2>5. \A d \in Mine \ late' : d.in = "spots" /\ Image(d) \in images' \cup uploads' =>
            Image(d) \in images \cup uploads
      BY <1>2, <2>1
    <2>6. PhotosInv'
      BY <2>1, <2>2, <2>4, <2>5, PhotosElsewhere
    <2>7. ProfileInv'
      BY <1>2, <2>1 DEF Kept, ProfileInv
    <2> QED
      BY <2>3, <2>6, <2>7 DEF Kept
  <1> QED
    BY <1>1, <1>2

-----------------------------------------------------------------------------
(* Steps of the writes.                                                      *)

\* What FateInv and PhotosInv say of one document.
LEMMA FateOf ==
  ASSUME Kept, NEW d \in Mine \ late
  PROVE  /\ \A u \in Users : SetFirst(pending[u], d)
         /\ ~tapped \/ d.in \in queries =>
              ~OnList(main, d) /\ \A u \in Users : ~Has(pending[u], Delete(d))
         /\ tapped /\ d.in \notin queries =>
              (d \in server \/ After(pending[fsUser], ahead[fsUser], Set(d)) =>
                 OnList(main, d) \/ \E u \in Users : After(pending[u], ahead[u], Delete(d)))
  BY DEF Kept, FateInv

LEMMA PhotoOf ==
  ASSUME Kept, NEW d \in Mine \ late, d.in = "spots"
  PROVE  /\ ~tapped \/ "spots" \in queries =>
              /\ Image(d) \in images \cup uploads => d \in server \/ Has(pending[Me], Set(d))
              /\ fsUser = Me /\ Has(pending[Me], Set(d)) =>
                   d \in server \/ After(pending[Me], ahead[Me], Set(d))
         /\ tapped /\ "spots" \notin queries =>
              (Image(d) \in images =>
                 \/ OnList(main, d) \/ Image(d) \in removals
                 \/ fsUser # Me /\ Has(pending[Me], Set(d)))
  BY DEF Kept, PhotosInv

LEMMA KeptSaveSpot ==
  ASSUME IInv, UserInv, Kept, NEW e \in Documents, SaveSpot(e)
  PROVE  Kept'
  <1> DEFINE w == Set(e)
  <1>1. e \in Mine /\ e.in = "spots" /\ fsUser = Me /\ Me \in Users
    BY MineHolds DEF SaveSpot, UserInv, MineFacts
  <1>2. /\ w \in Writes /\ Log!Make(Me, w) /\ LogInv /\ w = Set(e)
        /\ \A d \in Mine : w # Delete(d) /\ (w = Set(d) => d = e)
    BY <1>1, WriteFacts, MineHolds DEF SaveSpot, IInv, MineFacts
  <1> HIDE DEF w
  <1>3. ASSUME NEW v \in Users
        PROVE  /\ \A x : Has(pending'[v], x) <=> Has(pending[v], x) \/ (v = Me /\ x = w)
               /\ \A x : After(pending'[v], ahead'[v], x) <=>
                           After(pending[v], ahead[v], x) \/ (v = Me /\ x = w)
               /\ NoneTwice(pending[v]) => NoneTwice(pending'[v])
               /\ \A d \in Documents :
                    SetFirst(pending[v], d) /\ (v # Me \/ w # Set(d) \/ ~Has(pending[Me], Delete(d)))
                      => SetFirst(pending'[v], d)
    BY <1>1, <1>2, MakeLog
  <1>4. /\ UNCHANGED <<fsUser, main, server, images, removals, queries, tapped>>
        /\ uploads' = uploads \cup {Image(e)}
        /\ late' = IF tapped /\ "spots" \notin queries THEN late \cup {e} ELSE late
    BY DEF SaveSpot, authVars
  <1>5. SetsInv'
    <2>1. ASSUME NEW u \in Users, NEW d \in Mine, Has(pending'[u], Set(d)) PROVE u = Me
      BY <1>3, <2>1 DEF Kept, SetsInv
    <2> QED
      BY <2>1 DEF SetsInv
  <1>6. TidyInv'
    BY <1>3 DEF Kept, TidyInv
  <1>7. ASSUME NEW d \in Mine \ late'
        PROVE  /\ d \in Mine \ late /\ d \in Documents
               /\ d = e => ~tapped \/ "spots" \in queries
    BY <1>4, MineHolds DEF MineFacts
  <1>8. FateInv'
    <2>1. ASSUME NEW d \in Mine \ late'
          PROVE  /\ \A u \in Users : SetFirst(pending'[u], d)
                 /\ ~tapped \/ d.in \in queries =>
                      ~OnList(main, d) /\ \A u \in Users : ~Has(pending'[u], Delete(d))
                 /\ tapped /\ d.in \notin queries =>
                      (d \in server \/ After(pending'[Me], ahead'[Me], Set(d)) =>
                         OnList(main, d) \/
                           \E u \in Users : After(pending'[u], ahead'[u], Delete(d)))
      <3>1. d \in Mine \ late /\ d \in Documents /\ (d = e => ~tapped \/ d.in \in queries)
        BY <1>1, <1>7
      <3>2. \A u \in Users : SetFirst(pending[u], d)
        BY <3>1, FateOf
      <3>3. d = e => ~Has(pending[Me], Delete(d))
        BY <1>1, <3>1, FateOf
      <3>4. \A u \in Users : SetFirst(pending'[u], d)
        BY <1>2, <1>3, <3>1, <3>2, <3>3
      <3>5. ~tapped \/ d.in \in queries =>
              ~OnList(main, d) /\ \A u \in Users : ~Has(pending[u], Delete(d))
        BY <3>1, FateOf
      <3>6. \A u \in Users : Has(pending'[u], Delete(d)) => Has(pending[u], Delete(d))
        BY <1>2, <1>3, <3>1
      <3>7. tapped /\ d.in \notin queries =>
              (d \in server \/ After(pending[Me], ahead[Me], Set(d)) =>
                 OnList(main, d) \/ \E u \in Users : After(pending[u], ahead[u], Delete(d)))
        BY <1>1, <3>1, FateOf
      <3>8. d # e => (After(pending'[Me], ahead'[Me], Set(d)) => After(pending[Me], ahead[Me], Set(d)))
        BY <1>1, <1>2, <1>3, <3>1
      <3>9. \A u \in Users : After(pending[u], ahead[u], Delete(d)) =>
                               After(pending'[u], ahead'[u], Delete(d))
        BY <1>3
      <3> QED
        BY <3>1, <3>4, <3>5, <3>6, <3>7, <3>8, <3>9
    <2> QED
      BY <1>1, <1>4, <2>1 DEF FateInv
  <1>9. PhotosInv'
    <2>1. ASSUME NEW d \in Mine \ late', d.in = "spots"
          PROVE  /\ ~tapped \/ "spots" \in queries =>
                      /\ Image(d) \in images \cup uploads' => d \in server \/ Has(pending'[Me], Set(d))
                      /\ Has(pending'[Me], Set(d)) =>
                           d \in server \/ After(pending'[Me], ahead'[Me], Set(d))
                 /\ tapped /\ "spots" \notin queries =>
                      (Image(d) \in images => OnList(main, d) \/ Image(d) \in removals)
      <3>1. d \in Mine \ late
        BY <1>7
      <3>2. /\ ~tapped \/ "spots" \in queries =>
                 /\ Image(d) \in images \cup uploads => d \in server \/ Has(pending[Me], Set(d))
                 /\ Has(pending[Me], Set(d)) => d \in server \/ After(pending[Me], ahead[Me], Set(d))
            /\ tapped /\ "spots" \notin queries =>
                 (Image(d) \in images => OnList(main, d) \/ Image(d) \in removals)
        BY <1>1, <2>1, <3>1, PhotoOf
      <3>3. CASE d = e
        <4>1. Has(pending'[Me], Set(d)) /\ After(pending'[Me], ahead'[Me], Set(d))
          BY <1>1, <1>2, <1>3, <3>3
        <4> QED
          BY <3>2, <4>1
      <3>4. CASE d # e
        <4>1. Image(d) # Image(e)
          BY <1>1, <2>1, <3>1, <3>4, ImageFacts
        <4>2. Image(d) \in images \cup uploads' => Image(d) \in images \cup uploads
          BY <1>4, <4>1
        <4>3. w # Set(d)
          BY <1>2, <3>1, <3>4
        <4>4. /\ Has(pending'[Me], Set(d)) <=> Has(pending[Me], Set(d))
              /\ After(pending'[Me], ahead'[Me], Set(d)) <=> After(pending[Me], ahead[Me], Set(d))
          BY <1>1, <1>3, <4>3
        <4> QED
          BY <3>2, <4>2, <4>4
      <3> QED
        BY <3>3, <3>4
    <2> QED
      BY <1>1, <1>4, <2>1 DEF PhotosInv
  <1>10. ProfileInv'
    <2>1. Image(e) # ProfileImage
      BY <1>1, ImageFacts
    <2> QED
      BY <1>4, <2>1 DEF Kept, ProfileInv
  <1> QED
    BY <1>5, <1>6, <1>8, <1>9, <1>10 DEF Kept

\* One deletion is made of a document on the list.
LEMMA KeptDeleteNext ==
  ASSUME IInv, UserInv, Kept, NEW e \in Documents, DeleteNext(e)
  PROVE  Kept'
  <1> DEFINE h == Head(main)
             b == [h EXCEPT !.docs = h.docs \ {e}]
             w == Delete(e)
  <1>1. /\ h \in Blocks /\ Tail(main) \in Seq(Blocks) /\ h.run = "listed" /\ e \in h.docs
        /\ main # <<>> /\ main \in Seq(Blocks)
    BY TailTyped DEF DeleteNext, Runs, IInv
  <1>2. h \in Listing /\ h.docs \subseteq {d \in Mine : d.in = h.in}
    BY <1>1, BlockFacts
  <1>3. /\ b \in Listing /\ b.docs \subseteq {d \in Mine : d.in = b.in}
        /\ b.run = "listed" /\ b.docs = h.docs \ {e} /\ b.in = h.in
    BY <1>2 DEF Listing
  <1>4. b \in Blocks
    BY <1>3 DEF Blocks
  <1>5. main' = <<b>> \o Tail(main)
    BY DEF DeleteNext
  <1>6. fsUser \in Users /\ e \in Mine
    BY <1>1, <1>2 DEF IInv, PlainInv
  <1>7. /\ w \in Writes /\ Log!Make(fsUser, w) /\ LogInv /\ w = Delete(e)
        /\ \A d \in Mine : w # Set(d) /\ (w = Delete(d) => d = e)
    BY <1>6, WriteFacts, MineHolds DEF DeleteNext, IInv, MineFacts
  <1>8. OnList(main, e)
    BY <1>1, BlockRun
  <1> HIDE DEF h, b, w
  <1>9. /\ \A d : OnList(main', d) <=> OnList(Tail(main), d) \/ d \in b.docs
        /\ SpotsListed(main') <=> SpotsListed(Tail(main)) \/ b.in = "spots"
    BY <1>1, <1>3, <1>4, <1>5, BlockReplaced
  <1>10. /\ \A d : OnList(main, d) <=> OnList(Tail(main), d) \/ d \in h.docs
         /\ SpotsListed(main) <=> SpotsListed(Tail(main)) \/ h.in = "spots"
    BY <1>1, BlockRun DEF h
  <1>11. /\ \A d : OnList(main', d) => OnList(main, d)
         /\ \A d : OnList(main, d) => OnList(main', d) \/ d = e
         /\ SpotsListed(main') <=> SpotsListed(main)
    BY <1>3, <1>9, <1>10
  <1>12. ASSUME NEW v \in Users
         PROVE  /\ \A x : Has(pending'[v], x) <=> Has(pending[v], x) \/ (v = fsUser /\ x = w)
                /\ \A x : After(pending'[v], ahead'[v], x) <=>
                            After(pending[v], ahead[v], x) \/ (v = fsUser /\ x = w)
                /\ NoneTwice(pending[v]) => NoneTwice(pending'[v])
                /\ \A d \in Documents :
                     SetFirst(pending[v], d) /\ w # Set(d) => SetFirst(pending'[v], d)
    BY <1>6, <1>7, MakeLog
  <1>13. /\ UNCHANGED <<fsUser, server, images, uploads, late, queries, tapped>>
         /\ removals' = IF e.in = "spots" THEN removals \cup {Image(e)} ELSE removals
    BY DEF DeleteNext, authVars
  <1>14. SetsInv'
    <2>1. ASSUME NEW u \in Users, NEW d \in Mine, Has(pending'[u], Set(d)) PROVE u = Me
      BY <1>7, <1>12, <2>1 DEF Kept, SetsInv
    <2> QED
      BY <2>1 DEF SetsInv
  <1>15. TidyInv'
    BY <1>12 DEF Kept, TidyInv
  <1>16. FateInv'
    <2>1. ASSUME NEW d \in Mine \ late
          PROVE  /\ \A u \in Users : SetFirst(pending'[u], d)
                 /\ ~tapped \/ d.in \in queries =>
                      ~OnList(main', d) /\ \A u \in Users : ~Has(pending'[u], Delete(d))
                 /\ tapped /\ d.in \notin queries =>
                      (d \in server \/ After(pending'[fsUser], ahead'[fsUser], Set(d)) =>
                         OnList(main', d) \/
                           \E u \in Users : After(pending'[u], ahead'[u], Delete(d)))
      <3>1. d \in Documents /\ w # Set(d) /\ (w = Delete(d) => d = e)
        BY <1>7, MineHolds DEF MineFacts
      <3>2. \A u \in Users : SetFirst(pending'[u], d)
        BY <1>12, <3>1, FateOf
      <3>3. ASSUME ~tapped \/ d.in \in queries
            PROVE  ~OnList(main', d) /\ \A u \in Users : ~Has(pending'[u], Delete(d))
        <4>1. ~OnList(main, d) /\ \A u \in Users : ~Has(pending[u], Delete(d))
          BY <3>3, FateOf
        <4>2. d # e
          BY <1>8, <4>1
        <4> QED
          BY <1>11, <1>12, <3>1, <4>1, <4>2
      <3>4. ASSUME tapped /\ d.in \notin queries,
                   d \in server \/ After(pending'[fsUser], ahead'[fsUser], Set(d))
            PROVE  OnList(main', d) \/ \E u \in Users : After(pending'[u], ahead'[u], Delete(d))
        <4>1. d \in server \/ After(pending[fsUser], ahead[fsUser], Set(d))
          BY <1>6, <1>12, <3>1, <3>4
        <4>2. OnList(main, d) \/ \E u \in Users : After(pending[u], ahead[u], Delete(d))
          BY <3>4, <4>1, FateOf
        <4>3. d = e => After(pending'[fsUser], ahead'[fsUser], Delete(d))
          BY <1>6, <1>7, <1>12
        <4>4. \A u \in Users : After(pending[u], ahead[u], Delete(d)) =>
                                 After(pending'[u], ahead'[u], Delete(d))
          BY <1>12
        <4> QED
          BY <1>6, <1>11, <4>2, <4>3, <4>4
      <3> QED
        BY <3>2, <3>3, <3>4
    <2> QED
      BY <1>13, <2>1 DEF FateInv
  <1>17. PhotosInv'
    <2>1. ASSUME NEW d \in Mine \ late, d.in = "spots"
          PROVE  /\ ~tapped \/ "spots" \in queries =>
                      /\ Image(d) \in images \cup uploads => d \in server \/ Has(pending'[Me], Set(d))
                      /\ fsUser = Me /\ Has(pending'[Me], Set(d)) =>
                           d \in server \/ After(pending'[Me], ahead'[Me], Set(d))
                 /\ tapped /\ "spots" \notin queries =>
                      (Image(d) \in images =>
                         \/ OnList(main', d) \/ Image(d) \in removals'
                         \/ fsUser # Me /\ Has(pending'[Me], Set(d)))
      <3>1. /\ Has(pending'[Me], Set(d)) <=> Has(pending[Me], Set(d))
            /\ After(pending'[Me], ahead'[Me], Set(d)) <=> After(pending[Me], ahead[Me], Set(d))
        BY <1>7, <1>12, MineHolds DEF MineFacts
      <3>2. d = e => Image(d) \in removals'
        BY <1>13, <2>1
      <3>3. removals \subseteq removals'
        BY <1>13
      <3>4. OnList(main, d) => OnList(main', d) \/ d = e
        BY <1>11
      <3> QED
        BY <2>1, <3>1, <3>2, <3>3, <3>4, PhotoOf
    <2> QED
      BY <1>13, <2>1 DEF PhotosInv
  <1>18. ProfileInv'
    BY <1>11, <1>13 DEF Kept, ProfileInv
  <1> QED
    BY <1>14, <1>15, <1>16, <1>17, <1>18 DEF Kept

\* Firestore leaves a user, for one who has set none of my documents.
LEMMA KeptRunNotify ==
  ASSUME IInv, UserInv, Kept, RunNotify
  PROVE  Kept'
  <1>1. /\ main' = Tail(main) /\ main # <<>> /\ main \in Seq(Blocks)
        /\ Head(main).run = "notify" /\ fsUser' = Head(main).user
        /\ ahead' = [ahead EXCEPT ![fsUser] = 0] /\ ahead \in [Users -> Nat]
        /\ UNCHANGED <<pending, server, images, uploads, removals, late, tapped, queries>>
    BY DEF RunNotify, Runs, IInv, LogInv, storage
  <1>2. fsUser' \in Users
    BY <1>1, TailTyped, BlockFacts
  <1>3. fsUser' # Me
    BY <1>1, <1>2, BlockRun DEF UserInv
  <1>4. /\ \A d : OnList(main', d) <=> OnList(main, d)
        /\ SpotsListed(main') <=> SpotsListed(main)
    BY <1>1, BlockRun
  <1>5. \A u \in Users : \A x : After(pending[u], ahead[u], x) => After(pending[u], ahead'[u], x)
    <2>1. ASSUME NEW u \in Users, NEW x, After(pending[u], ahead[u], x)
          PROVE  After(pending[u], ahead'[u], x)
      <3>1. pending[u] \in Seq(Writes) /\ ahead[u] \in Nat
        BY DEF IInv, LogInv
      <3>2. ahead'[u] = ahead[u] \/ ahead'[u] = 0
        BY <1>1
      <3> QED
        BY <2>1, <3>1, <3>2, AfterFacts
    <2> QED
      BY <2>1
  <1>6. ASSUME NEW d \in Mine, NEW n \in Nat PROVE ~After(pending[fsUser'], n, Set(d))
    <2>1. ~Has(pending[fsUser'], Set(d)) /\ pending[fsUser'] \in Seq(Writes)
      BY <1>2, <1>3 DEF Kept, SetsInv, IInv, LogInv
    <2> QED
      BY <2>1, AfterFacts
  <1>7. ahead'[fsUser'] \in Nat
    BY <1>1, <1>2
  <1>8. SetsInv' /\ TidyInv'
    BY <1>1 DEF Kept, SetsInv, TidyInv
  <1>9. FateInv'
    <2>1. ASSUME NEW d \in Mine \ late
          PROVE  /\ \A u \in Users : SetFirst(pending[u], d)
                 /\ ~tapped \/ d.in \in queries =>
                      ~OnList(main', d) /\ \A u \in Users : ~Has(pending[u], Delete(d))
                 /\ tapped /\ d.in \notin queries =>
                      (d \in server \/ After(pending[fsUser'], ahead'[fsUser'], Set(d)) =>
                         OnList(main', d) \/
                           \E u \in Users : After(pending[u], ahead'[u], Delete(d)))
      <3>1. ~After(pending[fsUser'], ahead'[fsUser'], Set(d))
        BY <1>6, <1>7
      <3> QED
        BY <1>4, <1>5, <3>1, FateOf
    <2> QED
      BY <1>1, <2>1 DEF FateInv
  <1>10. PhotosInv'
    <2>1. ASSUME NEW d \in Mine \ late, d.in = "spots"
          PROVE  /\ ~tapped \/ "spots" \in queries =>
                      (Image(d) \in images \cup uploads => d \in server \/ Has(pending[Me], Set(d)))
                 /\ tapped /\ "spots" \notin queries =>
                      (Image(d) \in images =>
                         OnList(main', d) \/ Image(d) \in removals \/ Has(pending[Me], Set(d)))
      BY <1>4, <2>1, PhotoOf
    <2> QED
      BY <1>1, <1>3, <2>1 DEF PhotosInv
  <1>11. ProfileInv'
    BY <1>1, <1>4 DEF Kept, ProfileInv
  <1> QED
    BY <1>8, <1>9, <1>10, <1>11 DEF Kept

\* The server catches up with one write.
LEMMA KeptApply ==
  ASSUME IInv, UserInv, Kept, Apply
  PROVE  Kept'
  <1> DEFINE u == fsUser
             w == pending[u][ahead[u] + 1]
  <1>1. u \in Users /\ Log!Apply(u) /\ LogInv
    BY DEF Apply, IInv, PlainInv
  <1>2. /\ server' = IF w.set THEN server \cup {w.doc} ELSE server \ {w.doc}
        /\ UNCHANGED <<fsUser, main, images, uploads, removals, late, tapped, queries>>
    BY DEF Apply, authVars, storage
  <1>3. /\ w \in Writes /\ pending' = pending /\ After(pending[u], ahead[u], w)
        /\ \A d \in Documents :
             SetFirst(pending[u], d) /\ w = Delete(d) => ~After(pending[u], ahead[u], Set(d))
    BY <1>1, ApplyLog
  <1>4. ASSUME NEW v \in Users
        PROVE  /\ \A x : After(pending[v], ahead'[v], x) => After(pending[v], ahead[v], x)
               /\ \A x : After(pending[v], ahead[v], x) => After(pending[v], ahead'[v], x) \/ x = w
    BY <1>1, ApplyLog
  <1> HIDE DEF w, u
  <1>5. ASSUME NEW d \in Mine
        PROVE  /\ w = Set(d) => d \in server'
               /\ w = Delete(d) => d \notin server'
               /\ w # Set(d) /\ w # Delete(d) => (d \in server' <=> d \in server)
               /\ Set(d) # Delete(d) /\ d \in Documents
    <2>1. d \in Documents /\ Set(d) # Delete(d)
      BY WriteFacts, MineHolds DEF MineFacts
    <2>2. CASE w = Set(d)
      BY <1>2, <2>1, <2>2, WriteFacts
    <2>3. CASE w = Delete(d)
      BY <1>2, <2>1, <2>3, WriteFacts
    <2>4. CASE w # Set(d) /\ w # Delete(d)
      <3>1. w.doc # d
        BY <1>3, <2>4, WriteFacts
      <3> QED
        BY <1>2, <2>1, <2>4, <3>1
    <2> QED
      BY <2>1, <2>2, <2>3, <2>4
  <1>6. SetsInv' /\ TidyInv'
    BY <1>3 DEF Kept, SetsInv, TidyInv
  <1>7. pending[u] \in Seq(Writes) /\ ahead[u] \in Nat
    BY <1>1 DEF LogInv
  <1>8. \A d \in Mine : w = Delete(d) => Has(pending[u], Delete(d))
    BY <1>3, <1>7, AfterFacts
  <1>9. FateInv'
    <2>1. ASSUME NEW d \in Mine \ late, tapped, d.in \notin queries,
                 d \in server' \/ After(pending[u], ahead'[u], Set(d))
          PROVE  OnList(main, d) \/ \E v \in Users : After(pending[v], ahead'[v], Delete(d))
      <3>1. w # Delete(d)
        <4>1. SUFFICES ASSUME w = Delete(d) PROVE FALSE
          OBVIOUS
        <4>2. d \notin server'
          BY <1>5, <4>1
        <4>3. After(pending[u], ahead[u], Set(d))
          BY <1>1, <1>4, <2>1, <4>2
        <4>4. SetFirst(pending[u], d) /\ d \in Documents
          BY <1>1, <1>5, FateOf
        <4> QED
          BY <1>3, <4>1, <4>3, <4>4
      <3>2. d \in server \/ After(pending[u], ahead[u], Set(d))
        <4>1. CASE w = Set(d)
          BY <1>3, <4>1
        <4>2. CASE w # Set(d)
          BY <1>1, <1>4, <1>5, <2>1, <3>1, <4>2
        <4> QED
          BY <4>1, <4>2
      <3>3. OnList(main, d) \/ \E v \in Users : After(pending[v], ahead[v], Delete(d))
        BY <2>1, <3>2, FateOf DEF u
      <3> QED
        BY <1>4, <3>1, <3>3
    <2>2. \A d \in Mine \ late :
            /\ \A v \in Users : SetFirst(pending[v], d)
            /\ ~tapped \/ d.in \in queries =>
                 ~OnList(main, d) /\ \A v \in Users : ~Has(pending[v], Delete(d))
      BY FateOf
    <2> QED
      BY <1>2, <1>3, <2>1, <2>2 DEF FateInv, u
  <1>10. PhotosInv'
    <2>1. ASSUME NEW d \in Mine \ late, d.in = "spots", ~tapped \/ "spots" \in queries
          PROVE  /\ Image(d) \in images \cup uploads => d \in server' \/ Has(pending[Me], Set(d))
                 /\ u = Me /\ Has(pending[Me], Set(d)) =>
                      d \in server' \/ After(pending[Me], ahead'[Me], Set(d))
      <3>1. w # Delete(d)
        BY <1>1, <1>8, <2>1, FateOf
      <3>2. d \in server => d \in server'
        BY <1>5, <3>1
      <3>3. After(pending[Me], ahead[Me], Set(d)) =>
              d \in server' \/ After(pending[Me], ahead'[Me], Set(d))
        BY <1>4, <1>5, MineHolds DEF MineFacts
      <3> QED
        BY <2>1, <3>2, <3>3, PhotoOf DEF u
    <2>2. \A d \in Mine \ late : d.in = "spots" =>
            (tapped /\ "spots" \notin queries =>
               (Image(d) \in images =>
                  \/ OnList(main, d) \/ Image(d) \in removals
                  \/ fsUser # Me /\ Has(pending[Me], Set(d))))
      BY PhotoOf
    <2> QED
      BY <1>2, <1>3, <2>1, <2>2 DEF PhotosInv, u
  <1>11. ProfileInv'
    BY <1>2 DEF Kept, ProfileInv
  <1> QED
    BY <1>6, <1>9, <1>10, <1>11 DEF Kept

\* An applied write ends.
LEMMA KeptAcknowledge ==
  ASSUME IInv, UserInv, Kept, Acknowledge
  PROVE  Kept'
  <1>1. fsUser \in Users /\ Log!Acknowledge(fsUser) /\ LogInv
    BY DEF Acknowledge, IInv, PlainInv
  <1>2. UNCHANGED <<fsUser, server, main, images, uploads, removals, late, tapped, queries>>
    BY DEF Acknowledge, authVars, storage
  <1>3. ASSUME NEW v \in Users
        PROVE  /\ \A x : Has(pending'[v], x) => Has(pending[v], x)
               /\ v # fsUser => pending'[v] = pending[v]
               /\ \A x : After(pending'[v], ahead'[v], x) <=> After(pending[v], ahead[v], x)
               /\ NoneTwice(pending[v]) => NoneTwice(pending'[v])
               /\ \A d \in Documents : SetFirst(pending[v], d) => SetFirst(pending'[v], d)
    BY <1>1, AcknowledgeLog
  <1>4. \A v \in Users : \A x : After(pending'[v], ahead'[v], x) => Has(pending'[v], x)
    BY DEF After, Has
  <1>5. SetsInv' /\ TidyInv'
    BY <1>3 DEF Kept, SetsInv, TidyInv
  <1>6. FateInv'
    <2>1. ASSUME NEW d \in Mine \ late
          PROVE  /\ \A v \in Users : SetFirst(pending'[v], d)
                 /\ ~tapped \/ d.in \in queries =>
                      ~OnList(main, d) /\ \A v \in Users : ~Has(pending'[v], Delete(d))
                 /\ tapped /\ d.in \notin queries =>
                      (d \in server \/ After(pending'[fsUser], ahead'[fsUser], Set(d)) =>
                         OnList(main, d) \/
                           \E v \in Users : After(pending'[v], ahead'[v], Delete(d)))
      <3>1. d \in Documents
        BY MineHolds DEF MineFacts
      <3>2. \A v \in Users : SetFirst(pending'[v], d)
        BY <1>3, <3>1, FateOf
      <3>3. ~tapped \/ d.in \in queries =>
              ~OnList(main, d) /\ \A v \in Users : ~Has(pending'[v], Delete(d))
        BY <1>3, FateOf
      <3>4. tapped /\ d.in \notin queries =>
              (d \in server \/ After(pending'[fsUser], ahead'[fsUser], Set(d)) =>
                 OnList(main, d) \/ \E v \in Users : After(pending'[v], ahead'[v], Delete(d)))
        BY <1>1, <1>3, FateOf
      <3> QED
        BY <3>2, <3>3, <3>4
    <2> QED
      BY <1>2, <2>1 DEF FateInv
  <1>7. PhotosInv'
    <2>1. ASSUME NEW d \in Mine \ late, d.in = "spots"
          PROVE  /\ ~tapped \/ "spots" \in queries =>
                      /\ Image(d) \in images \cup uploads => d \in server \/ Has(pending'[Me], Set(d))
                      /\ fsUser = Me /\ Has(pending'[Me], Set(d)) =>
                           d \in server \/ After(pending'[Me], ahead'[Me], Set(d))
                 /\ tapped /\ "spots" \notin queries =>
                      (Image(d) \in images =>
                         \/ OnList(main, d) \/ Image(d) \in removals
                         \/ fsUser # Me /\ Has(pending'[Me], Set(d)))
      <3>1. Me \in Users
        BY MineHolds DEF MineFacts
      <3>2. fsUser # Me => pending'[Me] = pending[Me]
        BY <1>3, <3>1
      <3>3. /\ Has(pending'[Me], Set(d)) => Has(pending[Me], Set(d))
            /\ After(pending'[Me], ahead'[Me], Set(d)) <=> After(pending[Me], ahead[Me], Set(d))
            /\ After(pending'[Me], ahead'[Me], Set(d)) => Has(pending'[Me], Set(d))
        BY <1>3, <1>4, <3>1
      <3> QED
        BY <2>1, <3>2, <3>3, PhotoOf
    <2> QED
      BY <1>2, <2>1 DEF PhotosInv
  <1>8. ProfileInv'
    BY <1>2 DEF Kept, ProfileInv
  <1> QED
    BY <1>5, <1>6, <1>7, <1>8 DEF Kept

\* A query lists every document that is there, or is about to be as far as the
\* user Firestore has can see.
LEMMA ListedAll ==
  ASSUME IInv, TidyInv, NEW d \in Mine, ~Has(pending[fsUser], Delete(d)),
         d \in server \/ Has(pending[fsUser], Set(d))
  PROVE  Listed(d)
  <1> DEFINE s == pending[fsUser]
  <1>1. s \in Seq(Writes) /\ NoneTwice(s) /\ fsUser \in Users
    BY DEF IInv, LogInv, PlainInv, TidyInv
  <1>2. ASSUME NEW i \in Locally(d) PROVE i \in 1..Len(s) /\ s[i] = Set(d)
    <2>1. i \in 1..Len(s) /\ s[i].doc = d /\ s[i] \in Writes
      BY <1>1 DEF Locally
    <2>2. s[i] = Set(d) \/ s[i] = Delete(d)
      BY <2>1, WriteFacts
    <2> QED
      BY <2>1, <2>2 DEF Has
  <1>3. CASE Locally(d) = {}
    <2>1. ~Has(s, Set(d))
      <3>1. SUFFICES ASSUME NEW i \in 1..Len(s), s[i] = Set(d) PROVE FALSE
        BY DEF Has
      <3>2. s[i].doc = d
        BY <3>1 DEF Set
      <3> QED
        BY <1>3, <3>2 DEF Locally
    <2> QED
      BY <1>3, <2>1 DEF Listed
  <1>4. CASE Locally(d) # {}
    <2>1. PICK i \in Locally(d) : TRUE
      BY <1>4
    <2>2. \A j \in Locally(d) : j = i
      BY <1>1, <1>2, <2>1 DEF NoneTwice
    <2>3. i <= i
      BY <1>2, <2>1
    <2>4. \E c \in Locally(d) : \A j \in Locally(d) : j <= c
      BY <2>1, <2>2, <2>3
    <2> DEFINE c == CHOOSE k \in Locally(d) : \A j \in Locally(d) : j <= k
    <2>5. c \in Locally(d)
      BY <2>4
    <2> HIDE DEF c
    <2>6. s[c] = Set(d)
      BY <1>2, <2>5
    <2>7. s[c].set
      BY <2>6 DEF Set
    <2> QED
      BY <1>4, <2>7 DEF Listed, c
  <1> QED
    BY <1>3, <1>4

\* A collection is listed.
LEMMA KeptQueryAnswered ==
  ASSUME IInv, UserInv, Kept, NEW k \in queries, QueryAnswered(k)
  PROVE  Kept'
  <1> DEFINE b == [run |-> "listed", in |-> k,
                   docs |-> {d \in Mine : d.in = k /\ Listed(d)}]
  <1>1. k \in Kinds /\ Mine \subseteq Documents
    BY MineHolds DEF IInv, PlainInv, MineFacts
  <1>2. /\ b \in Listing /\ b.run = "listed" /\ b.in = k
        /\ b.docs = {d \in Mine : d.in = k /\ Listed(d)}
    BY <1>1 DEF Listing
  <1>3. b \in Blocks
    BY <1>2 DEF Blocks
  <1>4. main' = Append(main, b) /\ main \in Seq(Blocks)
    BY DEF QueryAnswered, IInv
  <1> HIDE DEF b
  <1>5. /\ \A d : OnList(main', d) <=> OnList(main, d) \/ d \in b.docs
        /\ SpotsListed(main') <=> SpotsListed(main) \/ k = "spots"
    BY <1>2, <1>3, <1>4, BlockAdded
  <1>6. /\ UNCHANGED <<pending, ahead, fsUser, server, images, uploads, removals, late, tapped>>
        /\ queries' = queries \ {k}
    BY DEF QueryAnswered, authVars, storage, logVars
  <1>7. tapped /\ Me \in Users /\ fsUser \in Users
    BY MineHolds DEF UserInv, MineFacts, IInv, PlainInv
  <1>8. SetsInv' /\ TidyInv'
    BY <1>6 DEF Kept, SetsInv, TidyInv
  <1>9. ASSUME NEW d \in Mine \ late, d.in = k,
               d \in server \/ Has(pending[fsUser], Set(d))
        PROVE  OnList(main', d)
    <2>1. ~Has(pending[fsUser], Delete(d))
      BY <1>7, <1>9, FateOf
    <2>2. Listed(d)
      BY <1>9, <2>1, ListedAll DEF Kept
    <2> QED
      BY <1>2, <1>5, <1>9, <2>2
  <1>10. \A d \in Mine : d.in # k => (OnList(main', d) <=> OnList(main, d))
    BY <1>2, <1>5
  <1>11. FateInv'
    <2>1. ASSUME NEW d \in Mine \ late
          PROVE  /\ \A u \in Users : SetFirst(pending[u], d)
                 /\ d.in \in queries' =>
                      ~OnList(main', d) /\ \A u \in Users : ~Has(pending[u], Delete(d))
                 /\ d.in \notin queries' =>
                      (d \in server \/ After(pending[fsUser], ahead[fsUser], Set(d)) =>
                         OnList(main', d) \/
                           \E u \in Users : After(pending[u], ahead[u], Delete(d)))
      <3>1. CASE d.in = k
        <4>1. After(pending[fsUser], ahead[fsUser], Set(d)) => Has(pending[fsUser], Set(d))
          BY DEF After, Has
        <4> QED
          BY <1>6, <1>9, <3>1, <4>1, FateOf
      <3>2. CASE d.in # k
        BY <1>6, <1>7, <1>10, <3>2, FateOf
      <3> QED
        BY <3>1, <3>2
    <2> QED
      BY <1>6, <1>7, <2>1 DEF FateInv
  <1>12. PhotosInv'
    <2>1. ASSUME NEW d \in Mine \ late, d.in = "spots"
          PROVE  /\ "spots" \in queries' =>
                      /\ Image(d) \in images \cup uploads => d \in server \/ Has(pending[Me], Set(d))
                      /\ fsUser = Me /\ Has(pending[Me], Set(d)) =>
                           d \in server \/ After(pending[Me], ahead[Me], Set(d))
                 /\ "spots" \notin queries' =>
                      (Image(d) \in images =>
                         \/ OnList(main', d) \/ Image(d) \in removals
                         \/ fsUser # Me /\ Has(pending[Me], Set(d)))
      <3>1. CASE k = "spots"
        <4>1. Image(d) \in images => d \in server \/ Has(pending[Me], Set(d))
          BY <2>1, <3>1, PhotoOf
        <4>2. d \in server => OnList(main', d)
          BY <1>9, <2>1, <3>1
        <4>3. fsUser = Me /\ Has(pending[Me], Set(d)) => OnList(main', d)
          BY <1>9, <2>1, <3>1
        <4> QED
          BY <1>6, <3>1, <4>1, <4>2, <4>3
      <3>2. CASE k # "spots"
        <4>1. OnList(main', d) <=> OnList(main, d)
          BY <1>10, <2>1, <3>2
        <4> QED
          BY <1>6, <1>7, <2>1, <3>2, <4>1, PhotoOf
      <3> QED
        BY <3>1, <3>2
    <2> QED
      BY <1>6, <1>7, <2>1 DEF PhotosInv
  <1>13. ProfileInv'
    BY <1>5, <1>6, <1>7 DEF Kept, ProfileInv
  <1> QED
    BY <1>8, <1>11, <1>12, <1>13 DEF Kept

-----------------------------------------------------------------------------
(* What a deletion leaves.                                                   *)

\* As long as nothing has failed.
WellInv == failures = 0 => Kept

LEMMA FailedBefore ==
  ASSUME IInv, Fails
  PROVE  failures' # 0
  <1>1. failures \in Nat /\ failures' = failures + 1
    BY DEF IInv, PlainInv, Fails
  <1> QED
    BY <1>1

LEMMA WellNext == IInv /\ UserInv /\ WellInv /\ [Next]_vars => WellInv'
  <1> SUFFICES ASSUME IInv, UserInv, WellInv, [Next]_vars, failures' = 0 PROVE Kept'
    BY DEF WellInv
  <1>1. CASE \/ \E k \in queries : QueryFails(k)
             \/ AccountDeletionFails \/ Refuse \/ StartOver
             \/ \E i \in removals : RemovalFails(i)
    BY <1>1, FailedBefore DEF QueryFails, AccountDeletionFails, Refuse, StartOver, RemovalFails
  <1>2. CASE \E d \in Documents : SaveSpot(d)
    <2>1. failures' = failures
      BY <1>2 DEF SaveSpot
    <2> QED
      BY <1>2, <2>1, KeptSaveSpot DEF WellInv
  <1>3. CASE \E d \in Documents : DeleteNext(d)
    <2>1. failures' = failures
      BY <1>3 DEF DeleteNext
    <2> QED
      BY <1>3, <2>1, KeptDeleteNext DEF WellInv
  <1>4. CASE ListDone \/ RunNotify
    <2>1. failures' = failures
      BY <1>4 DEF ListDone, RunNotify
    <2> QED
      BY <1>4, <2>1, KeptListDone, KeptRunNotify DEF WellInv
  <1>5. CASE \E k \in queries : QueryAnswered(k)
    <2>1. failures' = failures
      BY <1>5 DEF QueryAnswered
    <2> QED
      BY <1>5, <2>1, KeptQueryAnswered DEF WellInv
  <1>6. CASE TapDelete \/ AccountDeleted \/ RunDeleted \/ DeleteAnswered \/ OtherSignsIn
               \/ UNCHANGED vars
    <2>1. failures' = failures
      BY <1>6 DEF TapDelete, AccountDeleted, RunDeleted, DeleteAnswered, OtherSignsIn, vars
    <2> QED
      BY <1>6, <2>1, KeptAccount DEF WellInv
  <1>7. CASE Apply \/ Acknowledge
    <2>1. failures' = failures
      BY <1>7 DEF Apply, Acknowledge
    <2> QED
      BY <1>7, <2>1, KeptApply, KeptAcknowledge DEF WellInv
  <1>8. CASE (\E i \in removals : ImageRemoved(i)) \/ \E i \in uploads : Uploaded(i)
    <2>1. failures' = failures
      BY <1>8 DEF ImageRemoved, Uploaded
    <2> QED
      BY <1>8, <2>1, KeptStorage DEF WellInv
  <1> QED
    BY <1>1, <1>2, <1>3, <1>4, <1>5, <1>6, <1>7, <1>8 DEF Next, Callbacks

\* When all is quiet, the lists are done and what waits is of another user.
LEMMA QuietLeaves ==
  ASSUME IInv, Kept, Quiet
  PROVE  /\ \A d \in server \cap Mine : d \in late \/ Stranded(Delete(d))
         /\ \A d \in Mine : d.in = "spots" /\ Image(d) \in images =>
              d \in late \/ Stranded(Set(d))
         /\ ProfileImage \notin images
  <1>1. /\ tapped /\ main = <<>> /\ queries = {} /\ removals = {}
        /\ pending[fsUser] = <<>> /\ fsUser \in Users /\ Me \in Users
    BY MineHolds DEF Quiet, IInv, PlainInv, MineFacts
  <1>2. (\A d : ~OnList(main, d)) /\ ~SpotsListed(main)
    BY <1>1, NoBlocks
  <1>3. \A u \in Users : \A w : Has(pending[u], w) => u # fsUser
    <2>1. Len(pending[fsUser]) = 0
      BY <1>1
    <2> QED
      BY <2>1 DEF Has
  <1>4. \A u \in Users : \A w : After(pending[u], ahead[u], w) => Has(pending[u], w)
    BY DEF After, Has
  <1>5. \A u \in Users : \A w : Has(pending[u], w) => Stranded(w)
    BY <1>3 DEF Has, Stranded
  <1>6. ASSUME NEW d \in server \cap Mine, d \notin late
        PROVE  Stranded(Delete(d))
    <2>1. \E u \in Users : After(pending[u], ahead[u], Delete(d))
      BY <1>1, <1>2, <1>6, FateOf
    <2> QED
      BY <1>4, <1>5, <2>1
  <1>7. ASSUME NEW d \in Mine, d.in = "spots", Image(d) \in images, d \notin late
        PROVE  Stranded(Set(d))
    <2>1. Has(pending[Me], Set(d))
      BY <1>1, <1>2, <1>7, PhotoOf
    <2> QED
      BY <1>1, <1>5, <2>1
  <1>8. ProfileImage \notin images
    BY <1>1, <1>2 DEF Kept, ProfileInv
  <1> QED
    BY <1>6, <1>7, <1>8

\* When a deletion has come to rest without a failure (deleteUserTapped), what
\* is left of the account's documents was saved after its list was made, or its
\* deletion waits in the queue of a user Firestore has left; what is left of
\* its images belongs to such a late spot or to one whose saving waits there.
THEOREM DeletionLeavesExplained == Spec => []LeftoversExplained
  <1>1. Init => UserInv /\ WellInv
    BY UserInit, KeptInit DEF WellInv
  <1>2. IInv /\ WellInv => LeftoversExplained
    BY QuietLeaves DEF WellInv, LeftoversExplained
  <1>3. IInv /\ [Next]_vars => IInv'
    BY StepKeeps
  <1>4. IInv /\ UserInv /\ [Next]_vars => UserInv'
    BY UserNext
  <1>5. IInv /\ UserInv /\ WellInv /\ [Next]_vars => WellInv'
    BY WellNext
  <1> QED
    BY <1>1, <1>2, <1>3, <1>4, <1>5, InitEstablishes, PTL DEF Spec
-----------------------------------------------------------------------------
(* Firestore's part of the deletion is the write log.                         *)

LogProofs == INSTANCE WriteLogProofs

\* A swap of Firestore's user makes the server start over, unless it has
\* nothing of that user's writes.
LEMMA NotifyStep ==
  ASSUME IInv, RunNotify
  PROVE  [Log!Next]_(Log!logVars)
  <1>1. /\ fsUser \in Users /\ ahead \in [Users -> Nat]
        /\ ahead' = [ahead EXCEPT ![fsUser] = 0] /\ UNCHANGED <<pending, applied, heard>>
    BY DEF IInv, LogInv, PlainInv, RunNotify
  <1>2. CASE ahead[fsUser] = 0
    <2>1. ahead' = ahead
      BY <1>1, <1>2
    <2> QED
      BY <1>1, <2>1 DEF Log!logVars
  <1>3. CASE ahead[fsUser] # 0
    BY <1>1, <1>3 DEF Log!Next, Log!StartOver
  <1> QED
    BY <1>2, <1>3

\* Every step of the deletion is a step of the write log or leaves it alone.
LEMMA DeletionStep ==
  ASSUME IInv, [Next]_vars
  PROVE  [Log!Next]_(Log!logVars)
  <1>1. fsUser \in Users
    BY DEF IInv, PlainInv
  <1>2. ASSUME NEW d \in Documents, SaveSpot(d) \/ DeleteNext(d)
        PROVE  Log!Next
    <2>1. Set(d) \in Writes /\ Delete(d) \in Writes
      BY DEF Set, Delete, Writes
    <2>2. Log!Make(fsUser, Set(d)) \/ Log!Make(fsUser, Delete(d))
      BY <1>2 DEF SaveSpot, DeleteNext
    <2> QED
      BY <1>1, <2>1, <2>2 DEF Log!Next
  <1>3. CASE RunNotify
    BY <1>3, NotifyStep
  <1>4. CASE Apply \/ Acknowledge \/ Refuse \/ StartOver
    <2>1. Log!Apply(fsUser) \/ Log!Acknowledge(fsUser) \/ Log!Refuse(fsUser)
          \/ Log!StartOver(fsUser)
      BY <1>4 DEF Apply, Acknowledge, Refuse, StartOver
    <2> QED
      BY <1>1, <2>1 DEF Log!Next
  <1>5. CASE \/ TapDelete \/ ListDone \/ RunDeleted
             \/ \E k \in queries : QueryAnswered(k) \/ QueryFails(k)
             \/ AccountDeleted \/ AccountDeletionFails \/ DeleteAnswered \/ OtherSignsIn
             \/ \E i \in removals : ImageRemoved(i) \/ RemovalFails(i)
             \/ \E i \in uploads : Uploaded(i)
             \/ UNCHANGED vars
    <2>1. UNCHANGED <<pending, ahead, applied, heard>>
      BY <1>5 DEF TapDelete, ListDone, RunDeleted, QueryAnswered, QueryFails,
                  AccountDeleted, AccountDeletionFails, DeleteAnswered, OtherSignsIn,
                  ImageRemoved, RemovalFails, Uploaded, vars, logVars
    <2> QED
      BY <2>1 DEF Log!logVars
  <1> QED
    BY <1>2, <1>3, <1>4, <1>5 DEF Next, Callbacks

\* The documents a deletion and the pin screens write are written as the write
\* log promises, which Firestore's queue implements: Firestore's user changes
\* between the turns of a loop, and a document's writes still end one by one
\* in the sequence of the user they were made as.
THEOREM DeletionUsesTheLog == Spec => Log!Spec
  <1>1. Init => IInv /\ Log!Init
    BY InitEstablishes DEF Init
  <1>2. IInv /\ [Next]_vars => IInv' /\ [Log!Next]_(Log!logVars)
    BY StepKeeps, DeletionStep
  <1> QED
    BY <1>1, <1>2, PTL DEF Spec, Log!Spec

\* The deletion of a document never reaches the server before the saving of
\* it that is still queued, nor any other write before an older one.
THEOREM DeletionAppliesInOrder == Spec => []Log!AppliedInOrder
  <1>1. Log!Spec => LogProofs!Spec
    <2>1. Log!Init <=> LogProofs!Init
      BY DEF Log!Init, LogProofs!Init
    <2>2. [Log!Next]_(Log!logVars) <=> [LogProofs!Next]_(LogProofs!logVars)
      BY DEF Log!Next, Log!Make, Log!Apply, Log!StartOver, Log!Acknowledge, Log!Refuse,
             Log!Tell, Log!logVars, LogProofs!Next, LogProofs!Make, LogProofs!Apply,
             LogProofs!StartOver, LogProofs!Acknowledge, LogProofs!Refuse,
             LogProofs!Tell, LogProofs!logVars
    <2> QED
      BY <2>1, <2>2, PTL DEF Log!Spec, LogProofs!Spec
  <1>2. LogProofs!AppliedInOrder <=> Log!AppliedInOrder
    BY DEF LogProofs!AppliedInOrder, Log!AppliedInOrder
  <1> QED
    BY <1>1, <1>2, DeletionUsesTheLog, LogProofs!LogAppliesInOrder, PTL

-----------------------------------------------------------------------------
(* The way back to the login screen.                                          *)

\* FirebaseAuth's notification comes before the completion it belongs to.
Completes(m, user) ==
  \A i \in 1..Len(m) : m[i].run = "deleted" =>
    user = Nobody \/ \E j \in 1..(i - 1) : m[j].run = "notify" /\ m[j].user = Nobody
OnlyLists(m) == \A i \in 1..Len(m) : m[i].run = "listed"
OneCompletion(m) ==
  \A i, k \in 1..Len(m) : m[i].run = "deleted" /\ m[k].run = "deleted" => i = k
HasCompletion(m) == \E i \in 1..Len(m) : m[i].run = "deleted"
OnlyNobody(m) == \A i \in 1..Len(m) : m[i].run = "notify" => m[i].user = Nobody

\* How far the deletion of the account has come, and what is known of it.
CallInv ==
  /\ tapped <=> call # "none"
  /\ account = "deleted" <=> call \in {"done", "answered"}
  /\ call # "answered" => signedIn = Me /\ screen = "profile" /\ OnlyLists(main)
  /\ call = "answered" =>
       \/ screen = "profile" /\ signedIn = Nobody /\ HasCompletion(main)
       \/ screen = "login" /\ signedIn = Nobody /\ fsUser = Nobody /\ ~HasCompletion(main)
       \/ screen = "profile" /\ signedIn = Other /\ ~HasCompletion(main)

NoticesInv ==
  /\ signedIn # Other => OnlyNobody(main)
  /\ Completes(main, fsUser) /\ OneCompletion(main)

ReturnInv == CallInv /\ NoticesInv

\* The login screen is shown with the account deleted, nobody signed in and
\* Firestore aware of it, and nothing shows it a second time.
LoginFindsNobody ==
  screen = "login" =>
    account = "deleted" /\ signedIn = Nobody /\ fsUser = Nobody /\ ~HasCompletion(main)

\* Once the deletion is confirmed, the account server has still to answer, or
\* FirebaseAuth to sign out and complete, or the main queue to show the login
\* screen, unless the server refused or somebody else has signed in since.
DeletionMovesOn ==
  tapped =>
    \/ call \in {"sent", "refused"} /\ account = "live" /\ signedIn = Me
    \/ call = "done" /\ account = "deleted" /\ signedIn = Me
    \/ /\ call = "answered" /\ account = "deleted" /\ signedIn # Me
       /\ screen = "profile" /\ signedIn = Nobody => HasCompletion(main)

LEMMA ReturnImplies ==
  ASSUME IInv, ReturnInv
  PROVE  LoginFindsNobody /\ DeletionMovesOn
  BY UidsAssumption DEF IInv, PlainInv, ReturnInv, CallInv, LoginFindsNobody, DeletionMovesOn

LEMMA ReturnInit == Init => ReturnInv
  BY UidsAssumption
  DEF Init, ReturnInv, CallInv, NoticesInv, OnlyLists, OnlyNobody, Completes, OneCompletion,
      HasCompletion

\* The blocks stay what they are, but for a listing that gets shorter or joins.
LEMMA ReturnListing ==
  ASSUME IInv, ReturnInv,
         Len(main') \in Nat, Len(main') >= Len(main),
         \A i \in 1..Len(main') :
           \/ main'[i].run = "listed" /\ (i \in 1..Len(main) => main[i].run = "listed")
           \/ i \in 1..Len(main) /\ main'[i] = main[i],
         UNCHANGED <<account, signedIn, fsUser, screen, call, tapped>>
  PROVE  ReturnInv'
  <1>1. 1..Len(main) \subseteq 1..Len(main') /\ Len(main) \in Nat
    BY DEF IInv
  <1>2. ASSUME NEW i \in 1..Len(main)
        PROVE  main'[i] = main[i] \/ (main[i].run = "listed" /\ main'[i].run = "listed")
    <2>1. i \in 1..Len(main')
      BY <1>1
    <2> QED
      BY <2>1
  <1>3. OnlyLists(main) => OnlyLists(main')
    BY <1>1 DEF OnlyLists
  <1>4. HasCompletion(main) <=> HasCompletion(main')
    BY <1>1, <1>2 DEF HasCompletion
  <1>5. OnlyNobody(main) => OnlyNobody(main')
    BY <1>1 DEF OnlyNobody
  <1>6. Completes(main', fsUser')
    <2> SUFFICES ASSUME NEW i \in 1..Len(main'), main'[i].run = "deleted", fsUser # Nobody
                 PROVE  \E j \in 1..(i - 1) : main'[j].run = "notify" /\ main'[j].user = Nobody
      <3>1. fsUser' = fsUser
        OBVIOUS
      <3> HIDE DEF Completes
      <3> QED
        BY <3>1 DEF Completes
    <2>1. i \in 1..Len(main) /\ main[i].run = "deleted"
      OBVIOUS
    <2>2. PICK j \in 1..(i - 1) : main[j].run = "notify" /\ main[j].user = Nobody
      BY <2>1 DEF ReturnInv, NoticesInv, Completes
    <2>3. j \in 1..Len(main)
      BY <1>1, <2>1
    <2> QED
      BY <1>2, <2>2, <2>3
  <1>7. OneCompletion(main')
    <2>1. \A i \in 1..Len(main') : main'[i].run = "deleted" =>
            i \in 1..Len(main) /\ main[i].run = "deleted"
      OBVIOUS
    <2> QED
      BY <2>1 DEF ReturnInv, NoticesInv, OneCompletion
  <1> QED
    BY <1>3, <1>4, <1>5, <1>6, <1>7 DEF ReturnInv, CallInv, NoticesInv

LEMMA ReturnDeleteNext ==
  ASSUME IInv, ReturnInv, NEW d \in Documents, DeleteNext(d)
  PROVE  ReturnInv'
  <1> DEFINE b == [Head(main) EXCEPT !.docs = Head(main).docs \ {d}]
  <1>1. main \in Seq(Blocks) /\ main # <<>> /\ Head(main).run = "listed"
        /\ main' = <<b>> \o Tail(main)
    BY DEF DeleteNext, Runs, IInv
  <1>2. Head(main) \in Listing
    BY <1>1, TailTyped, BlockFacts
  <1>3. b.run = "listed"
    BY <1>2 DEF Listing
  <1> HIDE DEF b
  <1>4. /\ Len(main') = Len(main) /\ Len(main) \in Nat /\ main'[1] = b
        /\ main[1].run = "listed"
        /\ \A i \in 1..Len(main) : i # 1 => main'[i] = main[i]
    BY <1>1
  <1>5. UNCHANGED <<account, signedIn, fsUser, screen, call, tapped>>
    BY DEF DeleteNext, authVars
  <1> QED
    BY <1>3, <1>4, <1>5, ReturnListing

LEMMA ReturnQueryAnswered ==
  ASSUME IInv, ReturnInv, NEW k \in queries, QueryAnswered(k)
  PROVE  ReturnInv'
  <1> DEFINE b == [run |-> "listed", in |-> k,
                   docs |-> {d \in Mine : d.in = k /\ Listed(d)}]
  <1>1. main' = Append(main, b) /\ b.run = "listed" /\ main \in Seq(Blocks)
    BY DEF QueryAnswered, IInv
  <1> HIDE DEF b
  <1>2. /\ Len(main') = Len(main) + 1 /\ Len(main) \in Nat
        /\ main'[Len(main) + 1] = b
        /\ \A i \in 1..Len(main) : main'[i] = main[i]
    BY <1>1
  <1>3. UNCHANGED <<account, signedIn, fsUser, screen, call, tapped>>
    BY DEF QueryAnswered, authVars
  <1> QED
    BY <1>1, <1>2, <1>3, ReturnListing

\* The main queue loses its head.
LEMMA ReturnTail ==
  ASSUME IInv, ReturnInv, main # <<>>, main' = Tail(main),
         fsUser' = IF Head(main).run = "notify" THEN Head(main).user ELSE fsUser
  PROVE  /\ OnlyLists(main) => OnlyLists(main')
         /\ OnlyNobody(main) => OnlyNobody(main')
         /\ HasCompletion(main') => HasCompletion(main)
         /\ HasCompletion(main) => HasCompletion(main') \/ Head(main).run = "deleted"
         /\ OnlyNobody(main) => Completes(main', fsUser')
         /\ ~HasCompletion(main) => Completes(main', fsUser')
         /\ OneCompletion(main')
         /\ Head(main).run = "deleted" => ~HasCompletion(main')
  <1> DEFINE n == Len(main)
             t == Tail(main)
             h == Head(main)
  <1>1. /\ n \in Nat /\ Len(t) = n - 1 /\ 1 \in 1..n /\ h = main[1]
        /\ \A i \in 1..(n - 1) : i + 1 \in 1..n /\ t[i] = main[i + 1]
        /\ \A i \in 1..n : i # 1 => i - 1 \in 1..(n - 1) /\ t[i - 1] = main[i]
    BY DEF IInv
  <1>2. main' = t /\ fsUser' = IF h.run = "notify" THEN h.user ELSE fsUser
    OBVIOUS
  <1> HIDE DEF t, h, n
  <1>3. OnlyLists(main) => OnlyLists(main')
    BY <1>1, <1>2 DEF OnlyLists, n
  <1>4. OnlyNobody(main) => OnlyNobody(main')
    BY <1>1, <1>2 DEF OnlyNobody, n
  <1>5. HasCompletion(main') => HasCompletion(main)
    BY <1>1, <1>2 DEF HasCompletion, n
  <1>6. HasCompletion(main) => HasCompletion(main') \/ h.run = "deleted"
    <2> SUFFICES ASSUME NEW i \in 1..n, main[i].run = "deleted", h.run # "deleted"
                 PROVE  HasCompletion(main')
      BY DEF HasCompletion, n
    <2>1. i - 1 \in 1..(n - 1) /\ t[i - 1] = main[i]
      BY <1>1
    <2>2. i - 1 \in 1..Len(main') /\ main'[i - 1].run = "deleted"
      BY <1>1, <1>2, <2>1
    <2> QED
      BY <2>2 DEF HasCompletion
  <1>7. OnlyNobody(main) => Completes(main', fsUser')
    <2> SUFFICES ASSUME OnlyNobody(main), NEW i \in 1..(n - 1), t[i].run = "deleted",
                        fsUser' # Nobody
                 PROVE  \E j \in 1..(i - 1) : t[j].run = "notify" /\ t[j].user = Nobody
      BY <1>1, <1>2 DEF Completes
    <2>1. h.run # "notify" /\ fsUser # Nobody
      BY <1>1, <1>2 DEF OnlyNobody, n
    <2>2. i + 1 \in 1..n /\ main[i + 1].run = "deleted"
      BY <1>1
    <2>3. PICK j \in 1..((i + 1) - 1) : main[j].run = "notify" /\ main[j].user = Nobody
      BY <2>1, <2>2 DEF ReturnInv, NoticesInv, Completes, n
    <2>4. j # 1 /\ j \in 1..n
      BY <1>1, <2>1, <2>3
    <2>5. j - 1 \in 1..(i - 1) /\ t[j - 1] = main[j]
      BY <1>1, <2>3, <2>4
    <2> QED
      BY <2>3, <2>5
  <1>8. ~HasCompletion(main) => Completes(main', fsUser')
    BY <1>1, <1>2, <1>5 DEF HasCompletion, Completes
  <1>9. OneCompletion(main')
    <2> SUFFICES ASSUME NEW i \in 1..(n - 1), NEW k \in 1..(n - 1),
                        t[i].run = "deleted", t[k].run = "deleted"
                 PROVE  i = k
      BY <1>1, <1>2 DEF OneCompletion
    <2>1. i + 1 = k + 1
      BY <1>1 DEF ReturnInv, NoticesInv, OneCompletion, n
    <2> QED
      BY <2>1
  <1>10. h.run = "deleted" => ~HasCompletion(main')
    <2> SUFFICES ASSUME h.run = "deleted", NEW i \in 1..(n - 1), t[i].run = "deleted"
                 PROVE  FALSE
      BY <1>1, <1>2 DEF HasCompletion
    <2>1. i + 1 = 1
      BY <1>1 DEF ReturnInv, NoticesInv, OneCompletion, n
    <2> QED
      BY <2>1
  <1> QED
    BY <1>3, <1>4, <1>5, <1>6, <1>7, <1>8, <1>9, <1>10 DEF h

LEMMA ReturnBlocks ==
  ASSUME IInv, ReturnInv, ListDone \/ RunNotify \/ RunDeleted
  PROVE  ReturnInv'
  <1>1. main # <<>> /\ main' = Tail(main) /\ UNCHANGED <<account, signedIn, call, tapped>>
    BY DEF ListDone, RunNotify, RunDeleted, Runs, authVars
  <1>2. fsUser' = IF Head(main).run = "notify" THEN Head(main).user ELSE fsUser
    BY DEF ListDone, RunNotify, RunDeleted, Runs, authVars
  <1>3. signedIn = Other => ~HasCompletion(main)
    BY UidsAssumption DEF IInv, PlainInv, ReturnInv, CallInv
  <1>4. NoticesInv'
    BY <1>1, <1>2, <1>3, ReturnTail DEF ReturnInv, NoticesInv, CallInv
  <1>5. Len(main) \in Nat /\ 1 \in 1..Len(main) /\ Head(main) = main[1]
    BY <1>1 DEF IInv
  <1>6. CASE ListDone
    <2>1. Head(main).run = "listed" /\ UNCHANGED <<screen, fsUser>>
      BY <1>6 DEF ListDone, Runs, authVars
    <2>2. Head(main).run # "deleted"
      BY <2>1
    <2> QED
      BY <1>1, <1>2, <1>4, <2>1, <2>2, ReturnTail DEF ReturnInv, CallInv
  <1>7. CASE RunNotify
    <2>1. Head(main).run = "notify" /\ fsUser' = Head(main).user /\ screen' = screen
      BY <1>7 DEF RunNotify, Runs
    <2>2. Head(main).run # "deleted" /\ ~OnlyLists(main)
      BY <1>5, <2>1 DEF OnlyLists
    <2>3. signedIn # Other => fsUser' = Nobody
      BY <1>5, <2>1 DEF ReturnInv, NoticesInv, OnlyNobody
    <2> QED
      BY <1>1, <1>2, <1>4, <2>1, <2>2, <2>3, UidsAssumption, ReturnTail DEF ReturnInv, CallInv
  <1>8. CASE RunDeleted
    <2>1. main[1].run = "deleted" /\ screen' = "login" /\ fsUser' = fsUser
      BY <1>5, <1>8 DEF RunDeleted, Runs, authVars
    <2>2. HasCompletion(main) /\ ~OnlyLists(main)
      BY <1>5, <2>1 DEF HasCompletion, OnlyLists
    <2>3. call = "answered" /\ signedIn = Nobody
      BY <2>2 DEF ReturnInv, CallInv
    <2>4. fsUser = Nobody
      <3>1. fsUser = Nobody \/ \E j \in 1..(1 - 1) : main[j].run = "notify"
        BY <1>5, <2>1 DEF ReturnInv, NoticesInv, Completes
      <3> QED
        BY <3>1
    <2>5. ~HasCompletion(main')
      BY <1>1, <1>2, <1>5, <2>1, ReturnTail
    <2> QED
      BY <1>1, <1>4, <2>1, <2>3, <2>4, <2>5 DEF ReturnInv, CallInv
  <1> QED
    BY <1>6, <1>7, <1>8

\* FirebaseAuth signs out and appends both blocks; somebody else comes.
LEMMA ReturnAnswered ==
  ASSUME IInv, ReturnInv, DeleteAnswered
  PROVE  ReturnInv'
  <1> DEFINE a == [run |-> "notify", user |-> Nobody]
             c == [run |-> "deleted"]
             n == Len(main)
  <1>1. main' = main \o <<a, c>> /\ main \in Seq(Blocks)
    BY DEF DeleteAnswered, IInv
  <1>2. a.run = "notify" /\ a.user = Nobody /\ c.run = "deleted"
    OBVIOUS
  <1> HIDE DEF a, c
  <1>3. /\ n \in Nat /\ Len(main') = n + 2
        /\ main'[n + 1] = a /\ main'[n + 2] = c
        /\ \A i \in 1..n : main'[i] = main[i]
    BY <1>1
  <1>4. /\ call = "done" /\ call' = "answered" /\ signedIn' = Nobody
        /\ UNCHANGED <<account, fsUser, screen, tapped>>
    BY DEF DeleteAnswered
  <1>5. OnlyLists(main) /\ screen = "profile"
    BY <1>4 DEF ReturnInv, CallInv
  <1> HIDE DEF n
  <1>6. \A i \in 1..Len(main') : i \in 1..n \/ i = n + 1 \/ i = n + 2
    BY <1>3
  <1>7. \A i \in 1..n : main'[i].run = "listed"
    BY <1>3, <1>5 DEF OnlyLists, n
  <1>8. n + 1 \in 1..((n + 2) - 1) /\ n + 2 \in 1..Len(main')
    BY <1>3
  <1>9. HasCompletion(main') /\ OnlyNobody(main') /\ Completes(main', fsUser') /\ OneCompletion(main')
    <2>1. HasCompletion(main')
      BY <1>2, <1>3, <1>8 DEF HasCompletion
    <2>2. \A i \in 1..Len(main') :
            /\ main'[i].run = "notify" => i = n + 1
            /\ main'[i].run = "deleted" => i = n + 2
      BY <1>2, <1>3, <1>6, <1>7
    <2>3. OnlyNobody(main')
      BY <1>2, <1>3, <2>2 DEF OnlyNobody
    <2>4. OneCompletion(main')
      BY <2>2 DEF OneCompletion
    <2>5. Completes(main', fsUser')
      BY <1>2, <1>3, <1>8, <2>2 DEF Completes
    <2> QED
      BY <2>1, <2>3, <2>4, <2>5
  <1> QED
    BY <1>4, <1>5, <1>9 DEF ReturnInv, CallInv, NoticesInv

LEMMA ReturnOther ==
  ASSUME IInv, ReturnInv, OtherSignsIn
  PROVE  ReturnInv'
  <1> DEFINE b == [run |-> "notify", user |-> Other]
  <1>1. /\ screen = "login" /\ signedIn' = Other /\ screen' = "profile" /\ main' = <<b>>
        /\ UNCHANGED <<account, fsUser, call, tapped>>
    BY DEF OtherSignsIn
  <1>2. b.run = "notify"
    OBVIOUS
  <1> HIDE DEF b
  <1>3. Len(main') = 1 /\ \A i \in 1..Len(main') : main'[i].run = "notify"
    BY <1>1, <1>2
  <1>4. call = "answered"
    BY <1>1 DEF ReturnInv, CallInv, IInv, PlainInv
  <1>5. ~HasCompletion(main') /\ Completes(main', fsUser') /\ OneCompletion(main')
    BY <1>3 DEF HasCompletion, Completes, OneCompletion
  <1> QED
    BY <1>1, <1>4, <1>5 DEF ReturnInv, CallInv, NoticesInv

LEMMA ReturnNext == IInv /\ ReturnInv /\ [Next]_vars => ReturnInv'
  <1> SUFFICES ASSUME IInv, ReturnInv, [Next]_vars PROVE ReturnInv'
    OBVIOUS
  <1>1. CASE Callbacks
    BY <1>1, ReturnDeleteNext, ReturnBlocks DEF Callbacks
  <1>2. CASE \E k \in queries : QueryAnswered(k)
    BY <1>2, ReturnQueryAnswered
  <1>3. CASE DeleteAnswered \/ OtherSignsIn
    BY <1>3, ReturnAnswered, ReturnOther
  <1>4. CASE TapDelete
    <2>1. call = "none" /\ main = <<>>
      BY <1>4 DEF TapDelete, ReturnInv, CallInv
    <2> QED
      BY <1>4, <2>1 DEF TapDelete, ReturnInv, CallInv, NoticesInv, authVars
  <1>5. CASE AccountDeleted \/ AccountDeletionFails
    BY <1>5 DEF AccountDeleted, AccountDeletionFails, ReturnInv, CallInv, NoticesInv, authVars
  <1>6. CASE \/ \E d \in Documents : SaveSpot(d)
             \/ \E k \in queries : QueryFails(k)
             \/ Apply \/ Acknowledge \/ Refuse \/ StartOver
             \/ \E i \in removals : ImageRemoved(i) \/ RemovalFails(i)
             \/ \E i \in uploads : Uploaded(i)
             \/ UNCHANGED vars
    <2>1. UNCHANGED <<account, signedIn, fsUser, screen, call, tapped, main>>
      BY <1>6 DEF SaveSpot, QueryFails, Apply, Acknowledge, Refuse, StartOver, ImageRemoved,
                  RemovalFails, Uploaded, vars, authVars
    <2> QED
      BY <2>1 DEF ReturnInv, CallInv, NoticesInv
  <1> QED
    BY <1>1, <1>2, <1>3, <1>4, <1>5, <1>6 DEF Next

LEMMA ReturnInvariant == Spec => [](IInv /\ ReturnInv)
  <1>1. Init => IInv /\ ReturnInv
    BY InitEstablishes, ReturnInit
  <1>2. IInv /\ ReturnInv /\ [Next]_vars => IInv' /\ ReturnInv'
    BY StepKeeps, ReturnNext
  <1> QED
    BY <1>1, <1>2, PTL DEF Spec

\* deleteWithCompletion notifies before it completes: the login screen is shown
\* once, after the account was deleted, when nobody is signed in any more and
\* Firestore has left the deleted user's queue.
THEOREM LoginAfterDeletion == Spec => []LoginFindsNobody
  <1>1. IInv /\ ReturnInv => LoginFindsNobody
    BY ReturnImplies
  <1> QED
    BY <1>1, ReturnInvariant, PTL

\* deleteUserTapped and deleteWithCompletion: whatever else fails, a confirmed
\* deletion always has the step ahead that brings it to the login screen, so
\* that DeletionLeavesProfile rests on fairness alone.
THEOREM DeletionKeepsMoving == Spec => []DeletionMovesOn
  <1>1. IInv /\ ReturnInv => DeletionMovesOn
    BY ReturnImplies
  <1> QED
    BY <1>1, ReturnInvariant, PTL
=============================================================================
