-------------------------- MODULE AccountDeletion ---------------------------
(***************************************************************************)
(* The deletion of an account with all its data                             *)
(* (ProfileViewController.deleteUserTapped): three queries and the call     *)
(* that deletes the account start together; the documents a query lists are *)
(* deleted one by one through Firestore, as the user Firestore has by then. *)
(*                                                                          *)
(* Firestore's writes are WriteLog (which WriteQueue implements); the user  *)
(* and the notifications are Session's, reduced to one account that deletes *)
(* itself and another that may sign in afterwards.                          *)
(***************************************************************************)
EXTENDS Naturals, FiniteSets, SequencesExt

CONSTANTS
  Me, Other,  \* two uids
  Nobody,     \* the user of Firestore while nobody is signed in
  Collections, \* "genres" and "users", which are treated alike
  MaxSpots,   \* bound: spots I ever had; the other has one
  MaxFailures \* bound: queries, calls and writes that end in an error

ASSUME UidsAssumption == Me # Other /\ Nobody \notin {Me, Other}
ASSUME CollectionsAssumption == "spots" \notin Collections
ASSUME BoundsAssumption == MaxSpots \in Nat \ {0} /\ MaxFailures \in Nat

VARIABLES
  account,  \* is my account "live" or "deleted"
  signedIn, \* FIRAuth's current user
  fsUser,   \* the user Firestore acts as
  main,     \* blocks on the main queue
  screen,   \* "profile" or "login"
  server,   \* documents on the server
  images,   \* files in Storage: <<owner, spot>>, or <<owner, 0>> the profile's
  queries,  \* collections deleteUserTapped is waiting for
  call,     \* the call that deletes the account: "none", "sent", "done",
            \* "refused" or "answered"
  removals, \* Storage deletions in flight
  uploads,  \* photos of saved spots on their way to Storage
  spots,    \* how many spots I ever had
  tapped,   \* the deletion was confirmed
  failures, \* how many steps of it ended in an error
  late,     \* history: my spots saved, or their photos stored, after the listing
  pending, ahead, applied, heard \* Firestore's writes, see WriteLog

logVars == <<pending, ahead, applied, heard>>
authVars == <<account, signedIn, fsUser>>
storage == <<images, removals, uploads>>
vars == <<authVars, main, screen, server, storage, queries, call, spots,
          tapped, failures, late, logVars>>

Users == {Me, Other, Nobody}
Kinds == {"spots"} \cup Collections

\* A document and the uid field the queries select by.
Documents == [in : {"spots"}, uid : {Me}, id : 1..MaxSpots]
        \cup [in : {"spots"} \cup Collections, uid : {Me, Other}, id : {1}]
Mine == {d \in Documents : d.uid = Me}
Image(d) == <<d.uid, d.id>>
ProfileImage == <<Me, 0>>

Writes == [set : BOOLEAN, doc : Documents]
Set(d) == [set |-> TRUE, doc |-> d]
Delete(d) == [set |-> FALSE, doc |-> d]

Log == INSTANCE WriteLog

FirstSpot(u) == [in |-> "spots", uid |-> u, id |-> 1]

Init ==
  /\ account = "live" /\ signedIn = Me /\ fsUser = Me
  /\ main = <<>> /\ screen = "profile"
  /\ spots \in 0..1
  /\ server = {d \in Documents : d.id = 1} \ (IF spots = 1 THEN {} ELSE {FirstSpot(Me)})
  /\ images = {<<Me, i>> : i \in 0..spots} \cup {<<Other, i>> : i \in 0..1}
  /\ queries = {} /\ call = "none" /\ removals = {} /\ uploads = {}
  /\ tapped = FALSE /\ failures = 0 /\ late = {}
  /\ Log!Init

Fails == failures < MaxFailures /\ failures' = failures + 1

-----------------------------------------------------------------------------
(* The app on the main thread.                                               *)

\* A spot is saved on a pin screen: addDocument, and the upload of its photo.
SaveSpot(d) ==
  /\ screen = "profile" /\ main = <<>>
  /\ d \in Mine /\ d.in = "spots" /\ signedIn = Me
  /\ d.id = spots + 1 /\ spots' = spots + 1
  /\ Log!Make(fsUser, Set(d))
  /\ uploads' = uploads \cup {Image(d)}
  /\ late' = IF tapped /\ "spots" \notin queries THEN late \cup {d} ELSE late
  /\ UNCHANGED <<authVars, main, screen, server, images, removals, queries,
                 call, tapped, failures>>

\* deleteUserTapped, confirmed: three queries for the uid the controller was
\* made with, and the deletion of the account it was made with.
TapDelete ==
  /\ screen = "profile" /\ main = <<>> /\ ~tapped
  /\ tapped' = TRUE
  /\ queries' = Kinds
  /\ call' = "sent"
  /\ UNCHANGED <<spots, authVars, main, screen, server, storage, failures, late,
                 logVars>>

\* A document the current user's writes have set or deleted locally.
Locally(d) == {i \in 1..Len(pending[fsUser]) : pending[fsUser][i].doc = d}
Listed(d) ==
  IF Locally(d) = {} THEN d \in server
  ELSE pending[fsUser][CHOOSE i \in Locally(d) :
                         \A j \in Locally(d) : j <= i].set

\* Mutant of QueryAnswered: the query is not restricted to the uid.
QueryAnsweredUnfiltered(k) ==
  /\ queries' = queries \ {k}
  /\ main' = Append(main, [run |-> "listed", in |-> k,
                           docs |-> {d \in Documents : d.in = k /\ Listed(d)}])
  /\ UNCHANGED <<spots, authVars, screen, server, storage, call, tapped, failures,
                 late, logVars>>

\* Mutant of QueryAnswered: the query is on another collection as well.
QueryAnsweredAnywhere(k) ==
  /\ queries' = queries \ {k}
  /\ main' = Append(main, [run |-> "listed", in |-> k,
                           docs |-> {d \in Mine : Listed(d)}])
  /\ UNCHANGED <<spots, authVars, screen, server, storage, call, tapped, failures,
                 late, logVars>>

\* Firestore answers a query with the server's documents, as the writes still
\* pending change them ...
QueryAnswered(k) ==
  /\ queries' = queries \ {k}
  /\ main' = Append(main, [run |-> "listed", in |-> k,
               docs |-> {d \in Mine : d.in = k /\ Listed(d)}])
  /\ UNCHANGED <<spots, authVars, screen, server, storage, call, tapped, failures,
                 late, logVars>>

\* ... or with an error, which is printed.
QueryFails(k) ==
  /\ Fails
  /\ queries' = queries \ {k}
  /\ UNCHANGED <<spots, authVars, main, screen, server, storage, call, tapped, late,
                 logVars>>

Runs(block) == main # <<>> /\ Head(main).run = block

\* Mutant of DeleteNext: a spot's image is deleted instead of the document.
DeleteNextImage(d) ==
  /\ Runs("listed") /\ d \in Head(main).docs
  /\ main' = <<[Head(main) EXCEPT !.docs = @ \ {d}]>> \o Tail(main)
  /\ removals' = removals \cup {Image(d)}
  /\ UNCHANGED <<spots, authVars, screen, server, images, uploads, queries, call,
                 tapped, failures, late, logVars>>

\* One turn of a callback's loop: for a spot its image is deleted as well.
\* Firestore may work between two turns, the main queue does not.
DeleteNext(d) ==
  /\ Runs("listed") /\ d \in Head(main).docs
  /\ main' = <<[Head(main) EXCEPT !.docs = @ \ {d}]>> \o Tail(main)
  /\ Log!Make(fsUser, Delete(d))
  /\ removals' = IF d.in = "spots" THEN removals \cup {Image(d)} ELSE removals
  /\ UNCHANGED <<spots, authVars, screen, server, images, uploads, queries, call,
                 tapped, failures, late>>

\* The end of a callback; the one for the spots deletes the profile's image.
ListDone ==
  /\ Runs("listed") /\ Head(main).docs = {}
  /\ main' = Tail(main)
  /\ removals' = IF Head(main).in = "spots" THEN removals \cup {ProfileImage}
                 ELSE removals
  /\ UNCHANGED <<spots, authVars, screen, server, images, uploads, queries, call,
                 tapped, failures, late, logVars>>

\* The credentials provider hears of a user, and Firestore swaps its queue.
RunNotify ==
  /\ Runs("notify")
  /\ main' = Tail(main)
  /\ fsUser' = Head(main).user
  /\ ahead' = [ahead EXCEPT ![fsUser] = 0]
  /\ UNCHANGED <<spots, account, signedIn, screen, server, storage, queries, call,
                 tapped, failures, late, pending, applied, heard>>

\* The completion of user?.delete shows the login screen.
RunDeleted ==
  /\ Runs("deleted")
  /\ main' = Tail(main)
  /\ screen' = "login"
  /\ UNCHANGED <<spots, authVars, server, storage, queries, call, tapped, failures,
                 late, logVars>>

-----------------------------------------------------------------------------
(* The account server and FirebaseAuth's work queue.                         *)

AccountDeleted ==
  /\ call = "sent"
  /\ call' = "done"
  /\ account' = "deleted"
  /\ UNCHANGED <<spots, signedIn, fsUser, main, screen, server, storage, queries,
                 tapped, failures, late, logVars>>

\* Offline, or the sign-in is too long ago: the error is printed, and that is
\* all that happens.
AccountDeletionFails ==
  /\ call = "sent" /\ Fails
  /\ call' = "refused"
  /\ UNCHANGED <<spots, authVars, main, screen, server, storage, queries, tapped,
                 late, logVars>>

\* Mutant of DeleteAnswered: the completion is not called.
DeleteAnsweredQuietly ==
  /\ call = "done"
  /\ call' = "answered"
  /\ signedIn' = Nobody
  /\ main' = Append(main, [run |-> "notify", user |-> Nobody])
  /\ UNCHANGED <<spots, account, fsUser, screen, server, storage, queries, tapped,
                 failures, late, logVars>>

\* deleteWithCompletion signs the user out: notification, then completion.
DeleteAnswered ==
  /\ call = "done"
  /\ call' = "answered"
  /\ signedIn' = Nobody
  /\ main' = main \o <<[run |-> "notify", user |-> Nobody],
                       [run |-> "deleted"]>>
  /\ UNCHANGED <<spots, account, fsUser, screen, server, storage, queries, tapped,
                 failures, late, logVars>>

\* Somebody else signs in on the device and comes to the tabs.
OtherSignsIn ==
  /\ screen = "login" /\ main = <<>> /\ signedIn = Nobody
  /\ signedIn' = Other
  /\ main' = <<[run |-> "notify", user |-> Other]>>
  /\ screen' = "profile"
  /\ UNCHANGED <<spots, account, fsUser, server, storage, queries, call, tapped,
                 failures, late, logVars>>

-----------------------------------------------------------------------------
(* Firestore and Storage.                                                    *)

\* The next write of the user Firestore has is applied to the documents.
Apply ==
  /\ Log!Apply(fsUser)
  /\ LET w == pending[fsUser][ahead[fsUser] + 1]
     IN  server' = IF w.set THEN server \cup {w.doc} ELSE server \ {w.doc}
  /\ UNCHANGED <<spots, authVars, main, screen, storage, queries, call, tapped,
                 failures, late>>

\* The app gave delete and addDocument no completion, and hears nothing.
Acknowledge ==
  /\ UNCHANGED heard /\ Log!Acknowledge(fsUser)
  /\ UNCHANGED <<spots, authVars, main, screen, server, storage, queries, call,
                 tapped, failures, late>>

\* The rules refuse a write, as they may for an account that is gone.
Refuse ==
  /\ Fails
  /\ UNCHANGED heard /\ Log!Refuse(fsUser)
  /\ UNCHANGED <<spots, authVars, main, screen, server, storage, queries, call,
                 tapped, late>>

\* The stream breaks.
StartOver ==
  /\ Fails
  /\ Log!StartOver(fsUser)
  /\ UNCHANGED <<spots, authVars, main, screen, server, storage, queries, call,
                 tapped, late>>

ImageRemoved(i) ==
  /\ removals' = removals \ {i}
  /\ images' = images \ {i}
  /\ UNCHANGED <<spots, authVars, main, screen, server, uploads, queries, call,
                 tapped, failures, late, logVars>>

RemovalFails(i) ==
  /\ Fails
  /\ removals' = removals \ {i}
  /\ UNCHANGED <<spots, authVars, main, screen, server, images, uploads, queries,
                 call, tapped, late, logVars>>

\* A photo may reach Storage after the deletion of its spot was asked for.
Uploaded(i) ==
  /\ uploads' = uploads \ {i}
  /\ images' = images \cup {i}
  /\ late' = late \cup {d \in Mine : d.in = "spots" /\ Image(d) = i /\ tapped}
  /\ UNCHANGED <<spots, authVars, main, screen, server, removals, queries, call,
                 tapped, failures, logVars>>

-----------------------------------------------------------------------------
Callbacks ==
  (\E d \in Documents : DeleteNext(d)) \/ ListDone \/ RunNotify \/ RunDeleted

Next ==
  \/ \E d \in Documents : SaveSpot(d)
  \/ TapDelete \/ Callbacks
  \/ \E k \in queries : QueryAnswered(k) \/ QueryFails(k)
  \/ AccountDeleted \/ AccountDeletionFails \/ DeleteAnswered \/ OtherSignsIn
  \/ Apply \/ Acknowledge \/ Refuse \/ StartOver
  \/ \E i \in removals : ImageRemoved(i) \/ RemovalFails(i)
  \/ \E i \in uploads : Uploaded(i)

\* Blocks run and requests end, one way or the other.
Fairness ==
  /\ WF_vars(Callbacks)
  /\ WF_vars(\E k \in queries : QueryAnswered(k) \/ QueryFails(k))
  /\ WF_vars(AccountDeleted \/ AccountDeletionFails)
  /\ WF_vars(DeleteAnswered)
  /\ WF_vars(Apply \/ Refuse) /\ WF_vars(Acknowledge)
  /\ WF_vars(\E i \in removals : ImageRemoved(i) \/ RemovalFails(i))

Spec == Init /\ [][Next]_vars /\ Fairness

-----------------------------------------------------------------------------
Listing == [run : {"listed"}, in : Kinds, docs : SUBSET Documents]

TypeOK ==
  /\ account \in {"live", "deleted"}
  /\ signedIn \in Users /\ fsUser \in Users
  /\ \A i \in 1..Len(main) :
       \/ main[i] \in [run : {"notify"}, user : Users]
       \/ main[i] = [run |-> "deleted"]
       \/ main[i] \in Listing /\ \A d \in main[i].docs : d.in = main[i].in
  /\ screen \in {"profile", "login"}
  /\ server \subseteq Documents
  /\ images \cup removals \cup uploads \subseteq {Me, Other} \X (0..MaxSpots)
  /\ queries \subseteq Kinds
  /\ call \in {"none", "sent", "done", "refused", "answered"}
  /\ spots \in 0..MaxSpots /\ tapped \in BOOLEAN /\ failures \in 0..MaxFailures
  /\ late \subseteq Mine
  /\ \A u \in Users : pending[u] \in Seq(Writes) /\ ahead[u] \in 0..Len(pending[u])

\* The deletion of one account never takes a document or an image of another,
\* not even when that other signs in while callbacks and writes of the
\* deletion are still under way.
OthersUntouched ==
  /\ FirstSpot(Other) \in server /\ <<Other, 1>> \in images
  /\ \A u \in Users : \A i \in 1..Len(pending[u]) :
        ~pending[u][i].set => pending[u][i].doc \in Mine
  /\ \A i \in removals : i[1] = Me

\* Nothing of the deletion is going on any more, as far as Firestore's user
\* of now is concerned.
Quiet ==
  /\ tapped /\ main = <<>> /\ queries = {} /\ call \in {"refused", "answered"}
  /\ removals = {} /\ uploads = {} /\ pending[fsUser] = <<>>

Stranded(w) ==
  \E u \in Users \ {fsUser} : \E i \in 1..Len(pending[u]) :
     pending[u][i] = w

\* When everything went well, what is left of the account's documents is what
\* was saved after the listing, and what waits to be deleted in the queue of a
\* user Firestore has left, the deleted one or nobody; an image
\* is left only with a late spot or one whose saving is stranded like that.
LeftoversExplained ==
  Quiet /\ failures = 0 =>
    /\ \A d \in server \cap Mine : d \in late \/ Stranded(Delete(d))
    /\ \A d \in Mine : d.in = "spots" /\ Image(d) \in images =>
         d \in late \/ Stranded(Set(d))
    /\ ProfileImage \notin images

\* The person who confirmed the deletion ends up on the login screen with the
\* account deleted, whatever else failed, unless the account server refused.
DeletionLeavesProfile ==
  tapped /\ signedIn = Me ~> (account = "deleted" /\ screen = "login") \/ call = "refused"

\* "All associated data will also be deleted."
\* (ProfileViewController.swift:138): once the deletion has succeeded and
\* nothing failed, no document older than the deletion is left.
AllDataDeleted ==
  Quiet /\ failures = 0 /\ account = "deleted" => server \cap Mine \subseteq late
=============================================================================
