------------------------------- MODULE Session -------------------------------
(***************************************************************************)
(* Who is signed in, according to each place of the Spots app that keeps   *)
(* an answer: the account server, FirebaseAuth's current user and its copy *)
(* in the keychain, the "uid" entry of UserDefaults that SceneDelegate     *)
(* reads at launch, the identity the tab bar's view controllers captured   *)
(* when they were instantiated, and the user Firestore writes as.          *)
(*                                                                         *)
(* Three parties take steps: the main thread (taps, and the blocks of its  *)
(* FIFO queue), FirebaseAuth's serial work queue, and the account server.  *)
(* A FirebaseAuth call is a record in "calls": sent, then executed by the  *)
(* server, then handled on the work queue, which appends blocks to mainQ.  *)
(***************************************************************************)
EXTENDS Naturals, Sequences

CONSTANTS
  Uids,      \* accounts a person may create; an e-mail address is its uid
  NoUid,     \* no uid: nil in the code
  MaxCalls,  \* bound on the FirebaseAuth calls made in one behaviour
  MaxKills   \* bound on the times the process dies

ASSUME UidAssumption == NoUid \notin Uids
ASSUME BoundAssumption == MaxCalls \in Nat /\ MaxKills \in Nat

VARIABLES
  account,     \* account server: what became of each uid
  keychain,    \* uid of the user FirebaseAuth archived, survives the process
  defaults,    \* UserDefaults "uid", survives the process
  profiles,    \* "users" documents written: whose, and under which Firestore user
  root,        \* the window's root view controller, or "dead"
  captured,    \* the user object the tab bar's controllers hold
  currentUser, \* FIRAuth._currentUser
  fsUser,      \* current_user of Firestore's credentials provider
  mainQ,       \* blocks dispatched to the main queue and not yet run
  calls,       \* FirebaseAuth calls in flight
  made,        \* calls made so far: also the identity of the next user object
  kills        \* deaths of the process so far

stored == <<account, keychain, defaults, profiles>>
memory == <<root, captured, currentUser, fsUser, mainQ, calls>>
vars == <<account, keychain, defaults, profiles, root, captured, currentUser,
          fsUser, mainQ, calls, made, kills>>

\* FIRUser objects. Two sign-ins as one uid give two objects, told apart by id.
\* The object decoded from the keychain at launch has id 0.
Users == [uid : Uids, id : 0..MaxCalls]
NoUser == [uid |-> NoUid, id |-> 0]

CallKinds == {"signIn", "signUp", "reauth", "update", "delete"}
Calls == [kind : CallKinds, user : Users, id : 0..MaxCalls,
          stage : {"sent", "done", "matched", "refused"}]
Blocks ==
  [kind : {"authState"}, user : Users \cup {NoUser}] \cup
  [kind : {"signedIn", "signedUp", "reauthenticated", "deleted"}, user : Users]
Block(k, u) == [kind |-> k, user |-> u]

TypeOK ==
  /\ account \in [Uids -> {"absent", "live", "deleted"}]
  /\ keychain \in Uids \cup {NoUid}
  /\ defaults \in Uids \cup {NoUid}
  /\ profiles \subseteq [uid : Uids, writer : Uids \cup {NoUid}]
  /\ root \in {"login", "main", "dead"}
  /\ captured \in Users \cup {NoUser}
  /\ currentUser \in Users \cup {NoUser}
  /\ fsUser \in Uids \cup {NoUid}
  /\ mainQ \in Seq(Blocks)
  /\ calls \subseteq Calls
  /\ made \in 0..MaxCalls
  /\ kills \in 0..MaxKills

\* A fresh installation, its first launch done: nobody is signed in.
Init ==
  /\ account = [u \in Uids |-> "absent"]
  /\ keychain = NoUid
  /\ defaults = NoUid
  /\ profiles = {}
  /\ root = "login"
  /\ captured = NoUser
  /\ currentUser = NoUser
  /\ fsUser = NoUid
  /\ mainQ = <<>>
  /\ calls = {}
  /\ made = 0
  /\ kills = 0

-----------------------------------------------------------------------------
(* FirebaseAuth's own state changes, each one block of its work queue.      *)

\* Mutant of SetCurrentUser: the completion is dispatched ahead of the
\* notification.
SetCurrentUserNotifyingLast(u, blocks) ==
  /\ keychain' = u.uid
  /\ currentUser' = u
  /\ mainQ' = Append(mainQ \o blocks, Block("authState", u))

\* updateCurrentUser: archive, then swap the current user and post the
\* notification; blocks are what the caller dispatches to main in this step.
SetCurrentUser(u, blocks) ==
  /\ keychain' = u.uid
  /\ currentUser' = u
  /\ mainQ' = Append(mainQ, Block("authState", u)) \o blocks

\* Mutant of SignOut: no notification is posted.
SignOutSilently(q) ==
  /\ mainQ' = q
  /\ \/ UNCHANGED <<keychain, currentUser>>
     \/ keychain' = NoUid /\ currentUser' = NoUser

\* signOut from the main thread. Nothing happens when nobody is signed in, or
\* when the keychain cannot be written. q is the main queue the caller leaves.
SignOut(q) ==
  \/ /\ mainQ' = q
     /\ UNCHANGED <<keychain, currentUser>>
  \/ /\ currentUser # NoUser
     /\ keychain' = NoUid
     /\ currentUser' = NoUser
     /\ mainQ' = Append(q, Block("authState", NoUser))

\* Mutant of SignOutByForce: the comparison of the two uids is gone.
SignOutWhoever(u, ok) ==
  /\ keychain' = NoUid
  /\ currentUser' = NoUser
  /\ mainQ' = Append(mainQ, Block("authState", NoUser)) \o ok

\* signOutByForceWithUserID, called by the user object u. It compares the uid
\* strings by pointer, so only the very object that is current is signed out;
\* a keychain that cannot be written does not stop it, but is reported as an
\* error. ok is dispatched to main when the call reports success.
SignOutByForce(u, ok) ==
  \/ /\ currentUser # u
     /\ mainQ' = mainQ \o ok
     /\ UNCHANGED <<keychain, currentUser>>
  \/ /\ currentUser = u
     /\ keychain' = NoUid
     /\ currentUser' = NoUser
     /\ mainQ' = Append(mainQ, Block("authState", NoUser)) \o ok
  \/ /\ currentUser = u
     /\ currentUser' = NoUser
     /\ mainQ' = Append(mainQ, Block("authState", NoUser))
     /\ UNCHANGED keychain

\* A user object starts a call of its own.
CallOf(k, u) ==
  [kind |-> k, user |-> u, id |-> made + 1, stage |-> "sent"]

Send(c) ==
  /\ made < MaxCalls
  /\ made' = made + 1
  /\ calls' = calls \cup {c}

-----------------------------------------------------------------------------
(* The main thread: taps.                                                   *)

\* LoginViewController.loginTapped. Nothing stops a second tap.
TapLogin(u) ==
  /\ root = "login"
  /\ Send(CallOf("signIn", [uid |-> u, id |-> made + 1]))
  /\ UNCHANGED <<stored, root, captured, currentUser, fsUser, mainQ, kills>>

\* SignUpViewController.registerTapped, its fields valid.
TapRegister(u) ==
  /\ root = "login"
  /\ Send(CallOf("signUp", [uid |-> u, id |-> made + 1]))
  /\ UNCHANGED <<stored, root, captured, currentUser, fsUser, mainQ, kills>>

\* Mutant of GoToLogin: the login flag is not removed.
GoToLoginKeepingFlag ==
  /\ root' = "login"
  /\ captured' = NoUser
  /\ UNCHANGED defaults

\* Both sign-out paths of the app end like this.
GoToLogin ==
  /\ defaults' = NoUid
  /\ root' = "login"
  /\ captured' = NoUser

\* ProfileViewController.logoutTapped: an error of signOut is only printed.
TapLogout ==
  /\ root = "main"
  /\ SignOut(mainQ)
  /\ GoToLogin
  /\ UNCHANGED <<account, profiles, fsUser, calls, made, kills>>

\* PasswordViewController.confirmPasswords with valid new passwords. email! of
\* a nil user stops the program.
TapConfirmPassword ==
  /\ root = "main"
  /\ currentUser # NoUser
  /\ Send(CallOf("reauth", currentUser))
  /\ UNCHANGED <<stored, root, captured, currentUser, fsUser, mainQ, kills>>

\* The authentication half of ProfileViewController.deleteUserTapped, on the
\* user object the controller captured; with none, user?.delete does nothing.
TapDeleteUser ==
  /\ root = "main"
  /\ captured # NoUser
  /\ Send(CallOf("delete", captured))
  /\ UNCHANGED <<stored, root, captured, currentUser, fsUser, mainQ, kills>>

-----------------------------------------------------------------------------
(* The account server.                                                      *)

Advance(c, s) == calls' = (calls \ {c}) \cup {[c EXCEPT !.stage = s]}

\* The server executes a request. Sign-in and reauthentication need a live
\* account (and the right password: CallFails covers the wrong one).
ServerExecutes(c) ==
  /\ c.stage = "sent"
  /\ \/ /\ c.kind \in {"signIn", "reauth", "update"}
        /\ account[c.user.uid] = "live"
        /\ Advance(c, "done")
        /\ UNCHANGED account
     \/ /\ c.kind = "signUp"
        /\ account[c.user.uid] = "absent"
        /\ Advance(c, "done")
        /\ account' = [account EXCEPT ![c.user.uid] = "live"]
     \/ /\ c.kind = "delete"
        /\ account[c.user.uid] = "live"
        /\ Advance(c, "done")
        /\ account' = [account EXCEPT ![c.user.uid] = "deleted"]
     \/ /\ c.kind = "update"
        /\ account[c.user.uid] = "deleted"
        /\ Advance(c, "refused")
        /\ UNCHANGED account
  /\ UNCHANGED <<keychain, defaults, profiles, root, captured, currentUser,
                 fsUser, mainQ, made, kills>>

\* A call ends in an error before or after the server executed it (refused,
\* offline, answer lost, keychain not writable): its completion shows or prints
\* the error. A refused update has its own handler below.
CallFails(c) ==
  /\ c.stage # "refused"
  /\ calls' = calls \ {c}
  /\ UNCHANGED <<stored, root, captured, currentUser, fsUser, mainQ, made, kills>>

-----------------------------------------------------------------------------
(* FirebaseAuth's work queue: answers.                                      *)

\* signInWithEmail and createUserWithEmail, decorated by the sign-in flow: the
\* notification and the completion are dispatched by one block, in this order.
SignInAnswered(c) ==
  /\ c.stage = "done"
  /\ \/ c.kind = "signIn" /\ SetCurrentUser(c.user, <<Block("signedIn", c.user)>>)
     \/ c.kind = "signUp" /\ SetCurrentUser(c.user, <<Block("signedUp", c.user)>>)
  /\ calls' = calls \ {c}
  /\ UNCHANGED <<account, defaults, profiles, root, captured, fsUser, made, kills>>

\* FIRUser.reauthenticate: the account that answered must be the one signed in
\* now, whatever object stands for it. The new token is installed by a later
\* block of the work queue.
ReauthMatched(c) ==
  /\ c.kind = "reauth" /\ c.stage = "done"
  /\ c.user.uid = currentUser.uid
  /\ Advance(c, "matched")
  /\ UNCHANGED <<stored, root, captured, currentUser, fsUser, mainQ, made, kills>>

\* setTokenService and updateKeychainWithUser, which archives and notifies only
\* for the object that is still current. (A mismatch is a CallFails.)
TokenInstalled(c, ok) ==
  /\ \/ /\ c.user = currentUser
        /\ keychain' = c.user.uid
        /\ mainQ' = Append(mainQ, Block("authState", c.user)) \o ok
     \/ /\ c.user # currentUser
        /\ mainQ' = mainQ \o ok
        /\ UNCHANGED keychain
  /\ calls' = calls \ {c}
  /\ UNCHANGED <<account, defaults, profiles, root, captured, currentUser,
                 fsUser, made, kills>>

ReauthAnswered(c) ==
  /\ c.kind = "reauth" /\ c.stage = "matched"
  /\ TokenInstalled(c, <<Block("reauthenticated", c.user)>>)

\* updatePassword has no completion: nobody learns of its outcome.
UpdateAnswered(c) ==
  /\ c.kind = "update" /\ c.stage = "done"
  /\ TokenInstalled(c, <<>>)

\* signOutIfTokenIsInvalidWithError in an update of a deleted account.
UpdateRefused(c) ==
  /\ c.kind = "update" /\ c.stage = "refused"
  /\ SignOutByForce(c.user, <<>>)
  /\ calls' = calls \ {c}
  /\ UNCHANGED <<account, defaults, profiles, root, captured, fsUser, made, kills>>

\* FIRUser.deleteWithCompletion, once the server has deleted the account.
DeleteAnswered(c) ==
  /\ c.kind = "delete" /\ c.stage = "done"
  /\ SignOutByForce(c.user, <<Block("deleted", c.user)>>)
  /\ calls' = calls \ {c}
  /\ UNCHANGED <<account, defaults, profiles, root, captured, fsUser, made, kills>>

\* A token refresh of the current user is refused: its account is gone.
TokenRefused ==
  /\ currentUser # NoUser
  /\ account[currentUser.uid] = "deleted"
  /\ SignOutByForce(currentUser, <<>>)
  /\ UNCHANGED <<account, defaults, profiles, root, captured, fsUser, calls,
                 made, kills>>

-----------------------------------------------------------------------------
(* The main thread: the block at the head of its queue.                     *)

Runs(k) == mainQ # <<>> /\ Head(mainQ).kind = k

\* Mutant of RunAuthState: a notification without a uid is taken for another
\* app's.
RunAuthStateOfSomebody ==
  /\ Runs("authState")
  /\ fsUser' = IF Head(mainQ).user = NoUser THEN fsUser ELSE Head(mainQ).user.uid
  /\ mainQ' = Tail(mainQ)
  /\ UNCHANGED <<stored, root, captured, currentUser, calls, made, kills>>

\* FIRAuthStateDidChangeInternalNotification reaches the credentials provider.
RunAuthState ==
  /\ Runs("authState")
  /\ fsUser' = Head(mainQ).user.uid
  /\ mainQ' = Tail(mainQ)
  /\ UNCHANGED <<stored, root, captured, currentUser, calls, made, kills>>

\* Mutant of EnterMain: tabs already on the screen are not replaced.
EnterMainOnce ==
  /\ defaults' = currentUser.uid
  /\ root' = "main"
  /\ captured' = IF root = "main" THEN captured ELSE currentUser
  /\ mainQ' = Tail(mainQ)
  /\ UNCHANGED <<account, keychain, currentUser, fsUser, calls, made, kills>>

\* The success branches of loginTapped and registerTapped: both read
\* currentUser again, and the new tab bar's controllers read it once more.
EnterMain ==
  /\ defaults' = currentUser.uid
  /\ root' = "main"
  /\ captured' = currentUser
  /\ mainQ' = Tail(mainQ)
  /\ UNCHANGED <<account, keychain, currentUser, fsUser, calls, made, kills>>

RunSignedIn ==
  /\ Runs("signedIn")
  /\ EnterMain
  /\ UNCHANGED profiles

\* Mutant of RunSignedUp: the document takes its uid from currentUser, as the
\* login flag does.
RunSignedUpReadingCurrent ==
  /\ Runs("signedUp")
  /\ profiles' = profiles \cup {[uid |-> currentUser.uid, writer |-> fsUser]}
  /\ EnterMain

RunSignedUp ==
  /\ Runs("signedUp")
  /\ profiles' = profiles \cup {[uid |-> Head(mainQ).user.uid, writer |-> fsUser]}
  /\ EnterMain

\* The completion of reauthenticate in confirmPasswords. Two updates of one
\* object in flight are one record: the second to be handled changes nothing.
RunReauthenticated ==
  /\ Runs("reauthenticated")
  /\ calls' = calls \cup {[kind |-> "update", user |-> Head(mainQ).user,
                           id |-> Head(mainQ).user.id, stage |-> "sent"]}
  /\ SignOut(Tail(mainQ))
  /\ GoToLogin
  /\ UNCHANGED <<account, profiles, fsUser, made, kills>>

\* The completion of user?.delete in deleteUserTapped.
RunDeleted ==
  /\ Runs("deleted")
  /\ GoToLogin
  /\ mainQ' = Tail(mainQ)
  /\ UNCHANGED <<account, keychain, profiles, currentUser, fsUser, calls, made,
                 kills>>

-----------------------------------------------------------------------------
(* The process.                                                             *)

\* The process dies. A request the server has not executed is lost with it.
Kill ==
  /\ root # "dead"
  /\ kills < MaxKills
  /\ kills' = kills + 1
  /\ root' = "dead"
  /\ captured' = NoUser /\ currentUser' = NoUser /\ fsUser' = NoUid
  /\ mainQ' = <<>> /\ calls' = {}
  /\ UNCHANGED <<stored, made>>

\* FIRAuth's initialisation and SceneDelegate.scene(_:willConnectTo:). The
\* credentials provider may be created before or after the keychain is loaded.
Launch ==
  /\ root = "dead"
  /\ currentUser' = [uid |-> keychain, id |-> 0]
  /\ fsUser' \in {NoUid, keychain}
  /\ mainQ' = IF keychain = NoUid THEN <<>>
                                  ELSE <<Block("authState", currentUser')>>
  /\ \/ /\ defaults # NoUid
        /\ root' = "main"
        /\ captured' = currentUser'
     \/ /\ defaults = NoUid
        /\ root' = "login"
        /\ captured' = NoUser
  /\ UNCHANGED <<stored, calls, made, kills>>

-----------------------------------------------------------------------------
Tap ==
  \/ \E u \in Uids : TapLogin(u) \/ TapRegister(u)
  \/ TapLogout \/ TapConfirmPassword \/ TapDeleteUser

WorkQueue(c) ==
  \/ SignInAnswered(c) \/ ReauthMatched(c) \/ ReauthAnswered(c)
  \/ UpdateAnswered(c) \/ UpdateRefused(c) \/ DeleteAnswered(c)

MainQueue ==
  \/ RunAuthState \/ RunSignedIn \/ RunSignedUp \/ RunReauthenticated
  \/ RunDeleted

Next ==
  \/ Tap
  \/ \E c \in calls : ServerExecutes(c) \/ CallFails(c) \/ WorkQueue(c)
  \/ TokenRefused
  \/ MainQueue
  \/ Kill
  \/ Launch

Spec == Init /\ [][Next]_vars

\* GCD runs the blocks dispatched to the main queue as long as the process
\* lives; nothing makes a person tap or relaunch, or a server answer.
FairSpec == Spec /\ WF_vars(MainQueue)

-----------------------------------------------------------------------------
(* Properties.                                                              *)

\* Positions in the main queue of the notifications of FirebaseAuth.
Notes == {i \in 1..Len(mainQ) : mainQ[i].kind = "authState"}

\* FIRAuth.m:1728-1755, firebase_credentials_provider_apple.mm:37-65. While
\* the process lives, the newest notification in the main queue, or with none
\* the one last delivered, names the current user: once the queue has drained
\* Firestore can never be left writing as somebody who is not signed in.
FirestoreWillFollow ==
  /\ \A i \in Notes : (\A j \in Notes : j <= i) => mainQ[i].user.uid = currentUser.uid
  /\ (Notes = {}) => fsUser = currentUser.uid

\* SignUpViewController.swift:113-121. The "users" document of a new account is
\* written while Firestore acts as that account, however the sign-up races
\* other sign-ins and sign-outs.
ProfilesWrittenAsOwner == \A d \in profiles : d.writer = d.uid

\* LoginViewController.swift:62-72, ProfileViewController.swift:19-20. When the
\* tabs on the screen hold another user object than the one signed in, the
\* completion that replaces them is already in the main queue.
TabsFollowAuth ==
  (root = "main" /\ currentUser # NoUser /\ captured # currentUser) =>
    \E i \in 1..Len(mainQ) : mainQ[i].kind \in {"signedIn", "signedUp"}

\* FIRAuth.m:1376-1381. The tabs lose their signed-in user behind their back
\* only when the server has deleted that user's account: an answer of a call
\* made by an earlier user object ends nobody else's session.
NoStrangerSignsOut ==
  [][(root = "main" /\ root' = "main" /\ currentUser # NoUser
      /\ currentUser' = NoUser) => account[currentUser.uid] = "deleted"]_vars

\* PasswordViewController.swift:71-75, ProfileViewController.swift:93-97,
\* 204-205. With nobody signed in, the login flag that survives the process is
\* still set only after an account was deleted.
FlagOutlivesOnlyDeletion ==
  (root # "dead" /\ defaults # NoUid /\ currentUser = NoUser) =>
    \E u \in Uids : account[u] = "deleted"

\* firestore_credentials: whenever Firestore acts as another user than the one
\* signed in, it is brought back, by the main queue alone.
FirestoreConverges == (fsUser # currentUser.uid) ~> (fsUser = currentUser.uid)

\* Tabs that hold another user than the one signed in are replaced.
TabsConverge ==
  (root = "main" /\ currentUser # NoUser /\ captured # currentUser)
    ~> (root # "main" \/ captured = currentUser \/ currentUser = NoUser)

\* SavedTabViewController.swift:74 and the other uid! of the tabs assert that
\* somebody is signed in when the tabs are put on the screen.
TabsStartSignedIn ==
  [][(root # "main" /\ root' = "main") => captured' # NoUser]_vars
=============================================================================
