---------------------------- MODULE SessionProofs ----------------------------
(* Theorems about Session, for every set of accounts and every bound.       *)
EXTENDS Session, TLAPS

\* A user object or none has a uid or none.
LEMMA UidOfUser ==
  ASSUME NEW u \in Users \cup {NoUser}
  PROVE  u.uid \in Uids \cup {NoUid}
  BY DEF Users, NoUser

\* What the work queue may dispatch to the main queue keeps its type.
LEMMA DispatchTypes ==
  ASSUME TypeOK,
         NEW u \in Users,
         NEW k \in {"signedIn", "signedUp", "reauthenticated", "deleted"}
  PROVE  /\ Append(mainQ, Block("authState", NoUser)) \in Seq(Blocks)
         /\ Append(mainQ, Block("authState", NoUser)) \o <<>> \in Seq(Blocks)
         /\ Append(mainQ, Block("authState", u)) \o <<>> \in Seq(Blocks)
         /\ mainQ \o <<>> \in Seq(Blocks)
         /\ mainQ \o <<Block(k, u)>> \in Seq(Blocks)
         /\ Append(mainQ, Block("authState", u)) \o <<Block(k, u)>> \in Seq(Blocks)
         /\ Append(mainQ, Block("authState", NoUser)) \o <<Block(k, u)>> \in Seq(Blocks)
  <1>1. Block(k, u) \in Blocks /\ Block("authState", u) \in Blocks
        /\ Block("authState", NoUser) \in Blocks
    BY DEF Block, Blocks
  <1>2. mainQ \in Seq(Blocks)
    BY DEF TypeOK
  <1>3. \A q \in Seq(Blocks), r \in Seq(Blocks) : q \o r \in Seq(Blocks)
    OBVIOUS
  <1>4. <<>> \in Seq(Blocks) /\ <<Block(k, u)>> \in Seq(Blocks)
    BY <1>1
  <1>5. \A x \in Blocks : Append(mainQ, x) \in Seq(Blocks)
    BY <1>2
  <1> QED
    BY <1>1, <1>2, <1>3, <1>4, <1>5

\* The steps of FirebaseAuth's work queue keep the types.
LEMMA WorkQueueTypes ==
  ASSUME TypeOK, NEW c \in calls, WorkQueue(c)
  PROVE  TypeOK'
  <1> USE DEF TypeOK
  <1>0. c \in Calls /\ c.user \in Users /\ c.user.uid \in Uids
    BY DEF Calls, Users
  <1>1. CASE SignInAnswered(c)
    BY <1>0, <1>1, DispatchTypes DEF SignInAnswered, SetCurrentUser
  <1>2. CASE ReauthMatched(c)
    BY <1>0, <1>2 DEF ReauthMatched, Advance, Calls, stored
  <1>3. CASE ReauthAnswered(c)
    BY <1>0, <1>3, DispatchTypes DEF ReauthAnswered, TokenInstalled
  <1>4. CASE UpdateAnswered(c)
    BY <1>0, <1>4, DispatchTypes DEF UpdateAnswered, TokenInstalled
  <1>5. CASE UpdateRefused(c)
    BY <1>0, <1>5, DispatchTypes DEF UpdateRefused, SignOutByForce
  <1>6. CASE DeleteAnswered(c)
    BY <1>0, <1>6, DispatchTypes DEF DeleteAnswered, SignOutByForce
  <1> QED
    BY <1>1, <1>2, <1>3, <1>4, <1>5, <1>6 DEF WorkQueue

\* So do the taps.
LEMMA TapTypes ==
  ASSUME TypeOK, Tap
  PROVE  TypeOK'
  <1> USE BoundAssumption DEF TypeOK
  <1>1. ASSUME NEW k \in CallKinds, NEW u \in Users, made < MaxCalls
        PROVE  CallOf(k, u) \in Calls /\ made + 1 \in 0..MaxCalls
    BY <1>1 DEF CallOf, Calls
  <1>2. ASSUME NEW u \in Uids, TapLogin(u) \/ TapRegister(u)
        PROVE  TypeOK'
    <2>1. made < MaxCalls
      BY <1>2 DEF TapLogin, TapRegister, Send
    <2>2. [uid |-> u, id |-> made + 1] \in Users
      BY <2>1 DEF Users
    <2> QED
      BY <1>1, <1>2, <2>1, <2>2
      DEF TapLogin, TapRegister, Send, CallKinds, stored
  <1>3. CASE TapLogout
    <2>1. Append(mainQ, Block("authState", NoUser)) \in Seq(Blocks)
      BY DEF Blocks, Block
    <2> QED
      BY <1>3, <2>1 DEF TapLogout, SignOut, GoToLogin
  <1>4. CASE TapConfirmPassword
    BY <1>1, <1>4 DEF TapConfirmPassword, Send, CallKinds, stored
  <1>5. CASE TapDeleteUser
    BY <1>1, <1>5 DEF TapDeleteUser, Send, CallKinds, stored
  <1> QED
    BY <1>2, <1>3, <1>4, <1>5 DEF Tap

\* And the blocks of the main queue.
LEMMA MainQueueTypes ==
  ASSUME TypeOK, MainQueue
  PROVE  TypeOK'
  <1> USE DEF TypeOK
  <1>1. mainQ # <<>>
    BY DEF MainQueue, RunAuthState, RunSignedIn, RunSignedUp,
           RunReauthenticated, RunDeleted, Runs
  <1>2. Head(mainQ) \in Blocks /\ Tail(mainQ) \in Seq(Blocks)
    BY <1>1
  <1>3. Head(mainQ).user \in Users \cup {NoUser}
    BY <1>2 DEF Blocks
  <1>4. Head(mainQ).kind # "authState" => Head(mainQ).user \in Users
    BY <1>2 DEF Blocks
  <1>5. CASE RunAuthState
    BY <1>2, <1>3, <1>5, UidOfUser DEF RunAuthState, stored
  <1>6. CASE RunSignedIn
    BY <1>2, <1>6, UidOfUser DEF RunSignedIn, EnterMain
  <1>7. CASE RunSignedUp
    <2>1. Head(mainQ).user.uid \in Uids
      BY <1>4, <1>7 DEF RunSignedUp, Runs, Users
    <2> QED
      BY <1>2, <1>7, <2>1, UidOfUser DEF RunSignedUp, EnterMain
  <1>8. CASE RunReauthenticated
    <2>1. Head(mainQ).user \in Users
      BY <1>4, <1>8 DEF RunReauthenticated, Runs
    <2>2. [kind |-> "update", user |-> Head(mainQ).user,
           id |-> Head(mainQ).user.id, stage |-> "sent"] \in Calls
      BY <2>1 DEF Calls, CallKinds, Users
    <2>3. Append(Tail(mainQ), Block("authState", NoUser)) \in Seq(Blocks)
      BY <1>2 DEF Blocks, Block
    <2> QED
      BY <1>2, <1>8, <2>2, <2>3 DEF RunReauthenticated, SignOut, GoToLogin
  <1>9. CASE RunDeleted
    BY <1>2, <1>9 DEF RunDeleted, GoToLogin
  <1> QED
    BY <1>5, <1>6, <1>7, <1>8, <1>9 DEF MainQueue

\* Every variable keeps its type: Session.tla's state is well formed in every
\* behaviour.
THEOREM Types == Spec => []TypeOK
  <1>1. Init => TypeOK
    BY BoundAssumption DEF Init, TypeOK, Users, NoUser
  <1>2. TypeOK /\ [Next]_vars => TypeOK'
    <2> SUFFICES ASSUME TypeOK, [Next]_vars PROVE TypeOK'
      OBVIOUS
    <2>1. CASE Tap
      BY <2>1, TapTypes
    <2>2. ASSUME NEW c \in calls, ServerExecutes(c)
          PROVE  TypeOK'
      BY <2>2 DEF ServerExecutes, Advance, TypeOK, Calls
    <2>3. ASSUME NEW c \in calls, CallFails(c)
          PROVE  TypeOK'
      BY <2>3 DEF CallFails, stored, TypeOK
    <2>4. ASSUME NEW c \in calls, WorkQueue(c)
          PROVE  TypeOK'
      BY <2>4, WorkQueueTypes
    <2>5. CASE TokenRefused
      <3>1. Append(mainQ, Block("authState", NoUser)) \in Seq(Blocks)
        BY DEF TypeOK, Blocks, Block
      <3>2. \A q \in Seq(Blocks) : q \o <<>> = q
        OBVIOUS
      <3> QED
        BY <2>5, <3>1, <3>2 DEF TokenRefused, SignOutByForce, TypeOK
    <2>6. CASE MainQueue
      BY <2>6, MainQueueTypes
    <2>7. CASE Kill
      BY <2>7, BoundAssumption DEF Kill, stored, TypeOK
    <2>8. CASE Launch
      <3>1. [uid |-> keychain, id |-> 0] \in Users \cup {NoUser}
        BY BoundAssumption DEF TypeOK, Users, NoUser
      <3>2. <<Block("authState", [uid |-> keychain, id |-> 0])>> \in Seq(Blocks)
        BY <3>1 DEF Blocks, Block
      <3> QED
        BY <2>8, <3>1, <3>2 DEF Launch, stored, TypeOK
    <2>9. CASE UNCHANGED vars
      BY <2>9 DEF vars, TypeOK
    <2> QED
      BY <2>1, <2>2, <2>3, <2>4, <2>5, <2>6, <2>7, <2>8, <2>9 DEF Next
  <1> QED
    BY <1>1, <1>2, PTL DEF Spec

-----------------------------------------------------------------------------
(* Firestore's user follows FirebaseAuth's.                                 *)

\* FirestoreWillFollow of any queue, Firestore user and signed-in uid.
Follows(q, fs, uid) ==
  /\ \A i \in 1..Len(q) :
       (/\ q[i].kind = "authState"
        /\ \A j \in 1..Len(q) : q[j].kind = "authState" => j <= i)
       => q[i].user.uid = uid
  /\ (\A i \in 1..Len(q) : q[i].kind # "authState") => fs = uid

\* Every "signedUp" block is right behind the notification of its own sign-in,
\* or that notification was the last one Firestore received.
Owned(q, fs) ==
  \A i \in 1..Len(q) : q[i].kind = "signedUp" =>
    IF i = 1 THEN fs = q[1].user.uid
             ELSE q[i-1].kind = "authState" /\ q[i-1].user = q[i].user

LEMMA AppendSplit ==
  ASSUME NEW q \in Seq(Blocks), NEW b \in Blocks
  PROVE  q \o <<b>> = Append(q, b) /\ q \o <<>> = q
         /\ Append(q, b) \in Seq(Blocks)
  OBVIOUS

\* A notification at the end of the queue settles what Firestore will be told.
LEMMA AppendNote ==
  ASSUME NEW q \in Seq(Blocks), NEW u \in Users \cup {NoUser}, NEW fs
  PROVE  /\ Follows(Append(q, Block("authState", u)), fs, u.uid)
         /\ Owned(q, fs) => Owned(Append(q, Block("authState", u)), fs)
  BY DEF Follows, Owned, Block, Blocks

\* Completions other than sign-up's leave both facts alone.
LEMMA AppendCompletion ==
  ASSUME NEW q \in Seq(Blocks), NEW b \in Blocks, b.kind # "authState",
         NEW fs, NEW uid
  PROVE  /\ Follows(q, fs, uid) => Follows(Append(q, b), fs, uid)
         /\ Owned(q, fs) /\ b.kind # "signedUp" => Owned(Append(q, b), fs)
  BY DEF Follows, Owned, Blocks

\* A sign-in's notification and completion, appended together.
LEMMA AppendSignIn ==
  ASSUME NEW q \in Seq(Blocks), NEW u \in Users,
         NEW k \in {"signedIn", "signedUp"}, NEW fs, Owned(q, fs)
  PROVE  /\ Follows(Append(Append(q, Block("authState", u)), Block(k, u)), fs, u.uid)
         /\ Owned(Append(Append(q, Block("authState", u)), Block(k, u)), fs)
  <1> DEFINE r == Append(q, Block("authState", u))
  <1>1. r \in Seq(Blocks) /\ Block(k, u) \in Blocks
        /\ Block(k, u).kind # "authState" /\ Block(k, u).user = u
    BY DEF Block, Blocks
  <1>2. Follows(r, fs, u.uid) /\ Owned(r, fs)
    BY AppendNote
  <1>3. Follows(Append(r, Block(k, u)), fs, u.uid)
    BY <1>1, <1>2, AppendCompletion
  <1>4. /\ Len(r) = Len(q) + 1 /\ Len(r) \in Nat
        /\ r[Len(r)].kind = "authState" /\ r[Len(r)].user = u
    BY DEF Block, Blocks
  <1>5. Owned(Append(r, Block(k, u)), fs)
    BY <1>1, <1>2, <1>4 DEF Owned
  <1> QED
    BY <1>3, <1>5

\* Running the notification at the head delivers it.
LEMMA TailNote ==
  ASSUME NEW q \in Seq(Blocks), q # <<>>, Head(q).kind = "authState",
         NEW fs, NEW uid, Follows(q, fs, uid), Owned(q, fs)
  PROVE  /\ Follows(Tail(q), Head(q).user.uid, uid)
         /\ Owned(Tail(q), Head(q).user.uid)
  <1>1. /\ Tail(q) \in Seq(Blocks) /\ Len(Tail(q)) = Len(q) - 1
        /\ Len(q) \in Nat \ {0} /\ Head(q) = q[1]
        /\ \A i \in 1..Len(Tail(q)) : Tail(q)[i] = q[i + 1]
    OBVIOUS
  <1>2. Owned(Tail(q), Head(q).user.uid)
    BY <1>1 DEF Owned
  <1>3. Follows(Tail(q), Head(q).user.uid, uid)
    <2>1. ASSUME NEW i \in 1..Len(Tail(q)), Tail(q)[i].kind = "authState",
                 \A j \in 1..Len(Tail(q)) : Tail(q)[j].kind = "authState" => j <= i
          PROVE  Tail(q)[i].user.uid = uid
      <3>1. ASSUME NEW j \in 1..Len(q), q[j].kind = "authState"
            PROVE  j <= i + 1
        <4>1. CASE j = 1
          BY <4>1, <1>1
        <4>2. CASE j # 1
          <5>1. j - 1 \in 1..Len(Tail(q)) /\ Tail(q)[j - 1] = q[j]
            BY <4>2, <1>1
          <5> QED
            BY <5>1, <3>1, <2>1, <1>1
        <4> QED
          BY <4>1, <4>2
      <3> QED
        BY <1>1, <2>1, <3>1 DEF Follows
    <2>2. ASSUME \A i \in 1..Len(Tail(q)) : Tail(q)[i].kind # "authState"
          PROVE  Head(q).user.uid = uid
      <3>1. ASSUME NEW j \in 1..Len(q), q[j].kind = "authState"
            PROVE  j <= 1
        <4>1. CASE j # 1
          BY <4>1, <1>1, <2>2, <3>1, j - 1 \in 1..Len(Tail(q))
        <4> QED
          BY <4>1
      <3> QED
        BY <1>1, <3>1 DEF Follows
    <2> QED
      BY <2>1, <2>2 DEF Follows
  <1> QED
    BY <1>2, <1>3

\* Running a completion changes nothing Firestore has been or will be told.
LEMMA TailCompletion ==
  ASSUME NEW q \in Seq(Blocks), q # <<>>, Head(q).kind # "authState",
         NEW fs, NEW uid, Follows(q, fs, uid), Owned(q, fs)
  PROVE  Follows(Tail(q), fs, uid) /\ Owned(Tail(q), fs)
  <1>1. /\ Tail(q) \in Seq(Blocks) /\ Len(Tail(q)) = Len(q) - 1
        /\ Len(q) \in Nat \ {0} /\ Head(q) = q[1]
        /\ \A i \in 1..Len(Tail(q)) : Tail(q)[i] = q[i + 1]
    OBVIOUS
  <1>2. Owned(Tail(q), fs)
    BY <1>1 DEF Owned
  <1>3. Follows(Tail(q), fs, uid)
    <2>1. ASSUME NEW i \in 1..Len(Tail(q)), Tail(q)[i].kind = "authState",
                 \A j \in 1..Len(Tail(q)) : Tail(q)[j].kind = "authState" => j <= i
          PROVE  Tail(q)[i].user.uid = uid
      <3>1. ASSUME NEW j \in 1..Len(q), q[j].kind = "authState"
            PROVE  j <= i + 1
        <4>1. j # 1
          BY <3>1, <1>1
        <4>2. j - 1 \in 1..Len(Tail(q)) /\ Tail(q)[j - 1] = q[j]
          BY <4>1, <1>1
        <4>3. j - 1 <= i
          BY <4>2, <3>1, <2>1
        <4> QED
          BY <4>3, <1>1
      <3> QED
        BY <1>1, <2>1, <3>1 DEF Follows
    <2>2. ASSUME \A i \in 1..Len(Tail(q)) : Tail(q)[i].kind # "authState"
          PROVE  fs = uid
      <3>1. ASSUME NEW j \in 1..Len(q)
            PROVE  q[j].kind # "authState"
        <4>1. CASE j = 1
          BY <4>1, <1>1
        <4>2. CASE j # 1
          <5>1. j - 1 \in 1..Len(Tail(q)) /\ Tail(q)[j - 1] = q[j]
            BY <4>2, <1>1
          <5> QED
            BY <5>1, <2>2
        <4> QED
          BY <4>1, <4>2
      <3> QED
        BY <3>1 DEF Follows
    <2> QED
      BY <2>1, <2>2 DEF Follows
  <1> QED
    BY <1>2, <1>3

\* The inductive invariant behind FirestoreWillFollow and
\* ProfilesWrittenAsOwner: the second needs to know what is ahead of every
\* sign-up completion still in the queue.
QueueInv ==
  /\ Follows(mainQ, fsUser, currentUser.uid)
  /\ Owned(mainQ, fsUser)
  /\ ProfilesWrittenAsOwner

\* A sign-out from the main thread, on any queue that satisfies the facts.
LEMMA SignOutFollows ==
  ASSUME NEW q \in Seq(Blocks), SignOut(q),
         Follows(q, fsUser, currentUser.uid), Owned(q, fsUser)
  PROVE  Follows(mainQ', fsUser, currentUser'.uid) /\ Owned(mainQ', fsUser)
  <1>1. /\ Follows(Append(q, Block("authState", NoUser)), fsUser, NoUser.uid)
        /\ Owned(Append(q, Block("authState", NoUser)), fsUser)
    BY AppendNote
  <1> QED
    BY <1>1 DEF SignOut

\* A forced sign-out, with or without the completion of a delete.
LEMMA ForcedSignOutFollows ==
  ASSUME TypeOK, QueueInv, NEW u \in Users, NEW v \in Users,
         \/ SignOutByForce(u, <<>>)
         \/ SignOutByForce(u, <<Block("deleted", v)>>)
  PROVE  Follows(mainQ', fsUser, currentUser'.uid) /\ Owned(mainQ', fsUser)
  <1> DEFINE n == Block("authState", NoUser)
             b == Block("deleted", v)
  <1>1. mainQ \in Seq(Blocks) /\ b \in Blocks /\ n \in Blocks
        /\ b.kind = "deleted"
    BY DEF TypeOK, Block, Blocks
  <1>2. Follows(Append(mainQ, n), fsUser, NoUser.uid) /\ Owned(Append(mainQ, n), fsUser)
    BY <1>1, AppendNote DEF QueueInv
  <1>3. /\ Follows(Append(Append(mainQ, n), b), fsUser, NoUser.uid)
        /\ Owned(Append(Append(mainQ, n), b), fsUser)
    BY <1>1, <1>2, AppendCompletion, AppendSplit
  <1>4. /\ Follows(Append(mainQ, b), fsUser, currentUser.uid)
        /\ Owned(Append(mainQ, b), fsUser)
    BY <1>1, AppendCompletion DEF QueueInv
  <1>5. mainQ' \in {mainQ, Append(mainQ, n), Append(mainQ, b), Append(Append(mainQ, n), b)}
    BY <1>1, AppendSplit DEF SignOutByForce
  <1>6. currentUser' \in {currentUser, NoUser}
    BY DEF SignOutByForce
  <1>7. CASE currentUser # u
    <2>1. currentUser' = currentUser /\ mainQ' \in {mainQ, Append(mainQ, b)}
      BY <1>1, <1>7, AppendSplit DEF SignOutByForce
    <2> QED
      BY <2>1, <1>4 DEF QueueInv
  <1>8. CASE currentUser = u
    <2>1. /\ currentUser' = NoUser
          /\ mainQ' \in {Append(mainQ, n), Append(Append(mainQ, n), b)}
      BY <1>1, <1>8, AppendSplit DEF SignOutByForce
    <2> QED
      BY <2>1, <1>2, <1>3
  <1> QED
    BY <1>7, <1>8

\* A token installed by a reauthentication or an update.
LEMMA TokenInstalledFollows ==
  ASSUME TypeOK, QueueInv, NEW c \in calls,
         \/ TokenInstalled(c, <<>>)
         \/ TokenInstalled(c, <<Block("reauthenticated", c.user)>>)
  PROVE  QueueInv'
  <1> DEFINE n == Block("authState", c.user)
             b == Block("reauthenticated", c.user)
  <1>1. mainQ \in Seq(Blocks) /\ b \in Blocks /\ n \in Blocks
        /\ b.kind = "reauthenticated" /\ c.user \in Users
    BY DEF TypeOK, Block, Blocks, Calls
  <1>2. Follows(Append(mainQ, n), fsUser, c.user.uid) /\ Owned(Append(mainQ, n), fsUser)
    BY <1>1, AppendNote DEF QueueInv
  <1>3. /\ Follows(Append(Append(mainQ, n), b), fsUser, c.user.uid)
        /\ Owned(Append(Append(mainQ, n), b), fsUser)
    BY <1>1, <1>2, AppendCompletion, AppendSplit
  <1>4. /\ Follows(Append(mainQ, b), fsUser, currentUser.uid)
        /\ Owned(Append(mainQ, b), fsUser)
    BY <1>1, AppendCompletion DEF QueueInv
  <1>5. currentUser' = currentUser /\ fsUser' = fsUser /\ profiles' = profiles
    BY DEF TokenInstalled
  <1>6. CASE c.user = currentUser
    <2>1. mainQ' \in {Append(mainQ, n), Append(Append(mainQ, n), b)}
      BY <1>1, <1>6, AppendSplit DEF TokenInstalled
    <2> QED
      BY <2>1, <1>2, <1>3, <1>5, <1>6 DEF QueueInv, ProfilesWrittenAsOwner
  <1>7. CASE c.user # currentUser
    <2>1. mainQ' \in {mainQ, Append(mainQ, b)}
      BY <1>1, <1>7, AppendSplit DEF TokenInstalled
    <2> QED
      BY <2>1, <1>4, <1>5 DEF QueueInv, ProfilesWrittenAsOwner
  <1> QED
    BY <1>6, <1>7

LEMMA WorkQueueFollows ==
  ASSUME TypeOK, QueueInv, NEW c \in calls, WorkQueue(c)
  PROVE  QueueInv'
  <1>0. c.user \in Users /\ mainQ \in Seq(Blocks)
    BY DEF TypeOK, Calls
  <1>1. CASE SignInAnswered(c)
    <2>1. ASSUME NEW k \in {"signedIn", "signedUp"},
                 SetCurrentUser(c.user, <<Block(k, c.user)>>)
          PROVE  QueueInv'
      <3>1. Append(mainQ, Block("authState", c.user)) \in Seq(Blocks)
            /\ Block(k, c.user) \in Blocks
        BY <1>0 DEF Block, Blocks
      <3>2. mainQ' = Append(Append(mainQ, Block("authState", c.user)), Block(k, c.user))
            /\ currentUser' = c.user
        BY <2>1, <3>1, AppendSplit DEF SetCurrentUser
      <3>3. fsUser' = fsUser /\ profiles' = profiles
        BY <1>1 DEF SignInAnswered
      <3> QED
        BY <1>0, <3>2, <3>3, AppendSignIn DEF QueueInv, ProfilesWrittenAsOwner
    <2> QED
      BY <1>1, <2>1 DEF SignInAnswered
  <1>2. CASE ReauthMatched(c)
    BY <1>2 DEF ReauthMatched, stored, QueueInv, ProfilesWrittenAsOwner
  <1>3. CASE ReauthAnswered(c)
    BY <1>3, TokenInstalledFollows DEF ReauthAnswered
  <1>4. CASE UpdateAnswered(c)
    BY <1>4, TokenInstalledFollows DEF UpdateAnswered
  <1>5. CASE UpdateRefused(c)
    BY <1>0, <1>5, ForcedSignOutFollows
    DEF UpdateRefused, QueueInv, ProfilesWrittenAsOwner
  <1>6. CASE DeleteAnswered(c)
    BY <1>0, <1>6, ForcedSignOutFollows
    DEF DeleteAnswered, QueueInv, ProfilesWrittenAsOwner
  <1> QED
    BY <1>1, <1>2, <1>3, <1>4, <1>5, <1>6 DEF WorkQueue

LEMMA MainQueueFollows ==
  ASSUME TypeOK, QueueInv, MainQueue
  PROVE  QueueInv'
  <1>0. mainQ \in Seq(Blocks) /\ mainQ # <<>> /\ Tail(mainQ) \in Seq(Blocks)
    BY DEF TypeOK, MainQueue, RunAuthState, RunSignedIn, RunSignedUp,
           RunReauthenticated, RunDeleted, Runs
  <1>1. CASE RunAuthState
    <2>1. /\ fsUser' = Head(mainQ).user.uid /\ mainQ' = Tail(mainQ)
          /\ currentUser' = currentUser /\ profiles' = profiles
          /\ Head(mainQ).kind = "authState"
      BY <1>1 DEF RunAuthState, Runs, stored
    <2> QED
      BY <1>0, <2>1, TailNote DEF QueueInv, ProfilesWrittenAsOwner
  <1>2. ASSUME Head(mainQ).kind # "authState"
        PROVE  /\ Follows(Tail(mainQ), fsUser, currentUser.uid)
               /\ Owned(Tail(mainQ), fsUser)
    BY <1>0, <1>2, TailCompletion DEF QueueInv
  <1>3. CASE RunSignedIn
    BY <1>2, <1>3 DEF RunSignedIn, EnterMain, Runs, QueueInv, ProfilesWrittenAsOwner
  <1>4. CASE RunSignedUp
    <2>1. Head(mainQ).kind = "signedUp" /\ Head(mainQ) = mainQ[1]
          /\ 1 \in 1..Len(mainQ)
      BY <1>0, <1>4 DEF RunSignedUp, Runs
    <2>2. fsUser = Head(mainQ).user.uid
      BY <2>1 DEF QueueInv, Owned
    <2> QED
      BY <1>2, <1>4, <2>1, <2>2
      DEF RunSignedUp, EnterMain, QueueInv, ProfilesWrittenAsOwner
  <1>5. CASE RunReauthenticated
    <2>1. /\ SignOut(Tail(mainQ)) /\ fsUser' = fsUser /\ profiles' = profiles
          /\ Head(mainQ).kind # "authState"
      BY <1>5 DEF RunReauthenticated, Runs
    <2> QED
      BY <1>0, <1>2, <2>1, SignOutFollows DEF QueueInv, ProfilesWrittenAsOwner
  <1>6. CASE RunDeleted
    BY <1>2, <1>6 DEF RunDeleted, Runs, QueueInv, ProfilesWrittenAsOwner
  <1> QED
    BY <1>1, <1>3, <1>4, <1>5, <1>6 DEF MainQueue

LEMMA QueueInvStep ==
  ASSUME TypeOK, QueueInv, [Next]_vars
  PROVE  QueueInv'
  <1> DEFINE Same == UNCHANGED <<mainQ, fsUser, currentUser, profiles>>
  <1>1. ASSUME Same PROVE QueueInv'
    BY <1>1 DEF QueueInv, ProfilesWrittenAsOwner
  <1>2. CASE Tap
    <2>1. CASE TapLogout
      BY <2>1, SignOutFollows
      DEF TapLogout, GoToLogin, QueueInv, ProfilesWrittenAsOwner, TypeOK
    <2>2. ASSUME NEW u \in Uids, TapLogin(u) \/ TapRegister(u)
          PROVE  QueueInv'
      BY <2>2, <1>1 DEF TapLogin, TapRegister, stored
    <2>3. CASE TapConfirmPassword \/ TapDeleteUser
      BY <2>3, <1>1 DEF TapConfirmPassword, TapDeleteUser, stored
    <2> QED
      BY <1>2, <2>1, <2>2, <2>3 DEF Tap
  <1>3. ASSUME NEW c \in calls, ServerExecutes(c) \/ CallFails(c)
        PROVE  QueueInv'
    BY <1>3, <1>1 DEF ServerExecutes, CallFails, stored
  <1>4. ASSUME NEW c \in calls, WorkQueue(c)
        PROVE  QueueInv'
    BY <1>4, WorkQueueFollows
  <1>5. CASE TokenRefused
    <2>1. currentUser \in Users
      BY <1>5 DEF TokenRefused, TypeOK
    <2> QED
      BY <1>5, <2>1, ForcedSignOutFollows
      DEF TokenRefused, QueueInv, ProfilesWrittenAsOwner
  <1>6. CASE MainQueue
    BY <1>6, MainQueueFollows
  <1>7. CASE Kill
    BY <1>7 DEF Kill, stored, QueueInv, ProfilesWrittenAsOwner, Follows, Owned, NoUser
  <1>8. CASE Launch
    <2>1. profiles' = profiles /\ currentUser'.uid = keychain
      BY <1>8 DEF Launch, stored
    <2>2. CASE keychain = NoUid
      BY <1>8, <2>1, <2>2 DEF Launch, QueueInv, ProfilesWrittenAsOwner, Follows, Owned
    <2>3. CASE keychain # NoUid
      <3>1. mainQ' = <<Block("authState", currentUser')>>
        BY <1>8, <2>3 DEF Launch
      <3>2. Len(mainQ') = 1 /\ mainQ'[1].kind = "authState"
            /\ mainQ'[1].user = currentUser'
        BY <3>1 DEF Block
      <3> QED
        BY <2>1, <3>2 DEF QueueInv, ProfilesWrittenAsOwner, Follows, Owned
    <2> QED
      BY <2>2, <2>3
  <1>9. CASE UNCHANGED vars
    BY <1>9, <1>1 DEF vars
  <1> QED
    BY <1>2, <1>3, <1>4, <1>5, <1>6, <1>7, <1>8, <1>9 DEF Next

LEMMA QueueInvariant == Spec => []QueueInv
  <1>1. Init => QueueInv
    BY DEF Init, QueueInv, ProfilesWrittenAsOwner, Follows, Owned, NoUser
  <1>2. TypeOK /\ QueueInv /\ [Next]_vars => QueueInv'
    BY QueueInvStep
  <1> QED
    BY <1>1, <1>2, Types, PTL DEF Spec

\* Whatever the interleaving of taps, answers and deaths, Firestore is never
\* left acting as anybody but the signed-in user once the main queue drains.
THEOREM FirestoreFollows == Spec => []FirestoreWillFollow
  <1>1. TypeOK /\ QueueInv => FirestoreWillFollow
    <2> SUFFICES ASSUME TypeOK, QueueInv PROVE FirestoreWillFollow
      OBVIOUS
    <2>1. mainQ \in Seq(Blocks) /\ Follows(mainQ, fsUser, currentUser.uid)
      BY DEF TypeOK, QueueInv
    <2> QED
      BY <2>1 DEF Follows, FirestoreWillFollow, Notes
  <1> QED
    BY <1>1, Types, QueueInvariant, PTL

\* No sign-up ever writes its "users" document as another account.
THEOREM ProfileOwner == Spec => []ProfilesWrittenAsOwner
  BY QueueInvariant, PTL DEF QueueInv

-----------------------------------------------------------------------------
(* The tabs on the screen.                                                  *)

\* The work queue only adds to the main queue.
LEMMA WorkQueueAppends ==
  ASSUME TypeOK, NEW c \in calls, WorkQueue(c), NEW i \in 1..Len(mainQ)
  PROVE  i \in 1..Len(mainQ') /\ mainQ'[i] = mainQ[i]
  <1>0. c.user \in Users /\ mainQ \in Seq(Blocks)
    BY DEF TypeOK, Calls
  <1>1. \A q \in Seq(Blocks), b \in Blocks :
          /\ Append(q, b) \in Seq(Blocks)
          /\ \A j \in 1..Len(q) : j \in 1..Len(Append(q, b)) /\ Append(q, b)[j] = q[j]
    OBVIOUS
  <1>2. \A k \in {"signedIn", "signedUp", "reauthenticated", "deleted"} :
          Block(k, c.user) \in Blocks
    BY <1>0 DEF Block, Blocks
  <1>3. Block("authState", c.user) \in Blocks /\ Block("authState", NoUser) \in Blocks
    BY <1>0 DEF Block, Blocks
  <1>4. CASE ReauthMatched(c)
    BY <1>4 DEF ReauthMatched
  <1>5. CASE SignInAnswered(c)
    BY <1>0, <1>1, <1>2, <1>3, <1>5, AppendSplit DEF SignInAnswered, SetCurrentUser
  <1>6. CASE ReauthAnswered(c) \/ UpdateAnswered(c)
    BY <1>0, <1>1, <1>2, <1>3, <1>6, AppendSplit
    DEF ReauthAnswered, UpdateAnswered, TokenInstalled
  <1>7. CASE UpdateRefused(c) \/ DeleteAnswered(c)
    BY <1>0, <1>1, <1>2, <1>3, <1>7, AppendSplit
    DEF UpdateRefused, DeleteAnswered, SignOutByForce
  <1> QED
    BY <1>4, <1>5, <1>6, <1>7 DEF WorkQueue

LEMMA TabsStep ==
  ASSUME TypeOK, TabsFollowAuth, [Next]_vars
  PROVE  TabsFollowAuth'
  <1>1. ASSUME UNCHANGED <<root, captured, currentUser, mainQ>>
        PROVE  TabsFollowAuth'
    BY <1>1 DEF TabsFollowAuth
  <1>2. ASSUME root' # "main" \/ captured' = currentUser' \/ currentUser' = NoUser
        PROVE  TabsFollowAuth'
    BY <1>2 DEF TabsFollowAuth
  <1>3. CASE Tap
    BY <1>1, <1>2, <1>3
    DEF Tap, TapLogin, TapRegister, TapLogout, TapConfirmPassword, TapDeleteUser,
        GoToLogin, stored
  <1>4. ASSUME NEW c \in calls, ServerExecutes(c) \/ CallFails(c)
        PROVE  TabsFollowAuth'
    BY <1>1, <1>4 DEF ServerExecutes, CallFails
  <1>5. ASSUME NEW c \in calls, WorkQueue(c)
        PROVE  TabsFollowAuth'
    <2>0. c.user \in Users /\ mainQ \in Seq(Blocks)
      BY DEF TypeOK, Calls
    <2>1. CASE SignInAnswered(c)
      <3>1. ASSUME NEW k \in {"signedIn", "signedUp"},
                   SetCurrentUser(c.user, <<Block(k, c.user)>>)
            PROVE  TabsFollowAuth'
        <4>1. Append(mainQ, Block("authState", c.user)) \in Seq(Blocks)
              /\ Block(k, c.user) \in Blocks
          BY <2>0 DEF Block, Blocks
        <4>2. mainQ' = Append(Append(mainQ, Block("authState", c.user)), Block(k, c.user))
          BY <3>1, <4>1, AppendSplit DEF SetCurrentUser
        <4>3. Len(mainQ') \in 1..Len(mainQ') /\ mainQ'[Len(mainQ')].kind = k
          BY <4>1, <4>2 DEF Block
        <4> QED
          BY <4>3 DEF TabsFollowAuth
      <3> QED
        BY <2>1, <3>1 DEF SignInAnswered
    <2>2. CASE ~SignInAnswered(c)
      <3>1. /\ root' = root /\ captured' = captured
            /\ currentUser' = currentUser \/ currentUser' = NoUser
        BY <1>5, <2>2
        DEF WorkQueue, ReauthMatched, ReauthAnswered, UpdateAnswered, UpdateRefused,
            DeleteAnswered, TokenInstalled, SignOutByForce
      <3> QED
        BY <1>2, <1>5, <3>1, WorkQueueAppends DEF TabsFollowAuth
    <2> QED
      BY <2>1, <2>2
  <1>6. CASE TokenRefused
    BY <1>2, <1>6 DEF TokenRefused, SignOutByForce
  <1>7. CASE MainQueue
    <2>1. CASE RunAuthState
      <3>1. mainQ \in Seq(Blocks) /\ mainQ # <<>> /\ mainQ[1].kind = "authState"
            /\ mainQ' = Tail(mainQ)
        BY <2>1 DEF RunAuthState, Runs, TypeOK
      <3>2. UNCHANGED <<root, captured, currentUser>>
        BY <2>1 DEF RunAuthState
      <3>3. ASSUME NEW i \in 1..Len(mainQ), mainQ[i].kind \in {"signedIn", "signedUp"}
            PROVE  i - 1 \in 1..Len(mainQ') /\ mainQ'[i - 1] = mainQ[i]
        <4>1. i # 1
          BY <3>1, <3>3
        <4> QED
          BY <3>1, <4>1
      <3> QED
        BY <3>2, <3>3 DEF TabsFollowAuth
    <2>2. CASE ~RunAuthState
      BY <1>2, <1>7, <2>2
      DEF MainQueue, RunSignedIn, RunSignedUp, EnterMain, RunReauthenticated,
          RunDeleted, GoToLogin
    <2> QED
      BY <2>1, <2>2
  <1>8. CASE Kill \/ Launch
    BY <1>2, <1>8 DEF Kill, Launch
  <1>9. CASE UNCHANGED vars
    BY <1>1, <1>9 DEF vars
  <1> QED
    BY <1>3, <1>4, <1>5, <1>6, <1>7, <1>8, <1>9 DEF Next

\* Tabs that hold another identity than the signed-in one are always about to
\* be replaced.
THEOREM TabsFollow == Spec => []TabsFollowAuth
  <1>1. Init => TabsFollowAuth
    BY DEF Init, TabsFollowAuth
  <1>2. TypeOK /\ TabsFollowAuth /\ [Next]_vars => TabsFollowAuth'
    BY TabsStep
  <1> QED
    BY <1>1, <1>2, Types, PTL DEF Spec

-----------------------------------------------------------------------------
(* Sessions that end by themselves.                                         *)

\* What the work queue is told of an account is so, and stays so.
AnswersAreTrue ==
  \A c \in calls :
    \/ c.kind = "delete" /\ c.stage = "done"
    \/ c.stage = "refused"
    => account[c.user.uid] = "deleted"

LEMMA AnswersStep ==
  ASSUME TypeOK, AnswersAreTrue, [Next]_vars
  PROVE  AnswersAreTrue'
  <1>1. ASSUME calls' \subseteq calls, account' = account
        PROVE  AnswersAreTrue'
    BY <1>1 DEF AnswersAreTrue
  <1>2. ASSUME NEW c, calls' = calls \cup {c}, c.stage = "sent", account' = account
        PROVE  AnswersAreTrue'
    BY <1>2 DEF AnswersAreTrue
  <1>3. CASE Tap
    BY <1>1, <1>2, <1>3
    DEF Tap, TapLogin, TapRegister, TapLogout, TapConfirmPassword, TapDeleteUser,
        Send, CallOf, stored
  <1>4. ASSUME NEW c \in calls, ServerExecutes(c)
        PROVE  AnswersAreTrue'
    <2>0. calls \subseteq Calls /\ account \in [Uids -> {"absent", "live", "deleted"}]
      BY DEF TypeOK
    <2>1. PICK s \in {"done", "refused"} :
            /\ Advance(c, s)
            /\ s = "refused" => account[c.user.uid] = "deleted" /\ account' = account
            /\ c.kind = "delete" =>
                 account' = [account EXCEPT ![c.user.uid] = "deleted"]
      BY <1>4 DEF ServerExecutes
    <2>2. ASSUME NEW u \in Uids, account[u] = "deleted"
          PROVE  account'[u] = "deleted"
      BY <1>4, <2>0, <2>2 DEF ServerExecutes
    <2>3. ASSUME NEW d \in calls, \/ d.kind = "delete" /\ d.stage = "done"
                                  \/ d.stage = "refused"
          PROVE  account'[d.user.uid] = "deleted"
      <3>1. d.user.uid \in Uids
        BY <2>0 DEF Calls, Users
      <3> QED
        BY <2>2, <2>3, <3>1 DEF AnswersAreTrue
    <2>4. c.user.uid \in Uids
      BY <2>0 DEF Calls, Users
    <2>5. \/ c.kind = "delete" /\ s = "done"
          \/ s = "refused"
          => account'[c.user.uid] = "deleted"
      BY <2>0, <2>1, <2>4
    <2>6. /\ [c EXCEPT !.stage = s].stage = s
          /\ [c EXCEPT !.stage = s].kind = c.kind
          /\ [c EXCEPT !.stage = s].user = c.user
      BY <2>0 DEF Calls
    <2> QED
      BY <2>1, <2>3, <2>5, <2>6 DEF Advance, AnswersAreTrue
  <1>5. ASSUME NEW c \in calls, CallFails(c)
        PROVE  AnswersAreTrue'
    BY <1>1, <1>5 DEF CallFails, stored
  <1>6. ASSUME NEW c \in calls, WorkQueue(c)
        PROVE  AnswersAreTrue'
    <2>1. CASE ReauthMatched(c)
      <3>1. [c EXCEPT !.stage = "matched"].stage = "matched"
        BY DEF TypeOK, Calls
      <3> QED
        BY <2>1, <3>1 DEF ReauthMatched, Advance, AnswersAreTrue, stored
    <2>2. CASE ~ReauthMatched(c)
      BY <1>1, <1>6, <2>2
      DEF WorkQueue, SignInAnswered, ReauthAnswered, UpdateAnswered, UpdateRefused,
          DeleteAnswered, TokenInstalled
    <2> QED
      BY <2>1, <2>2
  <1>7. CASE MainQueue
    BY <1>1, <1>2, <1>7
    DEF MainQueue, RunAuthState, RunSignedIn, RunSignedUp, EnterMain,
        RunReauthenticated, RunDeleted, stored
  <1>8. CASE TokenRefused \/ Kill \/ Launch \/ UNCHANGED vars
    BY <1>1, <1>8 DEF TokenRefused, Kill, Launch, vars, stored
  <1> QED
    BY <1>3, <1>4, <1>5, <1>6, <1>7, <1>8 DEF Next

LEMMA AnswersInvariant == Spec => []AnswersAreTrue
  <1>1. Init => AnswersAreTrue
    BY DEF Init, AnswersAreTrue
  <1>2. TypeOK /\ AnswersAreTrue /\ [Next]_vars => AnswersAreTrue'
    BY AnswersStep
  <1> QED
    BY <1>1, <1>2, Types, PTL DEF Spec

\* A person who stays on the tabs loses the session only with the account.
THEOREM StrangersCannotSignOut == Spec => NoStrangerSignsOut
  <1> DEFINE Quiet == (root = "main" /\ root' = "main" /\ currentUser # NoUser
                       /\ currentUser' = NoUser) => account[currentUser.uid] = "deleted"
  <1>1. TypeOK /\ AnswersAreTrue /\ [Next]_vars => [Quiet]_vars
    <2> SUFFICES ASSUME TypeOK, AnswersAreTrue, Next,
                        root = "main", root' = "main",
                        currentUser # NoUser, currentUser' = NoUser
                 PROVE  account[currentUser.uid] = "deleted"
      OBVIOUS
    <2>1. CASE Tap
      BY <2>1 DEF Tap, TapLogin, TapRegister, TapLogout, TapConfirmPassword,
                  TapDeleteUser, GoToLogin, stored
    <2>2. ASSUME NEW c \in calls, ServerExecutes(c) \/ CallFails(c)
          PROVE  FALSE
      BY <2>2 DEF ServerExecutes, CallFails
    <2>3. ASSUME NEW c \in calls, WorkQueue(c)
          PROVE  account[currentUser.uid] = "deleted"
      <3>1. c.user # NoUser
        BY UidAssumption DEF TypeOK, Calls, Users, NoUser
      <3>2. SignOutByForce(c.user, <<>>) \/ SignOutByForce(c.user, <<Block("deleted", c.user)>>)
        BY <2>3, <3>1
        DEF WorkQueue, SignInAnswered, SetCurrentUser, ReauthMatched, ReauthAnswered,
            UpdateAnswered, TokenInstalled, UpdateRefused, DeleteAnswered
      <3>3. currentUser = c.user
        BY <3>2 DEF SignOutByForce
      <3>4. c.stage = "refused" \/ (c.kind = "delete" /\ c.stage = "done")
        BY <2>3, <3>1
        DEF WorkQueue, SignInAnswered, SetCurrentUser, ReauthMatched, ReauthAnswered,
            UpdateAnswered, TokenInstalled, UpdateRefused, DeleteAnswered
      <3> QED
        BY <3>3, <3>4 DEF AnswersAreTrue
    <2>4. CASE TokenRefused
      BY <2>4 DEF TokenRefused
    <2>5. CASE MainQueue
      BY <2>5 DEF MainQueue, RunAuthState, RunSignedIn, RunSignedUp, EnterMain,
                  RunReauthenticated, RunDeleted, GoToLogin
    <2>6. CASE Kill \/ Launch
      BY <2>6 DEF Kill, Launch
    <2> QED
      BY <2>1, <2>2, <2>3, <2>4, <2>5, <2>6 DEF Next
  <1> QED
    BY <1>1, Types, AnswersInvariant, PTL DEF Spec, NoStrangerSignsOut

-----------------------------------------------------------------------------
(* The login flag.                                                           *)

SomeDeleted == \E u \in Uids : account[u] = "deleted"

\* While no account has been deleted, the login flag, the keychain and the
\* current user agree, in a living process and in what a dead one leaves.
FlagInv ==
  SomeDeleted \/
    /\ root # "dead" /\ defaults # NoUid => currentUser # NoUser
    /\ root # "dead" /\ currentUser # NoUser => keychain # NoUid
    /\ root = "dead" /\ defaults # NoUid => keychain # NoUid
    /\ root = "dead" => calls = {} /\ mainQ = <<>> /\ currentUser = NoUser

\* A deleted account stays deleted, so a step is looked at without one.
LEMMA FlagStep ==
  ASSUME TypeOK, AnswersAreTrue, FlagInv, [Next]_vars
  PROVE  FlagInv'
  <1>1. ASSUME SomeDeleted
        PROVE  SomeDeleted'
    <2>1. PICK u \in Uids : account[u] = "deleted"
      BY <1>1 DEF SomeDeleted
    <2>2. account' = account \/ \E c \in calls : ServerExecutes(c)
      BY DEF Next, Tap, TapLogin, TapRegister, TapLogout, TapConfirmPassword,
             TapDeleteUser, CallFails, WorkQueue, SignInAnswered, ReauthMatched,
             ReauthAnswered, UpdateAnswered, UpdateRefused, DeleteAnswered,
             TokenInstalled, TokenRefused, MainQueue, RunAuthState, RunSignedIn,
             RunSignedUp, EnterMain, RunReauthenticated, RunDeleted, Kill, Launch,
             stored, vars
    <2>3. account'[u] = "deleted"
      BY <2>1, <2>2 DEF ServerExecutes, TypeOK
    <2> QED
      BY <2>3 DEF SomeDeleted
  <1> SUFFICES ASSUME ~SomeDeleted
               PROVE  FlagInv'
    BY <1>1 DEF FlagInv
  <1>2. /\ root # "dead" /\ defaults # NoUid => currentUser # NoUser
        /\ root # "dead" /\ currentUser # NoUser => keychain # NoUid
        /\ root = "dead" /\ defaults # NoUid => keychain # NoUid
        /\ root = "dead" => calls = {} /\ mainQ = <<>> /\ currentUser = NoUser
    BY DEF FlagInv
  <1>3. \A u \in Users : u # NoUser /\ u.uid # NoUid
    BY UidAssumption DEF Users, NoUser
  <1>4. \A u \in Users \cup {NoUser} : u.uid # NoUid => u # NoUser
    BY DEF NoUser
  <1>5. CASE Tap
    BY <1>2, <1>5
    DEF Tap, TapLogin, TapRegister, TapLogout, TapConfirmPassword, TapDeleteUser,
        GoToLogin, SignOut, FlagInv, stored
  <1>6. ASSUME NEW c \in calls, ServerExecutes(c) \/ CallFails(c)
        PROVE  FlagInv'
    BY <1>2, <1>6 DEF ServerExecutes, CallFails, FlagInv, stored
  <1>7. ASSUME NEW c \in calls, WorkQueue(c)
        PROVE  FlagInv'
    <2>1. c \in Calls /\ c.user \in Users
      BY DEF TypeOK, Calls
    <2>2. ~(c.kind = "delete" /\ c.stage = "done") /\ c.stage # "refused"
      BY <2>1 DEF AnswersAreTrue, SomeDeleted, Users
    <2>3. root # "dead" /\ UNCHANGED <<root, defaults>>
      BY <1>2, <1>7
      DEF WorkQueue, SignInAnswered, ReauthMatched, ReauthAnswered, UpdateAnswered,
          UpdateRefused, DeleteAnswered, TokenInstalled, stored
    <2>4. \/ currentUser' = c.user /\ keychain' = c.user.uid
          \/ currentUser' = currentUser /\ keychain' \in {keychain, c.user.uid}
      BY <1>7, <2>2
      DEF WorkQueue, SignInAnswered, SetCurrentUser, ReauthMatched, ReauthAnswered,
          UpdateAnswered, UpdateRefused, DeleteAnswered, TokenInstalled, stored
    <2> QED
      BY <1>2, <1>3, <2>1, <2>3, <2>4 DEF FlagInv
  <1>8. CASE TokenRefused
    <2>1. currentUser \in Users /\ account[currentUser.uid] = "deleted"
      BY <1>8 DEF TokenRefused, TypeOK
    <2> QED
      BY <2>1 DEF SomeDeleted, Users
  <1>9. CASE MainQueue
    <2>1. root # "dead"
      BY <1>2, <1>9 DEF MainQueue, RunAuthState, RunSignedIn, RunSignedUp,
                        RunReauthenticated, RunDeleted, Runs
    <2>2. CASE RunAuthState
      BY <1>2, <2>1, <2>2 DEF RunAuthState, FlagInv, stored
    <2>3. CASE RunSignedIn \/ RunSignedUp
      <3>1. /\ defaults' = currentUser.uid /\ root' = "main"
            /\ UNCHANGED <<currentUser, keychain>>
        BY <2>3 DEF RunSignedIn, RunSignedUp, EnterMain
      <3>2. currentUser.uid # NoUid => currentUser # NoUser
        BY DEF NoUser
      <3> QED
        BY <1>2, <2>1, <3>1, <3>2 DEF FlagInv
    <2>4. CASE RunReauthenticated \/ RunDeleted
      BY <1>2, <2>1, <2>4 DEF RunReauthenticated, RunDeleted, GoToLogin, SignOut, FlagInv
    <2> QED
      BY <1>9, <2>2, <2>3, <2>4 DEF MainQueue
  <1>10. CASE Kill
    BY <1>2, <1>10 DEF Kill, FlagInv, stored
  <1>11. CASE Launch
    <2>1. keychain # NoUid => [uid |-> keychain, id |-> 0] # NoUser
      BY DEF NoUser
    <2>2. keychain = NoUid => [uid |-> keychain, id |-> 0] = NoUser
      BY DEF NoUser
    <2>3. /\ currentUser' = [uid |-> keychain, id |-> 0] /\ root' \in {"main", "login"}
          /\ UNCHANGED <<keychain, defaults>> /\ root = "dead"
      BY <1>11 DEF Launch, stored
    <2> QED
      BY <1>2, <2>1, <2>2, <2>3 DEF FlagInv
  <1>12. CASE UNCHANGED vars
    BY <1>2, <1>12 DEF vars, FlagInv
  <1> QED
    BY <1>5, <1>6, <1>7, <1>8, <1>9, <1>10, <1>11, <1>12 DEF Next

\* With nobody signed in, a login flag is still set only after an account was
\* deleted, however often the process died between keychain and flag.
THEOREM FlagOutlives == Spec => []FlagOutlivesOnlyDeletion
  <1>1. Init => FlagInv
    BY DEF Init, FlagInv
  <1>2. TypeOK /\ AnswersAreTrue /\ FlagInv /\ [Next]_vars => FlagInv'
    BY FlagStep
  <1>3. FlagInv => FlagOutlivesOnlyDeletion
    BY DEF FlagInv, FlagOutlivesOnlyDeletion, SomeDeleted
  <1> QED
    BY <1>1, <1>2, <1>3, Types, AnswersInvariant, PTL DEF Spec
=============================================================================
