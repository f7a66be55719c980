----------------------------- MODULE WriteQueue -----------------------------
(***************************************************************************)
(* Firestore's queue of writes (FirebaseFirestore, Firestore/core/src): the *)
(* app's writes are numbered and stored per user, a pipeline of the oldest  *)
(* ones is sent over one stream with the token of the user, and every       *)
(* result ends the write at the pipeline's front.                           *)
(*                                                                          *)
(* Three threads take part, each modelled by what it runs next:             *)
(*   - FirebaseAuth's work queue changes the current user and fetches       *)
(*     tokens (auth, net.asked);                                            *)
(*   - the main queue hands notifications and tokens to the credentials     *)
(*     provider and makes the app's writes (main, provider);                *)
(*   - Firestore's worker queue runs user changes, writes and tokens in the *)
(*     order they were enqueued (worker); what gRPC reports and timers run  *)
(*     there too, in no fixed order with them.                              *)
(***************************************************************************)
EXTENDS Naturals, FiniteSets, SequencesExt

CONSTANTS
  Accounts,    \* uids
  Nobody,      \* the user Firestore has while nobody is signed in
  MaxPending,  \* kMaxPendingWrites
  MaxWrites,   \* bound: writes the app makes
  MaxEvents    \* bound: changes of user, failed tokens, broken streams,
               \* other networks and restarts of the app, together

ASSUME AccountsAssumption == Nobody \notin Accounts
ASSUME BoundsAssumption ==
  /\ MaxPending \in Nat \ {0}
  /\ MaxWrites \in Nat /\ MaxEvents \in Nat

VARIABLES
  auth,       \* FIRAuth's _currentUser, which the keychain keeps
  main,       \* blocks on the main queue
  provider,   \* the credentials provider: its current_user and token_counter
  worker,     \* tasks enqueued on Firestore's worker queue
  user,       \* SyncEngine's current_user_, whose mutation queue is loaded
  queue,      \* per user, the stored batches in the order of their ids
  nextBatch,  \* next_batch_id_ of the loaded mutation queue
  callbacks,  \* mutation_callbacks_
  net,        \* RemoteStore's pipeline and its write stream
  failed,     \* a HARD_ASSERT has failed
  authors,    \* history: per write, the user the main thread knew at the call
  applied,    \* history: the writes the server applied at least once
  heard,      \* history: what each write's callback was told
  events

storeVars == <<user, queue, nextBatch, callbacks>>
vars == <<auth, main, provider, worker, storeVars, net, failed, authors,
          applied, heard, events>>

Users == Accounts \cup {Nobody}
Writes == 1..MaxWrites

\* A gRPC call: whose token opened it, what was sent and not yet taken up by
\* the server, and the server's answers the client has not read.
NoCall == [as |-> Nobody, sent |-> <<>>, answers |-> <<>>]
Refusal(b) == [batch |-> b, ok |-> FALSE]
Result(b) == [batch |-> b, ok |-> TRUE]

-----------------------------------------------------------------------------
(* LevelDbMutationQueue.                                                     *)

Batches(q) == {q[i] : i \in 1..Len(q)}

\* Mutant of NextBatchId: the ids start over with every queue that is loaded.
NextBatchIdFromOne(q) == 1

\* Mutant of NextBatchId: the largest id stored is given again.
NextBatchIdStored(q) ==
  Max({0} \cup {b.id : b \in UNION {Batches(q[u]) : u \in Users}})

\* LoadNextBatchIdFromDb: one more than the largest id stored for any user.
NextBatchId(q) ==
  1 + Max({0} \cup {b.id : b \in UNION {Batches(q[u]) : u \in Users}})

\* NextMutationBatchAfterBatchId, repeated: at most n batches behind an id.
After(q, id, n) ==
  LET upTo == Cardinality({i \in 1..Len(q) : q[i].id <= id})
  IN  SubSeq(q, upTo + 1, Min({upTo + n, Len(q)}))

\* RemoveMutationBatch; ids are unique in a queue.
Removed(q, id) ==
  IF \E i \in 1..Len(q) : q[i].id = id
    THEN RemoveAt(q, CHOOSE i \in 1..Len(q) : q[i].id = id) ELSE q

-----------------------------------------------------------------------------
(* RemoteStore and WriteStream, on the record net:                           *)
(*   pipeline  write_pipeline_                                               *)
(*   state     the stream's state_                                           *)
(*   shook     handshake_complete_                                           *)
(*   closes    close_count_                                                  *)
(*   idle      the idleness timer runs                                       *)
(*   call      the gRPC call while the stream is open                        *)
(*   asked     GetToken calls FirebaseAuth has not answered                  *)

\* RequestCredentials, GetToken: a call FirebaseAuth has not looked at.
Asked(counter, closes) ==
  [read |-> FALSE, user |-> Nobody, counter |-> counter, closes |-> closes]

\* Stream::Start: after an error the stream backs off first; otherwise it
\* asks for a token, noting close_count_ and the provider's token_counter.
Start(n, counter) ==
  IF n.state = "Error" THEN [n EXCEPT !.state = "Backoff"]
  ELSE [n EXCEPT !.state = "Starting",
          !.asked = @ \cup {Asked(counter, n.closes)}]

\* Mutant of StartIfNeeded: a stream in the error state is left there.
StartIfHealthy(n, counter) ==
  IF n.state = "Initial" /\ n.pipeline # <<>> THEN Start(n, counter) ELSE n

\* ShouldStartWriteStream, StartWriteStream.
StartIfNeeded(n, counter) ==
  IF n.state \in {"Initial", "Error"} /\ n.pipeline # <<>>
    THEN Start(n, counter) ELSE n

\* Mutant of Fill: every batch of the queue is taken for a new one.
FillFromFront(n, q, counter) ==
  LET new == After(q, 0, MaxPending - Len(n.pipeline))
      sends == n.state = "Open" /\ n.shook
  IN  StartIfNeeded(
        [n EXCEPT !.pipeline = @ \o new,
           !.call.sent = IF sends THEN @ \o new ELSE @,
           !.idle = IF n.pipeline \o new = <<>> THEN n.state = "Open"
                    ELSE @ /\ ~(sends /\ new # <<>>)], counter)

\* Mutant of Fill: batches are sent before the handshake is through.
FillEagerly(n, q, counter) ==
  LET last == IF n.pipeline = <<>> THEN 0 ELSE n.pipeline[Len(n.pipeline)].id
      new == After(q, last, MaxPending - Len(n.pipeline))
  IN  StartIfNeeded(
        [n EXCEPT !.pipeline = @ \o new,
           !.call.sent = IF n.state = "Open" THEN @ \o new ELSE @,
           !.idle = IF n.pipeline \o new = <<>> THEN n.state = "Open"
                    ELSE @ /\ new = <<>>], counter)

\* FillWritePipeline: batches are added up to the limit and sent at once on a
\* stream that has shaken hands; an empty pipeline starts the idleness timer,
\* a message cancels it; the stream is started when it is needed.
Fill(n, q, counter) ==
  LET last == IF n.pipeline = <<>> THEN 0 ELSE n.pipeline[Len(n.pipeline)].id
      new == After(q, last, MaxPending - Len(n.pipeline))
      sends == n.state = "Open" /\ n.shook
  IN  StartIfNeeded(
        [n EXCEPT !.pipeline = @ \o new,
           !.call.sent = IF sends THEN @ \o new ELSE @,
           !.idle = IF n.pipeline \o new = <<>> THEN n.state = "Open"
                    ELSE @ /\ ~(sends /\ new # <<>>)], counter)

Started(n) == n.state \in {"Starting", "Backoff", "Open"}

\* Stream::Close up to the listener's notification.
Closed(n, state) ==
  [n EXCEPT !.state = state, !.closes = @ + 1, !.idle = FALSE, !.call = NoCall]

\* RestartNetwork: stop, forget the pipeline, clear the error, fill again.
Restarted(n, q, counter) ==
  LET stopped == IF Started(n) THEN Closed(n, "Initial") ELSE n
  IN  Fill([stopped EXCEPT !.pipeline = <<>>, !.state = "Initial",
                           !.shook = FALSE], q, counter)

\* Close with an error that concerns no write, as OnWriteStreamClose handles
\* it: the pipeline stays and the stream is restarted if it is needed.
Broken(n, counter) ==
  StartIfNeeded([Closed(n, "Error") EXCEPT !.shook = FALSE], counter)

NewNet == [pipeline |-> <<>>, state |-> "Initial", shook |-> FALSE,
           closes |-> 0, idle |-> FALSE, call |-> NoCall, asked |-> {}]

-----------------------------------------------------------------------------
Init ==
  /\ auth \in Users
  /\ main = <<>>
  /\ provider = [user |-> auth, counter |-> 0]
  /\ worker = <<>>
  /\ user = auth
  /\ queue = [u \in Users |-> <<>>]
  /\ nextBatch = 1
  /\ callbacks = {}
  /\ net = NewNet
  /\ failed = FALSE
  /\ authors = <<>>
  /\ applied = {}
  /\ heard = [w \in Writes |-> "nothing"]
  /\ events = 0

-----------------------------------------------------------------------------
(* FirebaseAuth's work queue.                                                *)

\* Another user, or another token of the same one; the notification is
\* dispatched to the main queue in the same block.
ChangeUser(u) ==
  /\ events < MaxEvents
  /\ events' = events + 1
  /\ auth' = u
  /\ main' = Append(main, [run |-> "notify", user |-> u])
  /\ UNCHANGED <<provider, worker, storeVars, net, failed, authors, applied,
                 heard>>

\* getTokenForcingRefresh: the block takes the current user ...
ReadUser(r) ==
  /\ ~r.read
  /\ net' = [net EXCEPT !.asked = (@ \ {r}) \cup
                {[r EXCEPT !.read = TRUE, !.user = auth]}]
  /\ UNCHANGED <<auth, main, provider, worker, storeVars, failed, authors,
                 applied, heard, events>>

\* ... and the answer of that user's token service goes to the main queue.
PostToken(r, ok) ==
  /\ r.read
  /\ ~ok => events < MaxEvents /\ r.user # Nobody
  /\ events' = IF ok THEN events ELSE events + 1
  /\ net' = [net EXCEPT !.asked = @ \ {r}]
  /\ main' = Append(main, [run |-> "token", user |-> r.user, ok |-> ok,
                           counter |-> r.counter, closes |-> r.closes])
  /\ UNCHANGED <<auth, provider, worker, storeVars, failed, authors, applied,
                 heard>>

-----------------------------------------------------------------------------
(* The main queue.                                                           *)

RunsMain(block) ==
  /\ main # <<>> /\ Head(main).run = block
  /\ main' = Tail(main)

\* The observer of FIRAuthStateDidChangeInternalNotification.
RunNotify ==
  /\ RunsMain("notify")
  /\ provider' = [user |-> Head(main).user, counter |-> provider.counter + 1]
  /\ worker' = Append(worker, [run |-> "change", user |-> Head(main).user])
  /\ UNCHANGED <<auth, storeVars, net, failed, authors, applied, heard, events>>

\* Mutant of RunToken: a token fetched before a notification is dropped.
RunTokenDropping ==
  /\ RunsMain("token")
  /\ LET t == Head(main)
     IN  worker' = IF t.counter # provider.counter THEN worker
                   ELSE Append(worker, [run |-> "token", user |-> t.user,
                                        ok |-> t.ok, closes |-> t.closes])
  /\ UNCHANGED <<auth, provider, storeVars, net, failed, authors, applied, heard,
                 events>>

\* get_token_callback: asks again if a notification came in between, else
\* passes on the token.
RunToken ==
  /\ RunsMain("token")
  /\ LET t == Head(main)
     IN  IF t.counter # provider.counter
           THEN /\ net' = [net EXCEPT !.asked = @ \cup
                     {Asked(provider.counter, t.closes)}]
                /\ UNCHANGED worker
           ELSE /\ worker' = Append(worker,
                     [run |-> "token", user |-> t.user, ok |-> t.ok,
                      closes |-> t.closes])
                /\ UNCHANGED net
  /\ UNCHANGED <<auth, provider, storeVars, failed, authors, applied, heard,
                 events>>

\* The app calls addDocument, setData or delete; the write is enqueued behind
\* the changes of user the main thread has been notified of.
MakeWrite ==
  /\ Len(authors) < MaxWrites
  /\ authors' = Append(authors, provider.user)
  /\ worker' = Append(worker, [run |-> "write", write |-> Len(authors) + 1])
  /\ UNCHANGED <<auth, main, provider, storeVars, net, failed, applied, heard,
                 events>>

-----------------------------------------------------------------------------
(* Firestore's worker queue: the tasks enqueued from the main thread.        *)

Runs(task) ==
  /\ worker # <<>> /\ Head(worker).run = task
  /\ worker' = Tail(worker)

\* Mutant of RunChange: the streams go on when the queue is swapped.
RunChangeKeepingStreams ==
  /\ Runs("change")
  /\ user' = Head(worker).user
  /\ nextBatch' = IF user' = user THEN nextBatch ELSE NextBatchId(queue)
  /\ UNCHANGED <<auth, main, provider, queue, callbacks, net, failed, authors,
                 applied, heard, events>>

\* SyncEngine::HandleCredentialChange: another user's queue is loaded, with
\* its own next id; the streams are restarted even for the same user.
RunChange ==
  /\ Runs("change")
  /\ user' = Head(worker).user
  /\ nextBatch' = IF user' = user THEN nextBatch ELSE NextBatchId(queue)
  /\ net' = Restarted(net, queue[user'], provider.counter)
  /\ UNCHANGED <<auth, main, provider, queue, callbacks, failed, authors,
                 applied, heard, events>>

\* SyncEngine::WriteMutations: store the batch under its id, keep its
\* callback, fill.
RunWrite ==
  /\ Runs("write")
  /\ LET b == [id |-> nextBatch, write |-> Head(worker).write]
     IN  /\ queue' = [queue EXCEPT ![user] = Append(Removed(@, b.id), b)]
         /\ callbacks' = callbacks \cup {<<user, b.id, b.write>>}
  /\ nextBatch' = nextBatch + 1
  /\ net' = Fill(net, queue'[user], provider.counter)
  /\ UNCHANGED <<auth, main, provider, user, failed, authors, applied, heard,
                 events>>

\* Mutant of RunGranted: tokens for a stream closed since are used.
RunGrantedLate ==
  /\ Runs("token")
  /\ LET t == Head(worker)
     IN  /\ failed' = (failed \/ net.state # "Starting")
         /\ net' = IF ~t.ok THEN Broken(net, provider.counter)
                   ELSE [net EXCEPT !.state = "Open", !.call.as = t.user]
  /\ UNCHANGED <<auth, main, provider, storeVars, authors, applied, heard,
                 events>>

\* ResumeStartWithCredentials, unless the stream was closed since it asked:
\* the call is opened and the handshake sent, or the stream fails.
RunGranted ==
  /\ Runs("token")
  /\ LET t == Head(worker)
     IN  IF t.closes # net.closes THEN UNCHANGED <<net, failed>>
         ELSE /\ failed' = (failed \/ net.state # "Starting")
              /\ net' = IF ~t.ok THEN Broken(net, provider.counter)
                        ELSE [net EXCEPT !.state = "Open", !.call.as = t.user]
  /\ UNCHANGED <<auth, main, provider, storeVars, authors, applied, heard,
                 events>>

-----------------------------------------------------------------------------
(* Firestore's worker queue: timers and what gRPC reports.                   *)

\* BackoffAndTryRestarting's timer.
BackoffElapses ==
  /\ net.state = "Backoff"
  /\ net' = Start([net EXCEPT !.state = "Initial"], provider.counter)
  /\ UNCHANGED <<auth, main, provider, worker, storeVars, failed, authors,
                 applied, heard, events>>

\* The idleness timer stops the stream; OnWriteStreamClose asserts that it is
\* not needed.
IdleElapses ==
  /\ net.idle
  /\ net' = [Closed(net, "Initial") EXCEPT !.shook = FALSE]
  /\ failed' = (failed \/ net.pipeline # <<>>)
  /\ UNCHANGED <<auth, main, provider, worker, storeVars, authors, applied,
                 heard, events>>

\* The first response: OnWriteStreamHandshakeComplete sends the pipeline.
HandshakeDone ==
  /\ net.state = "Open" /\ ~net.shook
  /\ net' = [net EXCEPT !.shook = TRUE, !.call.sent = @ \o net.pipeline,
                        !.idle = @ /\ net.pipeline = <<>>]
  /\ UNCHANGED <<auth, main, provider, worker, storeVars, failed, authors,
                 applied, heard, events>>

\* SyncEngine::NotifyUser: the callback of the current user's batch, if any.
Notify(id, verdict) ==
  LET mine == {c \in callbacks : c[1] = user /\ c[2] = id}
  IN  /\ callbacks' = callbacks \ mine
      /\ heard' = [w \in Writes |->
           IF \E c \in mine : c[3] = w THEN verdict ELSE heard[w]]

\* Mutant of TakeFront: the batch stays in the mutation queue.
TakeFrontKeeping(verdict) ==
  /\ failed' = (failed \/ net.pipeline = <<>>)
  /\ Notify(Head(net.pipeline).id, verdict)
  /\ UNCHANGED queue

\* A batch leaves the pipeline's front; the mutation queue asserts that it
\* still has it, and its callback is told.
TakeFront(verdict) ==
  LET front == Head(net.pipeline)
  IN  /\ failed' = (failed \/ net.pipeline = <<>>
                    \/ front \notin Batches(queue[user]))
      /\ Notify(front.id, verdict)
      /\ queue' = [queue EXCEPT ![user] = Removed(@, front.id)]

\* OnWriteStreamMutationResult.
ReadResult ==
  /\ net.call.answers # <<>> /\ Head(net.call.answers).ok
  /\ TakeFront("ok")
  /\ net' = Fill([net EXCEPT !.pipeline = Tail(@), !.call.answers = Tail(@)],
                 queue'[user], provider.counter)
  /\ UNCHANGED <<auth, main, provider, worker, user, nextBatch, authors,
                 applied, events>>

\* The call ends with a permanent error after the handshake: HandleWriteError
\* gives up the front batch and connects again without backing off.
ReadRefusal ==
  /\ net.call.answers # <<>> /\ ~Head(net.call.answers).ok
  /\ TakeFront("refused")
  /\ net' = [Fill([Closed(net, "Initial") EXCEPT !.pipeline = Tail(@)],
                  queue'[user], provider.counter) EXCEPT !.shook = FALSE]
  /\ UNCHANGED <<auth, main, provider, worker, user, nextBatch, authors,
                 applied, events>>

-----------------------------------------------------------------------------
(* The server, the network and the device.                                   *)

Refused == \E i \in 1..Len(net.call.answers) : ~net.call.answers[i].ok

ServerApplies ==
  /\ net.call.sent # <<>> /\ ~Refused
  /\ applied' = applied \cup {Head(net.call.sent).write}
  /\ net' = [net EXCEPT !.call.sent = Tail(@),
               !.call.answers = Append(@, Result(Head(net.call.sent)))]
  /\ UNCHANGED <<auth, main, provider, worker, storeVars, failed, authors,
                 heard, events>>

\* The rules refuse a write, which ends the call.
ServerRefuses ==
  /\ net.call.sent # <<>> /\ ~Refused
  /\ net' = [net EXCEPT !.call.sent = Tail(@),
               !.call.answers = Append(@, Refusal(Head(net.call.sent)))]
  /\ UNCHANGED <<auth, main, provider, worker, storeVars, failed, authors,
                 applied, heard, events>>

\* The call breaks with an error that is no write's; what the server applied
\* and the client has not read is lost with it.
StreamBreaks ==
  /\ events < MaxEvents /\ net.state = "Open"
  /\ events' = events + 1
  /\ net' = Broken(net, provider.counter)
  /\ UNCHANGED <<auth, main, provider, worker, storeVars, failed, authors,
                 applied, heard>>

\* RemoteStore::Start's callback: the device has another network.
ConnectivityChanges ==
  /\ events < MaxEvents
  /\ events' = events + 1
  /\ net' = Restarted(net, queue[user], provider.counter)
  /\ UNCHANGED <<auth, main, provider, worker, storeVars, failed, authors,
                 applied, heard>>

\* The process dies and is launched again: FirestoreClient::Initialize loads
\* the queue of the user FirebaseAuth has by then, which is nobody if the
\* keychain has not been read; a notification follows in either case.
Restart ==
  /\ events < MaxEvents
  /\ events' = events + 1
  /\ user' \in {auth, Nobody}
  /\ main' = <<[run |-> "notify", user |-> auth]>>
  /\ provider' = [user |-> user', counter |-> 0]
  /\ worker' = <<>>
  /\ nextBatch' = NextBatchId(queue)
  /\ callbacks' = {}
  /\ net' = Fill(NewNet, queue[user'], 0)
  /\ UNCHANGED <<auth, queue, failed, authors, applied, heard>>

-----------------------------------------------------------------------------
AuthNext ==
  \/ \E u \in Users : ChangeUser(u)
  \/ \E r \in net.asked : ReadUser(r) \/ \E ok \in BOOLEAN : PostToken(r, ok)

MainNext == RunNotify \/ RunToken \/ MakeWrite

WorkerNext == RunChange \/ RunWrite \/ RunGranted

StreamNext ==
  \/ BackoffElapses \/ IdleElapses \/ HandshakeDone
  \/ ReadResult \/ ReadRefusal \/ ServerApplies \/ ServerRefuses

FaultNext == StreamBreaks \/ ConnectivityChanges \/ Restart

Next == AuthNext \/ MainNext \/ WorkerNext \/ StreamNext \/ FaultNext

\* The three queues run what is in them, tokens are fetched, the backoff
\* timer fires, and a server that has a write answers it; nobody has to
\* write, sign in or break anything, and an idle stream may stay open.
Fairness ==
  /\ WF_vars(\E r \in net.asked : ReadUser(r))
  /\ WF_vars(\E r \in net.asked, ok \in BOOLEAN : PostToken(r, ok))
  /\ WF_vars(RunNotify \/ RunToken)
  /\ WF_vars(WorkerNext)
  /\ WF_vars(BackoffElapses)
  /\ WF_vars(HandshakeDone)
  /\ WF_vars(ServerApplies \/ ServerRefuses)
  /\ WF_vars(ReadResult \/ ReadRefusal)

Spec == Init /\ [][Next]_vars /\ Fairness

-----------------------------------------------------------------------------
Batch == [id : Nat \ {0}, write : Writes]
Answer == [batch : Batch, ok : BOOLEAN]
Request == [read : BOOLEAN, user : Users, counter : Nat, closes : Nat]
Block == [run : {"notify"}, user : Users]
   \cup [run : {"token"}, user : Users, ok : BOOLEAN, counter : Nat,
         closes : Nat]
Task == [run : {"change"}, user : Users]
   \cup [run : {"write"}, write : Writes]
   \cup [run : {"token"}, user : Users, ok : BOOLEAN, closes : Nat]

TypeOK ==
  /\ auth \in Users /\ user \in Users
  /\ main \in Seq(Block)
  /\ provider \in [user : Users, counter : Nat]
  /\ worker \in Seq(Task)
  /\ queue \in [Users -> Seq(Batch)]
  /\ nextBatch \in Nat \ {0}
  /\ callbacks \subseteq Users \X (Nat \ {0}) \X Writes
  /\ net.pipeline \in Seq(Batch) /\ Len(net.pipeline) <= MaxPending
  /\ net.state \in {"Initial", "Starting", "Open", "Error", "Backoff"}
  /\ net.shook \in BOOLEAN /\ net.idle \in BOOLEAN /\ failed \in BOOLEAN
  /\ net.closes \in Nat
  /\ net.call \in [as : Users, sent : Seq(Batch), answers : Seq(Answer)]
  /\ net.asked \subseteq Request
  /\ authors \in Seq(Users) /\ Len(authors) <= MaxWrites
  /\ applied \subseteq Writes
  /\ heard \in [Writes -> {"nothing", "ok", "refused"}]
  /\ events \in 0..MaxEvents

\* None of the HARD_ASSERTs of stream, remote store and mutation queue fails:
\* a token only resumes a stream that is still starting for it, a result finds
\* a batch in the pipeline and in the mutation queue, and the idleness timer
\* never stops a stream that has something to send.
AssertionsHold == ~failed

\* The pipeline is the beginning of the stored queue of the user SyncEngine
\* has, whatever was added, ended, restarted or swapped meanwhile.
PipelineIsPrefix == IsPrefix(net.pipeline, queue[user])

\* What is on the stream is the pipeline, in its order: the n-th answer is
\* about the n-th batch, so that the result OnWriteStreamMutationResult gives
\* to the front batch is the front batch's own.
AnswersMatchPipeline ==
  LET onStream == [i \in 1..Len(net.call.answers) |->
                     net.call.answers[i].batch] \o net.call.sent
  IN  /\ net.shook /\ ~Refused => onStream = net.pipeline
      /\ Refused => IsPrefix(onStream, net.pipeline)

\* A stream carries the token of the user whose writes are in its pipeline,
\* and a write is stored in the queue of the user the main thread knew when
\* the app made it: no write of one user is ever sent as another.
WritesGoOutAsAuthor ==
  /\ net.state = "Open" => net.call.as = user
  /\ \A u \in Users : \A b \in Batches(queue[u]) : authors[b.write] = u

\* A callback waits for exactly the stored batch it was registered for, also
\* after other users have come and gone and numbers were given again.
CallbacksFindBatches ==
  \A c \in callbacks : [id |-> c[2], write |-> c[3]] \in Batches(queue[c[1]])

\* A token this stream waits for, on any of the three queues it crosses.
TokenUnderway ==
  \/ \E r \in net.asked : r.closes = net.closes
  \/ \E i \in 1..Len(main) : main[i].run = "token" /\ main[i].closes = net.closes
  \/ \E i \in 1..Len(worker) :
       worker[i].run = "token" /\ worker[i].closes = net.closes

\* The current user's writes never wait for nothing: while there is one, the
\* pipeline has the first, and a token, a timer, a handshake or an answer is
\* under way that makes the stream go on, whatever close, change of user,
\* refused token or restart came before (Stream::Start, FillWritePipeline).
WritesHaveNextStep ==
  queue[user] # <<>> =>
    /\ net.pipeline # <<>>
    /\ \/ net.state = "Starting" /\ TokenUnderway
       \/ net.state = "Backoff"
       \/ net.state = "Open" /\
            (~net.shook \/ net.call.sent # <<>> \/ net.call.answers # <<>>)

-----------------------------------------------------------------------------
(* What all this is for: the sequences of WriteLog.                          *)

Pending == [u \in Users |-> [i \in 1..Len(queue[u]) |-> queue[u][i].write]]

Results(answers) == Cardinality({i \in 1..Len(answers) : answers[i].ok})
Ahead == [u \in Users |-> IF u = user THEN Results(net.call.answers) ELSE 0]

Log == INSTANCE WriteLog WITH pending <- Pending, ahead <- Ahead

\* Streams, tokens, batch numbers and user changes implement the write log:
\* every user's writes are applied in the order they were made and each is
\* answered once, after it was applied or refused.
LogSpec == Log!Spec

\* What the app hears is true: a write whose callback got no error has reached
\* the server's store, and a write still in some user's queue has not been
\* answered, after any change of user and restart.
AnswersAreTrue == Log!AnswersAreTrue

\* The writes of a user who stays end: with finitely many writes, changes and
\* faults the current user's queue is empty in the end, although streams were
\* broken, tokens refused and users changed on the way.
QueueDrains == <>[](queue[user] = <<>>)
=============================================================================
