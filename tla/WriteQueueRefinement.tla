------------------------ MODULE WriteQueueRefinement ------------------------
(* WriteQueue implements WriteLog, for every set of accounts, every length   *)
(* of the pipeline and any number of writes and faults: every step of the    *)
(* queue, its streams and tokens is a step of the write log or none.         *)
EXTENDS WriteQueueProofs

-----------------------------------------------------------------------------
(* What the refinement needs besides the inductive invariant of WriteQueue.  *)

\* The writes that have left no trace yet.
Untouched ==
  {w \in Writes :
     /\ \A u \in Users : \A i \in 1..Len(queue[u]) : queue[u][i].write # w
     /\ w \notin applied /\ heard[w] = "nothing"}

\* The writes the worker queue has still to store are untouched, and no two
\* of them are the same; so are those the app has not made.
FreshInv ==
  /\ \A i \in 1..Len(worker) : worker[i].run = "write" => worker[i].write \in Untouched
  /\ \A i, j \in 1..Len(worker) :
       worker[i].run = "write" /\ worker[j].run = "write" /\ i # j =>
         worker[i].write # worker[j].write
  /\ \A w \in Writes : w > Len(authors) => w \in Untouched

\* A refusal is the last answer of a call.
LastInv == \A i \in 1..Len(net.call.answers) - 1 : net.call.answers[i].ok

RInv == IInv /\ FreshInv /\ LastInv

-----------------------------------------------------------------------------
(* Counting answers.                                                         *)

LEMMA CountedUpTo ==
  ASSUME NEW n \in Nat
  PROVE  Cardinality(1..n) = n
  BY FS_Interval

\* All answers but a refusal at the end are results.
LEMMA ResultsCount ==
  ASSUME NEW a \in Seq(Answer), \A i \in 1..Len(a) - 1 : a[i].ok
  PROVE  Results(a) = IF \E i \in 1..Len(a) : ~a[i].ok THEN Len(a) - 1 ELSE Len(a)
  <1> DEFINE S == {i \in 1..Len(a) : a[i].ok}
  <1>1. CASE \E i \in 1..Len(a) : ~a[i].ok
    <2>1. ~a[Len(a)].ok /\ Len(a) \in Nat /\ Len(a) >= 1
      BY <1>1
    <2>2. S = 1..(Len(a) - 1)
      BY <2>1
    <2>3. Len(a) - 1 \in Nat
      BY <2>1
    <2> QED
      BY <1>1, <2>2, <2>3, CountedUpTo DEF Results
  <1>2. CASE ~\E i \in 1..Len(a) : ~a[i].ok
    <2>1. S = 1..Len(a) /\ Len(a) \in Nat
      BY <1>2
    <2> QED
      BY <1>2, <2>1, CountedUpTo DEF Results
  <1> QED
    BY <1>1, <1>2

LEMMA ResultsNone == Results(<<>>) = 0
  BY FS_EmptySet DEF Results

LEMMA ResultsAppend ==
  ASSUME NEW a \in Seq(Answer), \A i \in 1..Len(a) : a[i].ok, NEW x \in Answer
  PROVE  /\ Append(a, x) \in Seq(Answer)
         /\ \A i \in 1..Len(Append(a, x)) - 1 : Append(a, x)[i].ok
         /\ Results(a) = Len(a)
         /\ Results(Append(a, x)) = IF x.ok THEN Len(a) + 1 ELSE Len(a)
  <1> DEFINE b == Append(a, x)
  <1>1. /\ b \in Seq(Answer) /\ Len(b) = Len(a) + 1 /\ Len(a) \in Nat
        /\ b[Len(a) + 1] = x /\ \A i \in 1..Len(a) : b[i] = a[i]
    OBVIOUS
  <1> HIDE DEF b
  <1>2. \A i \in 1..Len(b) - 1 : b[i].ok
    BY <1>1
  <1>3. Results(b) = IF \E i \in 1..Len(b) : ~b[i].ok THEN Len(b) - 1 ELSE Len(b)
    BY <1>1, <1>2, ResultsCount
  <1>4. Results(a) = Len(a)
    BY ResultsCount
  <1>5. (\E i \in 1..Len(b) : ~b[i].ok) <=> ~x.ok
    BY <1>1, <1>2
  <1> QED
    BY <1>1, <1>2, <1>3, <1>4, <1>5 DEF b

LEMMA ResultsTail ==
  ASSUME NEW a \in Seq(Answer), a # <<>>, \A i \in 1..Len(a) - 1 : a[i].ok
  PROVE  /\ Tail(a) \in Seq(Answer)
         /\ \A i \in 1..Len(Tail(a)) - 1 : Tail(a)[i].ok
         /\ Head(a).ok => Results(a) # 0 /\ Results(Tail(a)) = Results(a) - 1
         /\ ~Head(a).ok => Results(a) = 0
  <1> DEFINE b == Tail(a)
  <1>1. /\ b \in Seq(Answer) /\ Len(b) = Len(a) - 1 /\ Len(a) \in Nat /\ Len(a) >= 1
        /\ Head(a) = a[1] /\ \A i \in 1..Len(b) : b[i] = a[i + 1]
    OBVIOUS
  <1> HIDE DEF b
  <1>2. \A i \in 1..Len(b) - 1 : b[i].ok
    BY <1>1
  <1>3. Results(b) = IF \E i \in 1..Len(b) : ~b[i].ok THEN Len(b) - 1 ELSE Len(b)
    BY <1>1, <1>2, ResultsCount
  <1>4. Results(a) = IF \E i \in 1..Len(a) : ~a[i].ok THEN Len(a) - 1 ELSE Len(a)
    BY ResultsCount
  <1>5. ASSUME Head(a).ok
        PROVE  Results(a) # 0 /\ Results(b) = Results(a) - 1
    <2>1. CASE \E i \in 1..Len(a) : ~a[i].ok
      <3>1. ~a[Len(a)].ok
        BY <2>1, <1>1
      <3>2. Len(a) >= 2
        BY <3>1, <1>1, <1>5
      <3>3. ~b[Len(b)].ok /\ Len(b) \in 1..Len(b)
        BY <3>1, <3>2, <1>1
      <3> QED
        BY <3>2, <3>3, <2>1, <1>1, <1>3, <1>4
    <2>2. CASE ~\E i \in 1..Len(a) : ~a[i].ok
      <3>1. ASSUME NEW i \in 1..Len(b)
            PROVE  b[i].ok
        <4>1. i + 1 \in 1..Len(a) /\ b[i] = a[i + 1]
          BY <1>1
        <4> QED
          BY <2>2, <4>1
      <3> QED
        BY <3>1, <2>2, <1>1, <1>3, <1>4
    <2> QED
      BY <2>1, <2>2
  <1>6. ASSUME ~Head(a).ok
        PROVE  Results(a) = 0
    <2>1. Len(a) = 1
      BY <1>1, <1>6
    <2> QED
      BY <2>1, <1>1, <1>4, <1>6
  <1> QED
    BY <1>1, <1>2, <1>5, <1>6 DEF b

-----------------------------------------------------------------------------
(* Steps the write log does not see, or sees as starting over.               *)

LEMMA AnswersType ==
  ASSUME IInv
  PROVE  /\ net.call.answers \in Seq(Answer) /\ net.call.sent \in Seq(Batch)
         /\ user \in Users /\ net \in Nets /\ net.call \in Calls
         /\ Results(net.call.answers) \in Nat
  <1>1. /\ net.call.answers \in Seq(Answer) /\ net.call.sent \in Seq(Batch)
        /\ user \in Users /\ net \in Nets /\ net.call \in Calls
    BY BaseFacts DEF IInv, Nets, Calls
  <1> DEFINE a == net.call.answers
  <1>2. IsFiniteSet(1..Len(a)) /\ {i \in 1..Len(a) : a[i].ok} \in SUBSET (1..Len(a))
    BY <1>1, FS_Interval
  <1>3. Results(a) \in Nat
    BY <1>2, FS_Subset, FS_CardinalityType DEF Results
  <1> QED
    BY <1>1, <1>3

\* A stream that is not open has no answers.
LEMMA DownAnswers ==
  ASSUME IInv, net.state # "Open"
  PROVE  net.call.answers = <<>>
  BY NoCallType DEF IInv, NetInv, StreamOK

\* Nothing is stored, applied or told, and the call is as it was or gone.
Unseen ==
  /\ UNCHANGED <<queue, applied, heard>>
  /\ \/ net'.call.answers = <<>>
     \/ net'.call.answers = net.call.answers /\ user' = user

LogStep == [Log!Next]_(Log!logVars)

LEMMA UnseenLog ==
  ASSUME RInv, Unseen
  PROVE  LogStep /\ LastInv' /\ Untouched' = Untouched
  <1>1. UNCHANGED <<queue, applied, heard>> /\ Pending' = Pending
    BY DEF Unseen, Pending
  <1>2. Untouched' = Untouched
    BY <1>1 DEF Untouched
  <1>3. user \in Users /\ Results(net.call.answers) \in Nat
    BY AnswersType DEF RInv
  <1>4. CASE net'.call.answers = net.call.answers /\ user' = user
    <2>1. Ahead' = Ahead
      BY <1>4 DEF Ahead
    <2>2. LogStep
      BY <1>1, <2>1 DEF LogStep, Log!logVars
    <2>3. LastInv'
      BY <1>4 DEF LastInv, RInv
    <2> QED
      BY <1>2, <2>2, <2>3
  <1>5. CASE net'.call.answers = <<>>
    <2>1. Ahead' = [u \in Users |-> 0]
      BY <1>5, ResultsNone DEF Ahead
    <2>2. LastInv'
      BY <1>5 DEF LastInv
    <2>3. CASE Results(net.call.answers) = 0
      <3>1. Ahead = [u \in Users |-> 0]
        BY <2>3 DEF Ahead
      <3> QED
        BY <1>1, <1>2, <2>1, <2>2, <3>1 DEF LogStep, Log!logVars
    <2>4. CASE Results(net.call.answers) # 0
      <3>1. Ahead[user] # 0 /\ Ahead' = [Ahead EXCEPT ![user] = 0]
        BY <1>3, <2>1, <2>4 DEF Ahead
      <3>2. Log!StartOver(user)
        BY <1>1, <3>1 DEF Log!StartOver
      <3> QED
        BY <1>2, <1>3, <2>2, <3>2 DEF LogStep, Log!Next
    <2> QED
      BY <2>3, <2>4
  <1> QED
    BY <1>4, <1>5 DEF Unseen

\* The worker queue's writes stay fresh when it loses tasks.
LEMMA FreshTail ==
  ASSUME IInv, FreshInv, UNCHANGED authors, Untouched \subseteq Untouched',
         \/ worker' = worker \/ worker' = <<>>
         \/ worker # <<>> /\ worker' = Tail(worker)
  PROVE  FreshInv'
  <1>1. \A w \in Writes : w > Len(authors') => w \in Untouched'
    BY DEF FreshInv
  <1>2. CASE worker' = worker
    BY <1>1, <1>2 DEF FreshInv
  <1>3. CASE worker' = <<>>
    BY <1>1, <1>3 DEF FreshInv
  <1>4. CASE worker # <<>> /\ worker' = Tail(worker)
    <2>1. worker \in Seq(Task)
      BY DEF IInv, BaseInv
    <2>2. /\ Len(worker') = Len(worker) - 1 /\ Len(worker) \in Nat
          /\ \A i \in 1..Len(worker') : worker'[i] = worker[i + 1] /\ i + 1 \in 1..Len(worker)
      BY <1>4, <2>1
    <2>3. \A i \in 1..Len(worker') : worker'[i].run = "write" => worker'[i].write \in Untouched'
      BY <2>2 DEF FreshInv
    <2>4. \A i, j \in 1..Len(worker') :
            worker'[i].run = "write" /\ worker'[j].run = "write" /\ i # j =>
              worker'[i].write # worker'[j].write
      <3>1. ASSUME NEW i \in 1..Len(worker'), NEW j \in 1..Len(worker'), i # j,
                   worker'[i].run = "write", worker'[j].run = "write"
            PROVE  worker'[i].write # worker'[j].write
        <4>1. /\ worker'[i] = worker[i + 1] /\ worker'[j] = worker[j + 1]
              /\ i + 1 \in 1..Len(worker) /\ j + 1 \in 1..Len(worker) /\ i + 1 # j + 1
          BY <2>2, <3>1
        <4> QED
          BY <3>1, <4>1 DEF FreshInv
      <3> QED
        BY <3>1
    <2> QED
      BY <1>1, <2>3, <2>4 DEF FreshInv
  <1> QED
    BY <1>2, <1>3, <1>4

\* ... and when it gets one that is no write.
LEMMA FreshAppend ==
  ASSUME IInv, FreshInv, UNCHANGED authors, Untouched \subseteq Untouched',
         NEW x \in Task, x.run # "write", worker' = Append(worker, x)
  PROVE  FreshInv'
  <1>1. worker \in Seq(Task)
    BY DEF IInv, BaseInv
  <1>2. /\ Len(worker') = Len(worker) + 1 /\ Len(worker) \in Nat
        /\ worker'[Len(worker) + 1] = x
        /\ \A i \in 1..Len(worker) : worker'[i] = worker[i]
    BY <1>1
  <1>3. \A i \in 1..Len(worker') : worker'[i].run = "write" =>
          i \in 1..Len(worker) /\ worker'[i] = worker[i]
    BY <1>2
  <1>4. \A i \in 1..Len(worker') : worker'[i].run = "write" => worker'[i].write \in Untouched'
    BY <1>3 DEF FreshInv
  <1>5. \A i, j \in 1..Len(worker') :
          worker'[i].run = "write" /\ worker'[j].run = "write" /\ i # j =>
            worker'[i].write # worker'[j].write
    BY <1>3 DEF FreshInv
  <1> QED
    BY <1>4, <1>5 DEF FreshInv

\* Steps that run at most the first task of the worker queue.
LEMMA UnseenSteps ==
  ASSUME RInv, IInv', UNCHANGED <<queue, applied, heard>>, UNCHANGED authors,
         net'.call.answers = <<>> \/ (net'.call.answers = net.call.answers /\ user' = user),
         \/ worker' = worker \/ worker' = <<>>
         \/ worker # <<>> /\ worker' = Tail(worker)
  PROVE  RInv' /\ LogStep
  <1>1. Unseen
    BY DEF Unseen
  <1>2. LogStep /\ LastInv' /\ Untouched' = Untouched
    BY <1>1, UnseenLog
  <1>3. FreshInv'
    BY <1>2, FreshTail DEF RInv
  <1> QED
    BY <1>2, <1>3 DEF RInv

LEMMA AskedSameCall ==
  ASSUME net \in Nets, NEW A, net' = [net EXCEPT !.asked = A]
  PROVE  net'.call.answers = net.call.answers
  BY DEF Nets

LEMMA AuthLog ==
  ASSUME RInv, IInv', AuthNext
  PROVE  RInv' /\ LogStep
  <1>1. UNCHANGED <<worker, user, queue, authors, applied, heard>>
    BY DEF AuthNext, ChangeUser, ReadUser, PostToken, storeVars
  <1>2. net' = net \/ \E A : net' = [net EXCEPT !.asked = A]
    BY DEF AuthNext, ChangeUser, ReadUser, PostToken
  <1>3. net'.call.answers = net.call.answers
    BY <1>2, AskedSameCall, AnswersType DEF RInv
  <1> QED
    BY <1>1, <1>3, UnseenSteps

LEMMA NotifyLog ==
  ASSUME RInv, IInv', RunNotify
  PROVE  RInv' /\ LogStep
  <1> DEFINE x == [run |-> "change", user |-> Head(main).user]
  <1>1. UNCHANGED <<user, queue, authors, applied, heard, net>>
        /\ worker' = Append(worker, x) /\ main # <<>> /\ Head(main).run = "notify"
    BY DEF RunNotify, RunsMain, storeVars
  <1>2. Unseen
    BY <1>1 DEF Unseen
  <1>3. LogStep /\ LastInv' /\ Untouched' = Untouched
    BY <1>2, UnseenLog
  <1>4. x \in Task /\ x.run # "write"
    BY <1>1, MainTypes, BlockTypes DEF Task, RInv
  <1> HIDE DEF x
  <1>5. FreshInv'
    BY <1>1, <1>3, <1>4, FreshAppend DEF RInv
  <1> QED
    BY <1>3, <1>5 DEF RInv

LEMMA TokenLog ==
  ASSUME RInv, IInv', RunToken
  PROVE  RInv' /\ LogStep
  <1> DEFINE t == Head(main)
             x == [run |-> "token", user |-> t.user, ok |-> t.ok, closes |-> t.closes]
  <1>1. UNCHANGED <<user, queue, authors, applied, heard>>
        /\ main # <<>> /\ t.run = "token"
    BY DEF RunToken, RunsMain, storeVars
  <1>2. \/ worker' = worker /\ \E A : net' = [net EXCEPT !.asked = A]
        \/ worker' = Append(worker, x) /\ net' = net
    BY DEF RunToken
  <1>3. CASE worker' = worker /\ \E A : net' = [net EXCEPT !.asked = A]
    <2>1. net'.call.answers = net.call.answers
      BY <1>3, AskedSameCall, AnswersType DEF RInv
    <2> QED
      BY <1>1, <1>3, <2>1, UnseenSteps
  <1>4. CASE worker' = Append(worker, x) /\ net' = net
    <2>1. Unseen
      BY <1>1, <1>4 DEF Unseen
    <2>2. LogStep /\ LastInv' /\ Untouched' = Untouched
      BY <2>1, UnseenLog
    <2>3. x \in Task /\ x.run # "write"
      <3>1. t.user \in Users /\ t.closes \in Nat /\ t.ok \in BOOLEAN
        BY <1>1, MainTypes, BlockTypes DEF RInv
      <3>2. x \in [run : {"token"}, user : Users, ok : BOOLEAN, closes : Nat]
        BY <3>1
      <3> QED
        BY <3>2 DEF Task
    <2> HIDE DEF x
    <2>4. FreshInv'
      BY <1>1, <1>4, <2>2, <2>3, FreshAppend DEF RInv
    <2> QED
      BY <2>2, <2>4 DEF RInv
  <1> QED
    BY <1>2, <1>3, <1>4

\* The write the app makes is one it has not made before.
LEMMA MakeWriteLog ==
  ASSUME RInv, IInv', MakeWrite
  PROVE  RInv' /\ LogStep
  <1> DEFINE n == Len(authors) + 1
             x == [run |-> "write", write |-> n]
  <1>1. UNCHANGED <<user, queue, applied, heard, net>>
        /\ Len(authors) < MaxWrites /\ worker' = Append(worker, x)
        /\ authors' = Append(authors, provider.user)
    BY DEF MakeWrite, storeVars
  <1>2. Unseen
    BY <1>1 DEF Unseen
  <1>3. LogStep /\ LastInv' /\ Untouched' = Untouched
    BY <1>2, UnseenLog
  <1>4. authors \in Seq(Users) /\ Len(authors) \in Nat /\ MaxWrites \in Nat
        /\ worker \in Seq(Task) /\ Len(authors') = n
    BY <1>1, BoundsAssumption DEF RInv, IInv, BaseInv
  <1>5. n \in Writes /\ n > Len(authors) /\ n \in Untouched
    BY <1>1, <1>4 DEF Writes, RInv, FreshInv
  <1>6. x.run = "write" /\ x.write = n
    OBVIOUS
  <1> HIDE DEF x
  <1>7. /\ Len(worker') = Len(worker) + 1 /\ Len(worker) \in Nat
        /\ worker'[Len(worker) + 1] = x
        /\ \A i \in 1..Len(worker) : worker'[i] = worker[i]
    BY <1>1, <1>4
  <1>8. \A i \in 1..Len(worker) : worker[i].run = "write" => worker[i].write \in 1..Len(authors)
    BY DEF RInv, IInv, OwnerInv
  <1>9. \A i \in 1..Len(worker') : \/ worker'[i] = x /\ i = Len(worker) + 1
                                   \/ i \in 1..Len(worker) /\ worker'[i] = worker[i]
    BY <1>7
  <1>10. n \notin 1..Len(authors)
    BY <1>4
  <1>11. FreshInv'
    <2>1. \A i \in 1..Len(worker') : worker'[i].run = "write" => worker'[i].write \in Untouched'
      BY <1>3, <1>5, <1>6, <1>9 DEF RInv, FreshInv
    <2>2. \A i, j \in 1..Len(worker') :
            worker'[i].run = "write" /\ worker'[j].run = "write" /\ i # j =>
              worker'[i].write # worker'[j].write
      <3> HIDE DEF n
      <3>1. ASSUME NEW i \in 1..Len(worker'), NEW j \in 1..Len(worker'), i # j,
                   worker'[i].run = "write", worker'[j].run = "write"
            PROVE  worker'[i].write # worker'[j].write
        <4>1. CASE worker'[i] = x /\ i = Len(worker) + 1
          BY <1>6, <1>8, <1>9, <1>10, <3>1, <4>1
        <4>2. CASE worker'[j] = x /\ j = Len(worker) + 1
          BY <1>6, <1>8, <1>9, <1>10, <3>1, <4>2
        <4>3. CASE /\ i \in 1..Len(worker) /\ worker'[i] = worker[i]
                   /\ j \in 1..Len(worker) /\ worker'[j] = worker[j]
          BY <3>1, <4>3 DEF RInv, FreshInv
        <4> QED
          BY <1>9, <4>1, <4>2, <4>3
      <3> QED
        BY <3>1
    <2>3. \A w \in Writes : w > Len(authors') => w \in Untouched'
      BY <1>3, <1>4 DEF Writes, RInv, FreshInv
    <2> QED
      BY <2>1, <2>2, <2>3 DEF FreshInv
  <1> QED
    BY <1>3, <1>11 DEF RInv

LEMMA ChangeLog ==
  ASSUME RInv, IInv', RunChange
  PROVE  RInv' /\ LogStep
  <1>1. /\ worker # <<>> /\ Head(worker).run = "change" /\ worker' = Tail(worker)
        /\ user' = Head(worker).user
        /\ net' = Restarted(net, queue[user'], provider.counter)
        /\ UNCHANGED <<queue, authors, applied, heard>>
    BY DEF RunChange, Runs
  <1>2. user' \in Users
    BY DEF IInv, BaseInv
  <1>3. net'.state # "Open"
    BY <1>1, <1>2, ChangeNet DEF RInv, IInv
  <1>4. net'.call.answers = <<>>
    BY <1>3, NoCallType DEF IInv, NetInv, StreamOK
  <1> QED
    BY <1>1, <1>4, UnseenSteps

LEMMA GrantedLog ==
  ASSUME RInv, IInv', RunGranted
  PROVE  RInv' /\ LogStep
  <1> DEFINE t == Head(worker)
  <1>1. worker # <<>> /\ worker' = Tail(worker)
        /\ UNCHANGED <<user, queue, authors, applied, heard>>
    BY DEF RunGranted, Runs, storeVars
  <1>2. \/ net' = net
        \/ net' = Broken(net, provider.counter)
        \/ net' = [net EXCEPT !.state = "Open", !.call.as = t.user]
    BY DEF RunGranted
  <1>3. net \in Nets /\ StreamOK(net, queue[user], user) /\ provider.counter \in Nat
        /\ net.call \in Calls
    BY BaseFacts DEF RInv, IInv, NetInv, Nets
  <1>4. net'.call.answers = <<>> \/ net'.call.answers = net.call.answers
    <2>1. CASE net' = Broken(net, provider.counter)
      <3>1. net'.state # "Open"
        BY <1>3, <2>1, BrokenKeeps
      <3> QED
        BY <3>1, NoCallType DEF IInv, NetInv, StreamOK
    <2>2. CASE net' = [net EXCEPT !.state = "Open", !.call.as = t.user]
      BY <1>3, <2>2 DEF Nets, Calls
    <2> QED
      BY <1>2, <2>1, <2>2
  <1> QED
    BY <1>1, <1>4, UnseenSteps

LEMMA TimerLog ==
  ASSUME RInv, IInv', BackoffElapses \/ IdleElapses \/ HandshakeDone
  PROVE  RInv' /\ LogStep
  <1>1. UNCHANGED <<worker, user, queue, authors, applied, heard>>
    BY DEF BackoffElapses, IdleElapses, HandshakeDone, storeVars
  <1>2. net \in Nets /\ net.call \in Calls /\ net.closes \in Nat
    BY AnswersType DEF RInv, Nets
  <1>3. CASE BackoffElapses
    <2>1. net'.state # "Open"
      BY <1>2, <1>3 DEF BackoffElapses, Start, Nets
    <2>2. net'.call.answers = <<>>
      BY <2>1, NoCallType DEF IInv, NetInv, StreamOK
    <2> QED
      BY <1>1, <2>2, UnseenSteps
  <1>4. CASE IdleElapses
    <2>1. net'.state # "Open"
      <3>1. Closed(net, "Initial") \in Nets /\ Closed(net, "Initial").state = "Initial"
        BY <1>2, ClosedFacts DEF States
      <3>2. net' = [Closed(net, "Initial") EXCEPT !.shook = FALSE]
        BY <1>4 DEF IdleElapses
      <3> QED
        BY <3>1, <3>2 DEF Nets
    <2>2. net'.call.answers = <<>>
      BY <2>1, NoCallType DEF IInv, NetInv, StreamOK
    <2> QED
      BY <1>1, <2>2, UnseenSteps
  <1>5. CASE HandshakeDone
    <2>1. net'.call.answers = net.call.answers
      BY <1>2, <1>5 DEF HandshakeDone, Nets, Calls
    <2> QED
      BY <1>1, <2>1, UnseenSteps
  <1> QED
    BY <1>3, <1>4, <1>5

LEMMA FaultLog ==
  ASSUME RInv, IInv', StreamBreaks \/ ConnectivityChanges
  PROVE  RInv' /\ LogStep
  <1>1. UNCHANGED <<worker, user, queue, authors, applied, heard>>
    BY DEF StreamBreaks, ConnectivityChanges, storeVars
  <1>2. net \in Nets /\ StreamOK(net, queue[user], user) /\ provider.counter \in Nat
        /\ user \in Users
    BY BaseFacts DEF RInv, IInv, NetInv
  <1>3. net'.state # "Open"
    <2>1. CASE StreamBreaks
      BY <1>2, <2>1, BrokenKeeps DEF StreamBreaks
    <2>2. CASE ConnectivityChanges
      <3>1. user' = user /\ UNCHANGED queue
            /\ net' = Restarted(net, queue[user'], provider.counter)
        BY <1>1, <2>2 DEF ConnectivityChanges
      <3> QED
        BY <3>1, <1>2, ChangeNet DEF RInv, IInv
    <2> QED
      BY <2>1, <2>2
  <1>4. net'.call.answers = <<>>
    BY <1>3, NoCallType DEF IInv, NetInv, StreamOK
  <1> QED
    BY <1>1, <1>4, UnseenSteps

LEMMA RestartLog ==
  ASSUME RInv, IInv', Restart
  PROVE  RInv' /\ LogStep
  <1>1. /\ worker' = <<>> /\ net' = Fill(NewNet, queue[user'], 0)
        /\ UNCHANGED <<queue, authors, applied, heard>>
    BY DEF Restart
  <1>2. user' \in Users
    BY DEF IInv, BaseInv
  <1>3. queue[user'] \in Seq(Batch) /\ Increasing(queue[user'])
    BY <1>2 DEF RInv, IInv, BaseInv, StoreInv
  <1>4. NewNet \in Nets /\ StreamOK(NewNet, queue[user'], user') /\ NewNet.state = "Initial"
    BY <1>3, NewNetOK
  <1>5. net'.state # "Open"
    BY <1>1, <1>3, <1>4, FillKeeps DEF Filled
  <1>6. net'.call.answers = <<>>
    BY <1>5, NoCallType DEF IInv, NetInv, StreamOK
  <1> QED
    BY <1>1, <1>6, UnseenSteps

-----------------------------------------------------------------------------
(* Steps of the write log.                                                   *)

\* The server takes up the next write of the user.
LEMMA ServerLog ==
  ASSUME RInv, IInv', ServerApplies \/ ServerRefuses
  PROVE  RInv' /\ LogStep
  <1> DEFINE a == net.call.answers
             b == Head(net.call.sent)
             q == queue[user]
  <1>1. /\ net.call.sent # <<>> /\ ~Refused
        /\ UNCHANGED <<worker, user, queue, authors, heard>>
    BY DEF ServerApplies, ServerRefuses, storeVars
  <1>2. /\ a \in Seq(Answer) /\ net.call.sent \in Seq(Batch) /\ user \in Users
        /\ net \in Nets /\ net.call \in Calls /\ q \in Seq(Batch) /\ b \in Batch
    BY <1>1, AnswersType, BaseFacts DEF RInv, IInv
  <1>3. \A i \in 1..Len(a) : a[i].ok
    BY <1>1 DEF Refused
  <1>4. /\ Len(a) < Len(q) /\ Len(a) \in Nat /\ q[Len(a) + 1] = b
    <2>1. net.shook /\ OnStream(net.call) = net.pipeline /\ Begins(net.pipeline, q)
      BY <1>1 DEF RInv, IInv, NetInv, StreamOK
    <2>2. Answered(net.call) \in Seq(Batch) /\ Len(Answered(net.call)) = Len(a)
          /\ OnStream(net.call) = Answered(net.call) \o net.call.sent
      BY <1>2, AnsweredType
    <2>3. Len(net.pipeline) > Len(a) /\ net.pipeline[Len(a) + 1] = b
          /\ Len(a) \in Nat /\ Len(net.pipeline) \in Nat
      <3> DEFINE s == Answered(net.call)
                 t == net.call.sent
                 p == net.pipeline
                 k == Len(a)
      <3>1. s \in Seq(Batch) /\ t \in Seq(Batch) /\ t # <<>> /\ p = s \o t
            /\ Len(s) = k /\ b = Head(t)
        BY <1>1, <1>2, <2>1, <2>2
      <3> HIDE DEF s, t, p, k, b
      <3>2. Len(p) > k /\ p[k + 1] = b /\ k \in Nat /\ Len(p) \in Nat
        BY <3>1
      <3> QED
        BY <3>2 DEF k, p
    <2> DEFINE p == net.pipeline
               k == Len(a)
    <2>4. p = SubSeq(q, 1, Len(p)) /\ Len(p) <= Len(q) /\ Len(p) > k /\ p[k + 1] = b
          /\ k \in Nat /\ Len(p) \in Nat /\ q \in Seq(Batch)
      BY <1>2, <2>1, <2>3 DEF Begins
    <2> HIDE DEF p, k, b, q
    <2>5. k < Len(q) /\ k \in Nat /\ q[k + 1] = b
      BY <2>4
    <2> QED
      BY <2>5 DEF k
  <1> HIDE DEF a, b, q
  <1>5. Results(a) = Len(a)
    <2>1. \A i \in 1..Len(a) - 1 : a[i].ok
      BY <1>2, <1>3
    <2>2. ~\E i \in 1..Len(a) : ~a[i].ok
      BY <1>3
    <2> QED
      BY <1>2, <2>1, <2>2, ResultsCount
  <1>6. Pending' = Pending
    BY <1>1 DEF Pending
  <1>7. CASE ServerApplies
    <2>1. /\ applied' = applied \cup {b.write}
          /\ net' = [net EXCEPT !.call.sent = Tail(@), !.call.answers = Append(@, Result(b))]
      BY <1>7 DEF ServerApplies, b
    <2>2. net'.call.answers = Append(a, Result(b))
      BY <1>2, <2>1 DEF Nets, Calls, a
    <2>3. Result(b) \in Answer /\ Result(b).ok
      BY <1>2 DEF Result, Answer
    <2>4. LastInv' /\ Results(net'.call.answers) = Len(a) + 1
      <3>1. /\ \A i \in 1..Len(Append(a, Result(b))) - 1 : Append(a, Result(b))[i].ok
            /\ Results(Append(a, Result(b))) = Len(a) + 1
        BY <1>2, <1>3, <2>3, ResultsAppend
      <3> QED
        BY <2>2, <3>1 DEF LastInv
    <2>5. /\ Ahead[user] = Len(a) /\ \A v \in Users \ {user} : Ahead[v] = 0
          /\ Ahead' = [Ahead EXCEPT ![user] = @ + 1]
      BY <1>1, <1>2, <1>5, <2>4 DEF Ahead, a
    <2>6. /\ Len(Pending[user]) = Len(q)
          /\ Pending[user][Ahead[user] + 1] = b.write
      BY <1>2, <1>4, <2>5 DEF Pending, q
    <2>7. Log!Apply(user)
      BY <1>1, <1>4, <1>6, <2>1, <2>5, <2>6 DEF Log!Apply
    <2>8. Untouched' = Untouched
      <3>1. Len(a) + 1 \in 1..Len(q) /\ q[Len(a) + 1].write = b.write
        BY <1>2, <1>4
      <3>2. b.write \notin Untouched
        BY <1>2, <3>1 DEF Untouched, q
      <3> QED
        BY <1>1, <2>1, <3>1, <3>2, <1>2 DEF Untouched, q
    <2>9. FreshInv'
      BY <1>1, <2>8, FreshTail DEF RInv
    <2> QED
      BY <1>2, <2>4, <2>7, <2>9 DEF LogStep, Log!Next, RInv
  <1>8. CASE ServerRefuses
    <2>1. /\ applied' = applied
          /\ net' = [net EXCEPT !.call.sent = Tail(@), !.call.answers = Append(@, Refusal(b))]
      BY <1>8 DEF ServerRefuses, b
    <2>2. net'.call.answers = Append(a, Refusal(b))
      BY <1>2, <2>1 DEF Nets, Calls, a
    <2>3. Refusal(b) \in Answer /\ ~Refusal(b).ok
      BY <1>2 DEF Refusal, Answer
    <2>4. LastInv' /\ Results(net'.call.answers) = Len(a)
      <3>1. /\ \A i \in 1..Len(Append(a, Refusal(b))) - 1 : Append(a, Refusal(b))[i].ok
            /\ Results(Append(a, Refusal(b))) = Len(a)
        BY <1>2, <1>3, <2>3, ResultsAppend
      <3> QED
        BY <2>2, <3>1 DEF LastInv
    <2>5. Ahead' = Ahead
      BY <1>1, <1>5, <2>4 DEF Ahead, a
    <2>6. Untouched' = Untouched
      BY <1>1, <2>1 DEF Untouched
    <2>7. FreshInv'
      BY <1>1, <2>6, FreshTail DEF RInv
    <2> QED
      BY <1>1, <1>6, <2>1, <2>4, <2>5, <2>7 DEF LogStep, Log!logVars, RInv
  <1> QED
    BY <1>7, <1>8

WritesOf(q) == [i \in 1..Len(q) |-> q[i].write]

LEMMA WritesOfType ==
  ASSUME NEW q \in Seq(Batch)
  PROVE  WritesOf(q) \in Seq(Writes) /\ Len(WritesOf(q)) = Len(q)
         /\ \A i \in 1..Len(q) : WritesOf(q)[i] = q[i].write
  BY BatchTypes DEF WritesOf

LEMMA WritesOfAppend ==
  ASSUME NEW q \in Seq(Batch), NEW b \in Batch
  PROVE  WritesOf(Append(q, b)) = Append(WritesOf(q), b.write)
  <1> DEFINE s == WritesOf(Append(q, b))
             t == Append(WritesOf(q), b.write)
  <1>1. b.write \in Writes /\ Append(q, b) \in Seq(Batch) /\ Len(Append(q, b)) = Len(q) + 1
        /\ Len(q) \in Nat
    BY DEF Batch
  <1>2. s \in Seq(Writes) /\ Len(s) = Len(q) + 1
        /\ \A i \in 1..Len(q) + 1 : s[i] = Append(q, b)[i].write
    BY <1>1, WritesOfType
  <1>3. t \in Seq(Writes) /\ Len(t) = Len(q) + 1 /\ t[Len(q) + 1] = b.write
        /\ \A i \in 1..Len(q) : t[i] = q[i].write
    BY <1>1, WritesOfType
  <1>4. \A i \in 1..Len(q) + 1 : s[i] = t[i]
    <2>1. /\ \A i \in 1..Len(q) : Append(q, b)[i] = q[i]
          /\ Append(q, b)[Len(q) + 1] = b
      OBVIOUS
    <2> HIDE DEF s, t
    <2> QED
      BY <1>1, <1>2, <1>3, <2>1
  <1> HIDE DEF s, t
  <1>5. s = t
    BY <1>2, <1>3, <1>4, SeqEqual
  <1> QED
    BY <1>5 DEF s, t

LEMMA WritesOfTail ==
  ASSUME NEW q \in Seq(Batch), q # <<>>
  PROVE  /\ WritesOf(Tail(q)) = Tail(WritesOf(q))
         /\ WritesOf(q) # <<>> /\ Head(WritesOf(q)) = Head(q).write
  <1> DEFINE w == WritesOf(q)
             s == WritesOf(Tail(q))
             t == Tail(w)
  <1>1. /\ Tail(q) \in Seq(Batch) /\ Len(Tail(q)) = Len(q) - 1 /\ Len(q) \in Nat
        /\ Len(q) >= 1 /\ Head(q) = q[1]
        /\ \A i \in 1..Len(q) - 1 : Tail(q)[i] = q[i + 1]
    OBVIOUS
  <1>2. w \in Seq(Writes) /\ Len(w) = Len(q) /\ \A i \in 1..Len(q) : w[i] = q[i].write
    BY WritesOfType
  <1>3. s \in Seq(Writes) /\ Len(s) = Len(q) - 1
        /\ \A i \in 1..Len(q) - 1 : s[i] = q[i + 1].write
    <2> DEFINE r == Tail(q)
    <2>1. /\ r \in Seq(Batch) /\ Len(r) = Len(q) - 1 /\ s = WritesOf(r)
          /\ \A i \in 1..Len(q) - 1 : r[i] = q[i + 1]
      BY <1>1
    <2> HIDE DEF r, s
    <2>2. s \in Seq(Writes) /\ Len(s) = Len(r) /\ \A i \in 1..Len(r) : s[i] = r[i].write
      BY <2>1, WritesOfType
    <2> QED
      BY <2>1, <2>2
  <1> HIDE DEF w, s
  <1>4. w # <<>> /\ Head(w) = w[1] /\ t \in Seq(Writes) /\ Len(t) = Len(q) - 1
        /\ \A i \in 1..Len(q) - 1 : t[i] = w[i + 1]
    BY <1>1, <1>2
  <1> HIDE DEF t
  <1>5. \A i \in 1..Len(q) - 1 : s[i] = t[i]
    BY <1>1, <1>2, <1>3, <1>4
  <1>6. s = t
    BY <1>1, <1>3, <1>4, <1>5, SeqEqual
  <1> QED
    BY <1>1, <1>2, <1>4, <1>6 DEF w, s, t

LEMMA PendingIs ==
  /\ Pending = [u \in Users |-> WritesOf(queue[u])]
  /\ Pending' = [u \in Users |-> WritesOf(queue'[u])]
  BY DEF Pending, WritesOf

\* The worker queue stores the next write.
LEMMA StoreLog ==
  ASSUME RInv, IInv', RunWrite
  PROVE  RInv' /\ LogStep
  <1> DEFINE w == Head(worker).write
  <1>1. /\ worker # <<>> /\ Head(worker).run = "write" /\ worker' = Tail(worker)
        /\ net' = Fill(net, queue'[user], provider.counter)
        /\ UNCHANGED <<auth, main, provider, user, failed, authors, applied, heard, events>>
    BY DEF RunWrite, Runs
  <1>2. user = Owner(Head(worker)) /\ w \in 1..Len(authors)
    BY <1>1, OwnerTail DEF RInv, IInv
  <1>3. authors[w] = user
    BY <1>1, <1>2 DEF Owner
  <1>4. PICK b \in Batch : queue' = [queue EXCEPT ![user] = Append(queue[user], b)]
                           /\ b.write = w
    BY <1>2, <1>3, StoreKeeps DEF RInv, IInv
  <1>5. queue' \in [Users -> Seq(Batch)] /\ StoreInv'
    BY DEF IInv, BaseInv
  <1>6. net'.call.answers = net.call.answers
    BY <1>1, <1>4, <1>5, WriteNet DEF RInv, IInv
  <1>7. /\ user \in Users /\ queue[user] \in Seq(Batch) /\ worker \in Seq(Task)
        /\ queue \in [Users -> Seq(Batch)] /\ w \in Writes
    BY <1>4, BaseFacts DEF RInv, IInv, BaseInv, Batch
  <1>8. worker[1] = Head(worker) /\ 1 \in 1..Len(worker)
    BY <1>1, <1>7
  <1>9. w \in Untouched
    BY <1>1, <1>8 DEF RInv, FreshInv
  <1> HIDE DEF w
  <1>10. Ahead' = Ahead
    BY <1>1, <1>6 DEF Ahead
  <1>11. Pending' = [Pending EXCEPT ![user] = Append(@, w)]
    <2>1. WritesOf(queue'[user]) = Append(WritesOf(queue[user]), w)
      BY <1>4, <1>7, WritesOfAppend
    <2>2. \A u \in Users : u # user => queue'[u] = queue[u]
      BY <1>4, <1>7
    <2> QED
      BY <1>7, <2>1, <2>2, PendingIs
  <1>12. \A v \in Users : \A i \in 1..Len(Pending[v]) : Pending[v][i] # w
    <2>1. ASSUME NEW v \in Users, NEW i \in 1..Len(Pending[v])
          PROVE  Pending[v][i] # w
      <3>1. Pending[v] = WritesOf(queue[v]) /\ queue[v] \in Seq(Batch)
        BY <1>7, PendingIs
      <3>2. i \in 1..Len(queue[v]) /\ Pending[v][i] = queue[v][i].write
        BY <3>1, WritesOfType
      <3> QED
        BY <1>9, <3>2 DEF Untouched
    <2> QED
      BY <2>1
  <1>13. Log!Make(user, w)
    BY <1>1, <1>9, <1>10, <1>11, <1>12 DEF Log!Make, Untouched
  <1>14. \A x \in Untouched : x # w => x \in Untouched'
    <2>1. ASSUME NEW x \in Untouched, x # w, NEW u \in Users, NEW i \in 1..Len(queue'[u])
          PROVE  queue'[u][i].write # x
      <3>1. CASE u = user
        <4>1. queue'[u] = Append(queue[user], b)
          BY <1>4, <1>7, <3>1
        <4>2. queue'[u][i] = b \/ (i \in 1..Len(queue[user]) /\ queue'[u][i] = queue[user][i])
          BY <1>7, <4>1
        <4> QED
          BY <1>4, <1>7, <2>1, <4>2 DEF Untouched
      <3>2. CASE u # user
        <4>1. queue'[u] = queue[u]
          BY <1>4, <1>7, <3>2
        <4> QED
          BY <4>1, <2>1 DEF Untouched
      <3> QED
        BY <3>1, <3>2
    <2> QED
      BY <2>1, <1>1 DEF Untouched
  <1>15. FreshInv'
    <2>1. /\ Len(worker') = Len(worker) - 1 /\ Len(worker) \in Nat
          /\ \A i \in 1..Len(worker') : /\ worker'[i] = worker[i + 1]
                                        /\ i + 1 \in 1..Len(worker) /\ i + 1 # 1
      BY <1>1, <1>7
    <2>2. \A i \in 1..Len(worker') : worker'[i].run = "write" => worker'[i].write # w
      BY <1>1, <1>8, <2>1 DEF RInv, FreshInv, w
    <2>3. \A i \in 1..Len(worker') : worker'[i].run = "write" => worker'[i].write \in Untouched'
      BY <1>14, <2>1, <2>2 DEF RInv, FreshInv
    <2>4. \A i, j \in 1..Len(worker') :
            worker'[i].run = "write" /\ worker'[j].run = "write" /\ i # j =>
              worker'[i].write # worker'[j].write
      <3>1. ASSUME NEW i \in 1..Len(worker'), NEW j \in 1..Len(worker'), i # j,
                   worker'[i].run = "write", worker'[j].run = "write"
            PROVE  worker'[i].write # worker'[j].write
        <4>1. /\ worker'[i] = worker[i + 1] /\ worker'[j] = worker[j + 1]
              /\ i + 1 \in 1..Len(worker) /\ j + 1 \in 1..Len(worker) /\ i + 1 # j + 1
          BY <2>1, <3>1
        <4> QED
          BY <3>1, <4>1 DEF RInv, FreshInv
      <3> QED
        BY <3>1
    <2>5. ASSUME NEW x \in Writes, x > Len(authors')
          PROVE  x \in Untouched'
      <3>1. x \in Untouched /\ x # w
        BY <1>1, <1>2, <2>5 DEF RInv, FreshInv, Writes, w
      <3> QED
        BY <1>14, <3>1
    <2> QED
      BY <2>3, <2>4, <2>5 DEF FreshInv
  <1>16. LastInv'
    BY <1>6 DEF LastInv, RInv
  <1> QED
    BY <1>7, <1>13, <1>15, <1>16 DEF LogStep, Log!Next, RInv

\* What the callback of the front batch is told is told to its write.
LEMMA TellsFront ==
  ASSUME RInv, NEW verdict, TakeFront(verdict), net.pipeline # <<>>
  PROVE  heard' \in {heard, [heard EXCEPT ![Head(queue[user]).write] = verdict]}
  <1> DEFINE q == queue[user]
             front == Head(net.pipeline)
             mine == {c \in callbacks : c[1] = user /\ c[2] = front.id}
  <1>1. heard' = [w \in Writes |-> IF \E c \in mine : c[3] = w THEN verdict ELSE heard[w]]
    BY DEF TakeFront, Notify
  <1>2. /\ q \in Seq(Batch) /\ net.pipeline \in Seq(Batch) /\ Begins(net.pipeline, q)
        /\ Increasing(q) /\ user \in Users
        /\ heard \in [Writes -> {"nothing", "ok", "refused"}]
    BY BaseFacts DEF RInv, IInv, BaseInv, NetInv, StreamOK, StoreInv, Nets
  <1>3. q # <<>> /\ front = Head(q)
    BY <1>2, FrontOfBoth
  <1>4. \A c \in mine : c[3] = Head(q).write
    <2>1. ASSUME NEW c \in mine
          PROVE  c[3] = Head(q).write
      <3>1. [id |-> c[2], write |-> c[3]] \in Batches(q) /\ c[2] = front.id
        BY <2>1 DEF RInv, IInv, StoreInv, CallbacksFindBatches
      <3>2. PICK i \in 1..Len(q) : q[i] = [id |-> c[2], write |-> c[3]]
        BY <3>1 DEF Batches
      <3>3. q[i].id = front.id /\ q[i].write = c[3]
        BY <3>1, <3>2
      <3> HIDE DEF q, front, mine
      <3>4. Head(q) = q[1] /\ 1 \in 1..Len(q) /\ q[1].id \in Nat /\ q[i].id \in Nat
        BY <1>2, <1>3, BatchTypes
      <3>5. i = 1
        <4>1. CASE 1 < i
          BY <1>2, <1>3, <3>3, <3>4, <4>1 DEF Increasing
        <4>2. CASE ~(1 < i)
          BY <4>2
        <4> QED
          BY <4>1, <4>2
      <3> QED
        BY <3>3, <3>4, <3>5
    <2> QED
      BY <2>1
  <1> DEFINE w == Head(q).write
  <1>5. w \in Writes
    <2>1. Head(q) \in Batch
      BY <1>2, <1>3
    <2> QED
      BY <2>1 DEF Batch
  <1>6. CASE mine = {}
    <2>1. heard' = [x \in Writes |-> heard[x]]
      BY <1>1, <1>6
    <2> QED
      BY <1>2, <2>1
  <1>7. CASE mine # {}
    <2> HIDE DEF mine, w
    <2>1. \A x : (\E c \in mine : c[3] = x) <=> x = w
      BY <1>4, <1>7 DEF w
    <2>2. heard' = [x \in Writes |-> IF x = w THEN verdict ELSE heard[x]]
      BY <1>1, <2>1
    <2>3. heard' = [heard EXCEPT ![w] = verdict]
      BY <1>2, <1>5, <2>2
    <2> QED
      BY <2>3 DEF w
  <1> QED
    BY <1>6, <1>7

\* The client reads an answer.
LEMMA ReadLog ==
  ASSUME RInv, IInv', ReadResult \/ ReadRefusal
  PROVE  RInv' /\ LogStep
  <1> DEFINE a == net.call.answers
             q == queue[user]
             w == Head(q).write
  <1>1. /\ a # <<>>
        /\ UNCHANGED <<worker, user, nextBatch, authors, applied>>
        /\ TakeFront("ok") \/ TakeFront("refused")
    BY DEF ReadResult, ReadRefusal
  <1>2. net.pipeline # <<>>
    BY <1>1, AnswerIsFront DEF RInv, IInv
  <1>3. /\ queue' = [queue EXCEPT ![user] = Tail(queue[user])] /\ q # <<>>
        /\ queue' \in [Users -> Seq(Batch)] /\ StoreInv'
    BY <1>1, <1>2, TakeKeeps DEF RInv, IInv
  <1>4. /\ user \in Users /\ q \in Seq(Batch) /\ queue \in [Users -> Seq(Batch)]
        /\ a \in Seq(Answer) /\ Results(a) \in Nat
        /\ heard \in [Writes -> {"nothing", "ok", "refused"}]
    BY AnswersType, BaseFacts DEF RInv, IInv, BaseInv
  <1>5. Head(q) \in Batch /\ w \in Writes
    <2>1. Head(q) \in Batch
      BY <1>3, <1>4
    <2> QED
      BY <2>1 DEF Batch
  <1>6. \A i \in 1..Len(a) - 1 : a[i].ok
    BY DEF RInv, LastInv
  <1> HIDE DEF a, w
  <1>7. Pending' = [Pending EXCEPT ![user] = Tail(@)] /\ Head(Pending[user]) = w
        /\ Pending[user] # <<>>
    <2>1. /\ WritesOf(queue'[user]) = Tail(WritesOf(q)) /\ WritesOf(q) # <<>>
          /\ Head(WritesOf(q)) = w
      BY <1>3, <1>4, WritesOfTail DEF w
    <2>2. \A u \in Users : u # user => queue'[u] = queue[u]
      BY <1>3, <1>4
    <2> QED
      BY <1>4, <2>1, <2>2, PendingIs
  <1>8. \A verdict : TakeFront(verdict) =>
          heard' \in {heard, [heard EXCEPT ![w] = verdict]}
    BY <1>2, TellsFront DEF w
  <1>9. Untouched \subseteq Untouched'
    <2>1. w \notin Untouched
      <3>1. q[1].write = w /\ 1 \in 1..Len(q)
        BY <1>3, <1>4 DEF w
      <3> QED
        BY <1>4, <3>1 DEF Untouched
    <2>2. \A x \in Writes : x # w => heard'[x] = heard[x]
      BY <1>1, <1>4, <1>8
    <2>3. ASSUME NEW x \in Untouched, NEW u \in Users, NEW i \in 1..Len(queue'[u])
          PROVE  queue'[u][i].write # x
      <3>1. CASE u = user
        <4>1. queue'[u] = Tail(q)
          BY <1>3, <1>4, <3>1
        <4>2. i + 1 \in 1..Len(q) /\ queue'[u][i] = q[i + 1]
          <5>1. q \in Seq(Batch) /\ q # <<>>
            BY <1>3, <1>4
          <5>2. i \in 1..Len(Tail(q))
            BY <4>1, <2>3
          <5> HIDE DEF q
          <5>3. i + 1 \in 1..Len(q) /\ Tail(q)[i] = q[i + 1]
            BY <5>1, <5>2
          <5> QED
            BY <4>1, <5>3
        <4> QED
          BY <1>4, <2>3, <4>2 DEF Untouched
      <3>2. CASE u # user
        <4>1. queue'[u] = queue[u]
          BY <1>3, <1>4, <3>2
        <4> QED
          BY <4>1, <2>3 DEF Untouched
      <3> QED
        BY <3>1, <3>2
    <2> QED
      BY <1>1, <2>1, <2>2, <2>3 DEF Untouched
  <1>10. FreshInv'
    BY <1>1, <1>9, FreshTail DEF RInv
  <1>11. /\ Ahead[user] = Results(a) /\ Ahead \in [Users -> Nat]
         /\ Ahead' = [Ahead EXCEPT ![user] = Results(net'.call.answers)]
    BY <1>1, <1>4 DEF Ahead, a
  <1>12. CASE ReadResult
    <2>1. /\ Head(a).ok /\ TakeFront("ok")
          /\ net' = Fill([net EXCEPT !.pipeline = Tail(@), !.call.answers = Tail(@)],
                         queue'[user], provider.counter)
      BY <1>12 DEF ReadResult, a
    <2>2. net'.call.answers = Tail(a)
      BY <1>1, <1>3, <2>1, ReadResultNet DEF RInv, IInv, a
    <2>3. /\ \A i \in 1..Len(Tail(a)) - 1 : Tail(a)[i].ok
          /\ Results(a) # 0 /\ Results(Tail(a)) = Results(a) - 1
      BY <1>1, <1>4, <1>6, <2>1, ResultsTail
    <2>4. LastInv'
      BY <2>2, <2>3 DEF LastInv
    <2>5. Log!Acknowledge(user)
      <3>1. Ahead' = [Ahead EXCEPT ![user] = @ - 1] /\ Ahead[user] # 0
        BY <1>4, <1>11, <2>2, <2>3
      <3>2. heard' \in {heard, [heard EXCEPT ![Head(Pending[user])] = "ok"]}
        BY <1>7, <1>8, <2>1
      <3> QED
        BY <1>1, <1>7, <3>1, <3>2 DEF Log!Acknowledge, Log!Tell
    <2> QED
      BY <1>4, <1>10, <2>4, <2>5 DEF LogStep, Log!Next, RInv
  <1>13. CASE ReadRefusal
    <2>1. /\ ~Head(a).ok /\ TakeFront("refused")
          /\ net' = [Fill([Closed(net, "Initial") EXCEPT !.pipeline = Tail(@)],
                          queue'[user], provider.counter) EXCEPT !.shook = FALSE]
      BY <1>13 DEF ReadRefusal, a
    <2>2. net'.state # "Open"
      BY <1>1, <1>3, <2>1, ReadRefusalNet DEF RInv, IInv, a
    <2>3. net'.call.answers = <<>>
      BY <2>2, NoCallType DEF IInv, NetInv, StreamOK
    <2>4. Results(a) = 0 /\ Results(net'.call.answers) = 0
      BY <1>1, <1>4, <1>6, <2>1, <2>3, ResultsTail, ResultsNone
    <2>5. LastInv'
      BY <2>3 DEF LastInv
    <2>6. Log!Refuse(user)
      <3>1. Ahead' = Ahead /\ Ahead[user] = 0
        BY <1>4, <1>11, <2>4
      <3>2. heard' \in {heard, [heard EXCEPT ![Head(Pending[user])] = "refused"]}
        BY <1>7, <1>8, <2>1
      <3> QED
        BY <1>1, <1>7, <3>1, <3>2 DEF Log!Refuse, Log!Tell
    <2> QED
      BY <1>4, <1>10, <2>5, <2>6 DEF LogStep, Log!Next, RInv
  <1> QED
    BY <1>12, <1>13 DEF ReadResult, ReadRefusal

-----------------------------------------------------------------------------
(* The refinement.                                                           *)

LEMMA RefinementInit ==
  ASSUME Init
  PROVE  RInv /\ Log!Init
  <1>1. IInv
    BY InitEstablishes
  <1>2. /\ queue = [u \in Users |-> <<>>] /\ applied = {} /\ worker = <<>>
        /\ heard = [w \in Writes |-> "nothing"] /\ net = NewNet
    BY DEF Init
  <1>3. net.call.answers = <<>>
    BY <1>2, NoCallType DEF NewNet
  <1>4. \A w \in Writes : w \in Untouched
    BY <1>2 DEF Untouched
  <1>5. FreshInv /\ LastInv
    BY <1>2, <1>3, <1>4 DEF FreshInv, LastInv
  <1>6. Ahead = [u \in Users |-> 0]
    BY <1>3, ResultsNone DEF Ahead
  <1>7. Pending = [u \in Users |-> <<>>]
    <2>1. \A u \in Users : [i \in 1..Len(queue[u]) |-> queue[u][i].write] = <<>>
      BY <1>2
    <2> QED
      BY <2>1 DEF Pending
  <1> QED
    BY <1>1, <1>2, <1>5, <1>6, <1>7 DEF RInv, Log!Init

LEMMA RefinementStep ==
  ASSUME RInv, [Next]_vars
  PROVE  RInv' /\ LogStep
  <1>1. IInv'
    BY StepKeeps DEF RInv
  <1>2. CASE AuthNext
    BY <1>1, <1>2, AuthLog
  <1>3. CASE MainNext
    BY <1>1, <1>3, NotifyLog, TokenLog, MakeWriteLog DEF MainNext
  <1>4. CASE WorkerNext
    BY <1>1, <1>4, ChangeLog, StoreLog, GrantedLog DEF WorkerNext
  <1>5. CASE StreamNext
    BY <1>1, <1>5, TimerLog, ReadLog, ServerLog DEF StreamNext
  <1>6. CASE FaultNext
    BY <1>1, <1>6, FaultLog, RestartLog DEF FaultNext
  <1>7. CASE UNCHANGED vars
    <2>1. UNCHANGED <<worker, user, queue, authors, applied, heard, net>>
      BY <1>7 DEF vars, storeVars
    <2> QED
      BY <1>1, <2>1, UnseenSteps
  <1> QED
    BY <1>2, <1>3, <1>4, <1>5, <1>6, <1>7 DEF Next

\* Streams, tokens, batch numbers, changes of user and restarts implement the
\* write log: whatever breaks, every user's writes are applied in the order
\* they were made, and each ends once, acknowledged after it was applied or
\* refused, in the queue of the user it was made for.
THEOREM ImplementsWriteLog == Spec => LogSpec
  <1>1. Init => RInv /\ Log!Init
    BY RefinementInit
  <1>2. RInv /\ [Next]_vars => RInv' /\ [Log!Next]_(Log!logVars)
    BY RefinementStep DEF LogStep
  <1> QED
    BY <1>1, <1>2, PTL DEF Spec, LogSpec, Log!Spec

-----------------------------------------------------------------------------
(* What is proved of the write log holds of the write queue.                 *)
LogProofs == INSTANCE WriteLogProofs WITH pending <- Pending, ahead <- Ahead

LEMMA SameLog == LogSpec => LogProofs!Spec
  <1>1. Log!Init <=> LogProofs!Init
    BY DEF Log!Init, LogProofs!Init
  <1>2. [Log!Next]_(Log!logVars) <=> [LogProofs!Next]_(LogProofs!logVars)
    BY DEF Log!Next, Log!Make, Log!Apply, Log!StartOver, Log!Acknowledge, Log!Refuse,
           Log!Tell, Log!logVars, LogProofs!Next, LogProofs!Make, LogProofs!Apply,
           LogProofs!StartOver, LogProofs!Acknowledge, LogProofs!Refuse,
           LogProofs!Tell, LogProofs!logVars
  <1> QED
    BY <1>1, <1>2, PTL DEF LogSpec, Log!Spec, LogProofs!Spec

\* What the app hears is true: no callback is told of success for a write the
\* server's store lacks, and none is told anything while its write is queued,
\* through any stream failures, changes of user and restarts.
THEOREM QueueAnswersAreTrue == Spec => []AnswersAreTrue
  <1>1. LogProofs!AnswersAreTrue <=> AnswersAreTrue
    BY DEF LogProofs!AnswersAreTrue, AnswersAreTrue, Log!AnswersAreTrue
  <1> QED
    BY <1>1, SameLog, ImplementsWriteLog, LogProofs!LogAnswersAreTrue, PTL

\* No write of a user reaches the server's store before an older one that is
\* still queued, although streams break, results are lost and everything in
\* the pipeline is sent again, for another user's turn in between as well.
THEOREM QueueAppliesInOrder == Spec => []Log!AppliedInOrder
  <1>1. LogProofs!AppliedInOrder <=> Log!AppliedInOrder
    BY DEF LogProofs!AppliedInOrder, Log!AppliedInOrder
  <1> QED
    BY <1>1, SameLog, ImplementsWriteLog, LogProofs!LogAppliesInOrder, PTL

=============================================================================
