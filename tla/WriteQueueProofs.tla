-------------------------- MODULE WriteQueueProofs --------------------------
(* Theorems about WriteQueue, for every set of accounts, every length of the *)
(* pipeline and any number of writes and faults.                             *)
EXTENDS WriteQueue, FiniteSetTheorems, SequenceTheorems, WellFoundedInduction,
        TLAPS

-----------------------------------------------------------------------------
(* Numbers and sequences.                                                    *)

\* Every set of natural numbers with an element has a smallest one.
LEMMA Smallest ==
  ASSUME NEW T, T \subseteq Nat, T # {}
  PROVE  \E x \in T : \A y \in T : x <= y
  <1> DEFINE R == OpToRel(<, Nat)
  <1>1. IsWellFoundedOn(R, Nat)
    BY NatLessThanWellFounded
  <1>2. \A x, y \in Nat : x < y => <<x, y>> \in R
    BY DEF OpToRel
  <1> HIDE DEF R
  <1>3. PICK x \in T : \A y \in T : ~ (<<y, x>> \in R)
    BY <1>1, WFMin
  <1>4. \A y \in T : ~ (y < x)
    <2> TAKE y \in T
    <2>1. y \in Nat /\ x \in Nat
      OBVIOUS
    <2>2. <<y, x>> \notin R
      BY <1>3
    <2> QED
      BY <1>2, <2>1, <2>2
  <1> QED
    BY <1>4

\* Max is the greatest element of a bounded set with an element.
LEMMA Greatest ==
  ASSUME NEW S, S \subseteq Nat, 0 \in S, NEW N \in Nat, \A x \in S : x <= N
  PROVE  Max(S) \in S /\ \A y \in S : Max(S) >= y
  <1> DEFINE U == {n \in Nat : \A x \in S : x <= n}
  <1>1. PICK m \in U : \A n \in U : m <= n
    BY Smallest
  <1>2. m \in S
    <2>1. SUFFICES ASSUME m \notin S PROVE FALSE
      OBVIOUS
    <2>2. m # 0
      BY <2>1
    <2>3. \A x \in S : x <= m - 1
      BY <1>1, <2>1
    <2>4. m - 1 \in U
      BY <1>1, <2>2, <2>3
    <2> QED
      BY <1>1, <2>4
  <1> QED
    BY <1>1, <1>2 DEF Max

LEMMA MinOfTwo ==
  ASSUME NEW a \in Nat, NEW b \in Nat
  PROVE  Min({a, b}) = IF a <= b THEN a ELSE b
  <1>1. \E x \in {a, b} : \A y \in {a, b} : x <= y
    OBVIOUS
  <1> QED
    BY <1>1 DEF Min

LEMMA BatchTypes ==
  ASSUME NEW q \in Seq(Batch), NEW i \in 1..Len(q)
  PROVE  q[i] \in Batch /\ q[i].id \in Nat \ {0} /\ q[i].id \in Nat /\ q[i].write \in Writes
  <1>1. q[i] \in Batch
    OBVIOUS
  <1> QED
    BY <1>1 DEF Batch

\* The numbers of a queue's batches grow.
Increasing(q) == \A i, j \in 1..Len(q) : i < j => q[i].id < q[j].id

Begins(p, q) == Len(p) <= Len(q) /\ p = SubSeq(q, 1, Len(p))

LastId(p) == IF p = <<>> THEN 0 ELSE p[Len(p)].id

\* Looking up the n batches behind the last one of a prefix makes the prefix
\* up to n longer.
LEMMA AfterContinues ==
  ASSUME NEW q \in Seq(Batch), Increasing(q), NEW p \in Seq(Batch), Begins(p, q),
         NEW n \in Nat
  PROVE  LET new == After(q, LastId(p), n)
         IN  /\ new \in Seq(Batch) /\ Len(new) <= n
             /\ p \o new \in Seq(Batch) /\ Begins(p \o new, q)
             /\ Len(p \o new) = Len(p) + Len(new)
             /\ n # 0 /\ Len(p) < Len(q) => new # <<>>
  <1> DEFINE k == Len(p)
             id == LastId(p)
             m == IF k + n <= Len(q) THEN k + n ELSE Len(q)
             new == SubSeq(q, k + 1, m)
  <1>1. k \in Nat /\ k <= Len(q) /\ Len(q) \in Nat /\ p = SubSeq(q, 1, k)
    BY DEF Begins
  <1>2. m \in Nat /\ k <= m /\ m <= Len(q) /\ m - k <= n
    BY <1>1
  <1>3. {i \in 1..Len(q) : q[i].id <= id} = 1..k
    <2>1. CASE k = 0
      <3>1. id = 0
        BY <2>1 DEF LastId
      <3>2. \A i \in 1..Len(q) : q[i].id \in Nat \ {0}
        BY BatchTypes
      <3> QED
        BY <2>1, <3>1, <3>2
    <2>2. CASE k # 0
      <3>1. k \in 1..Len(q) /\ id = q[k].id
        BY <1>1, <2>2 DEF LastId
      <3>2. \A i \in 1..Len(q) : q[i].id \in Nat
        BY BatchTypes
      <3>3. ASSUME NEW i \in 1..Len(q)
            PROVE  q[i].id <= id <=> i <= k
        <4>1. i < k => q[i].id < q[k].id
          BY <3>1 DEF Increasing
        <4>2. i > k => q[i].id > q[k].id
          BY <3>1 DEF Increasing
        <4> QED
          BY <3>1, <3>2, <4>1, <4>2
      <3> QED
        BY <1>1, <3>1, <3>3
    <2> QED
      BY <2>1, <2>2
  <1>4. Cardinality(1..k) = k
    <2>1. 1 \in Int /\ k \in Int
      BY <1>1
    <2>2. Cardinality(1..k) = IF 1 > k THEN 0 ELSE k - 1 + 1
      BY <2>1, FS_Interval
    <2> QED
      BY <1>1, <2>2
  <1>5. After(q, id, n) = new
    <2>1. Min({k + n, Len(q)}) = m
      BY <1>1, MinOfTwo
    <2> HIDE DEF id, m
    <2> QED
      BY <1>3, <1>4, <2>1 DEF After
  <1>6. new \in Seq(Batch) /\ Len(new) = m - k
    BY <1>1, <1>2, SubSeqProperties
  <1>7. p \o new = SubSeq(q, 1, m)
    BY <1>1, <1>2
  <1>8. SubSeq(q, 1, m) \in Seq(Batch) /\ Len(SubSeq(q, 1, m)) = m
    BY <1>1, <1>2, SubSeqProperties
  <1>9. n # 0 /\ k < Len(q) => new # <<>>
    <2>1. k \in Nat /\ Len(q) \in Nat
      BY <1>1
    <2>2. n # 0 /\ k < Len(q) => m # k
      <3> HIDE DEF k
      <3> QED
        BY <2>1
    <2>3. Len(new) = m - k /\ m \in Nat /\ Len(<<>>) = 0
      BY <1>2, <1>6
    <2> HIDE DEF k, m, new
    <2> QED
      BY <2>1, <2>2, <2>3
  <1> HIDE DEF new, m
  <1> QED
    BY <1>1, <1>2, <1>5, <1>6, <1>7, <1>8, <1>9 DEF Begins

\* A prefix of the stored queue in the sense of the model.
LEMMA BeginsIsPrefix ==
  ASSUME NEW q \in Seq(Batch), NEW p \in Seq(Batch), Begins(p, q)
  PROVE  IsPrefix(p, q)
  BY DEF Begins, IsPrefix

\* Removing the first batch by its number leaves the rest.
LEMMA RemovedFront ==
  ASSUME NEW q \in Seq(Batch), Increasing(q), q # <<>>
  PROVE  Removed(q, Head(q).id) = Tail(q)
  <1>1. 1 \in 1..Len(q) /\ q[1] = Head(q)
    OBVIOUS
  <1>2. \A i \in 1..Len(q) : q[i].id \in Nat
    BY BatchTypes
  <1>3. \A i \in 1..Len(q) : q[i].id = Head(q).id => i = 1
    <2> TAKE i \in 1..Len(q)
    <2>1. i # 1 => q[1].id < q[i].id
      BY <1>1 DEF Increasing
    <2> QED
      BY <1>1, <1>2, <2>1
  <1>4. (CHOOSE i \in 1..Len(q) : q[i].id = Head(q).id) = 1
    BY <1>1, <1>3
  <1>5. RemoveAt(q, 1) = Tail(q)
    BY DEF RemoveAt
  <1> QED
    BY <1>1, <1>4, <1>5 DEF Removed

\* A number that is not there removes nothing.
LEMMA RemovedNone ==
  ASSUME NEW q \in Seq(Batch), NEW id, \A i \in 1..Len(q) : q[i].id # id
  PROVE  Removed(q, id) = q
  BY DEF Removed

-----------------------------------------------------------------------------
(* The pipeline and its stream.                                              *)

States == {"Initial", "Starting", "Open", "Error", "Backoff"}
Calls == [as : Users, sent : Seq(Batch), answers : Seq(Answer)]
Nets == [pipeline : Seq(Batch), state : States, shook : BOOLEAN, closes : Nat,
         idle : BOOLEAN, call : Calls, asked : SUBSET Request]

\* The batches of the call, answered or not.
OnStream(call) ==
  [i \in 1..Len(call.answers) |-> call.answers[i].batch] \o call.sent

\* What holds between a pipeline with its stream and the queue q of user u.
StreamOK(n, q, u) ==
  /\ Begins(n.pipeline, q) /\ Len(n.pipeline) <= MaxPending
  /\ n.state # "Open" => n.call = NoCall /\ ~n.shook /\ ~n.idle
  /\ n.state \in {"Starting", "Backoff"} => n.pipeline # <<>>
  /\ n.state = "Open" /\ ~n.shook => n.pipeline # <<>>
  /\ n.state = "Open" => n.call.as = u
  /\ ~n.shook => n.call.sent = <<>> /\ n.call.answers = <<>>
  /\ n.shook => OnStream(n.call) = n.pipeline
  /\ n.idle => n.pipeline = <<>>

\* How a step changes what matters for tokens: it may close the stream, and
\* it may ask for one token of the stream it then starts.
Asks(n, m, counter) ==
  \/ /\ m.asked = n.asked
     /\ m.closes = n.closes => (m.state = "Starting" <=> n.state = "Starting")
     /\ m.closes # n.closes => m.state # "Starting"
  \/ /\ m.asked = n.asked \cup {Asked(counter, m.closes)}
     /\ m.state = "Starting"
     /\ m.closes = n.closes => n.state # "Starting"

LEMMA AskedType ==
  ASSUME NEW counter \in Nat, NEW closes \in Nat
  PROVE  /\ Asked(counter, closes) \in Request
         /\ ~Asked(counter, closes).read
         /\ Asked(counter, closes).closes = closes
         /\ Asked(counter, closes).counter = counter
  BY DEF Asked, Request, Users

LEMMA NoCallType == NoCall \in Calls /\ NoCall.sent = <<>> /\ NoCall.answers = <<>>
  BY DEF NoCall, Calls, Users

\* Starting a stream only changes its state and what is asked.
LEMMA StartFacts ==
  ASSUME NEW n \in Nets, NEW counter \in Nat
  PROVE  LET s == StartIfNeeded(n, counter)
         IN  /\ s \in Nets /\ s.pipeline = n.pipeline /\ s.shook = n.shook
             /\ s.closes = n.closes /\ s.idle = n.idle /\ s.call = n.call
             /\ \/ /\ n.state = "Initial" /\ n.pipeline # <<>> /\ s.state = "Starting"
                   /\ s.asked = n.asked \cup {Asked(counter, n.closes)}
                \/ /\ n.state = "Error" /\ n.pipeline # <<>> /\ s.state = "Backoff"
                   /\ s.asked = n.asked
                \/ (n.state \in {"Initial", "Error"} => n.pipeline = <<>>) /\ s = n
  <1>1. Asked(counter, n.closes) \in Request
    BY AskedType DEF Nets
  <1>2. n.asked \cup {Asked(counter, n.closes)} \in SUBSET Request
    BY <1>1 DEF Nets
  <1> DEFINE A == n.asked \cup {Asked(counter, n.closes)}
             x == [n EXCEPT !.state = "Starting", !.asked = A]
             y == [n EXCEPT !.state = "Backoff"]
  <1> HIDE DEF A
  <1>3. /\ x \in Nets /\ x.pipeline = n.pipeline /\ x.shook = n.shook
        /\ x.closes = n.closes /\ x.idle = n.idle /\ x.call = n.call
        /\ x.state = "Starting" /\ x.asked = A
    BY <1>2 DEF Nets, States, A
  <1>4. /\ y \in Nets /\ y.pipeline = n.pipeline /\ y.shook = n.shook
        /\ y.closes = n.closes /\ y.idle = n.idle /\ y.call = n.call
        /\ y.state = "Backoff" /\ y.asked = n.asked
    BY DEF Nets, States
  <1>5. CASE n.state = "Initial" /\ n.pipeline # <<>>
    <2>1. StartIfNeeded(n, counter) = x
      BY <1>5 DEF StartIfNeeded, Start, A
    <2> HIDE DEF x, y
    <2> QED
      BY <1>3, <1>5, <2>1 DEF A
  <1>6. CASE n.state = "Error" /\ n.pipeline # <<>>
    <2>1. StartIfNeeded(n, counter) = y
      BY <1>6 DEF StartIfNeeded, Start
    <2> HIDE DEF x, y
    <2> QED
      BY <1>4, <1>6, <2>1
  <1>7. CASE ~(n.state \in {"Initial", "Error"} /\ n.pipeline # <<>>)
    BY <1>7 DEF StartIfNeeded
  <1> QED
    BY <1>5, <1>6, <1>7

LEMMA Associate ==
  ASSUME NEW a \in Seq(Batch), NEW b \in Seq(Batch), NEW c \in Seq(Batch)
  PROVE  (a \o b) \o c = a \o (b \o c)
  OBVIOUS

\* Sequences of batches and answers, and what they say about OnStream.
LEMMA OnStreamMore ==
  ASSUME NEW call \in Calls, NEW more \in Seq(Batch), NEW longer \in Calls,
         longer.answers = call.answers, longer.sent = call.sent \o more
  PROVE  OnStream(longer) = OnStream(call) \o more
  <1> DEFINE a == [i \in 1..Len(call.answers) |-> call.answers[i].batch]
  <1>1. call.answers \in Seq(Answer) /\ call.sent \in Seq(Batch)
    BY DEF Calls
  <1>2. \A i \in 1..Len(call.answers) : call.answers[i].batch \in Batch
    <2> TAKE i \in 1..Len(call.answers)
    <2>1. call.answers[i] \in Answer
      BY <1>1
    <2> QED
      BY <2>1 DEF Answer
  <1>3. a \in Seq(Batch)
    BY <1>1, <1>2
  <1> HIDE DEF a
  <1>4. (a \o call.sent) \o more = a \o (call.sent \o more)
    BY <1>1, <1>3, Associate
  <1> QED
    BY <1>1, <1>4 DEF OnStream, a

\* A queue with batches has some in the pipeline, whose stream is not down.
Moves(n, q) ==
  /\ q # <<>> => n.pipeline # <<>>
  /\ n.pipeline # <<>> => n.state \notin {"Initial", "Error"}

\* What filling the pipeline of n from q does.
Filled(n, f, q, u, counter) ==
  /\ f \in Nets /\ StreamOK(f, q, u) /\ Asks(n, f, counter) /\ Moves(f, q)
  /\ f.closes = n.closes /\ f.shook = n.shook
  /\ f.state = "Open" <=> n.state = "Open"
  /\ f.call.answers = n.call.answers /\ f.call.as = n.call.as

\* Filling the pipeline keeps it a prefix of the queue, and what is on an
\* open stream stays the pipeline.
LEMMA FillKeeps ==
  ASSUME NEW n \in Nets, NEW q \in Seq(Batch), Increasing(q), NEW u,
         NEW counter \in Nat, StreamOK(n, q, u)
  PROVE  Filled(n, Fill(n, q, counter), q, u, counter)
  <1> DEFINE new == After(q, LastId(n.pipeline), MaxPending - Len(n.pipeline))
             sends == n.state = "Open" /\ n.shook
             pipe == n.pipeline \o new
             idle == IF pipe = <<>> THEN n.state = "Open"
                     ELSE n.idle /\ ~(sends /\ new # <<>>)
             sent == IF sends THEN n.call.sent \o new ELSE n.call.sent
             call == [n.call EXCEPT !.sent = sent]
             x == [n EXCEPT !.pipeline = pipe, !.call.sent = sent, !.idle = idle]
             f == Fill(n, q, counter)
  <1>1. /\ n.pipeline \in Seq(Batch) /\ n.call \in Calls /\ n.state \in States
        /\ n.shook \in BOOLEAN /\ n.idle \in BOOLEAN
        /\ n.call.sent \in Seq(Batch) /\ n.call.answers \in Seq(Answer)
    BY DEF Nets, Calls
  <1>2. MaxPending - Len(n.pipeline) \in Nat
    BY <1>1, BoundsAssumption DEF StreamOK
  <1>3. /\ new \in Seq(Batch) /\ pipe \in Seq(Batch) /\ Begins(pipe, q)
        /\ Len(pipe) = Len(n.pipeline) + Len(new) /\ Len(pipe) <= MaxPending
    <2>1. /\ new \in Seq(Batch) /\ pipe \in Seq(Batch) /\ Begins(pipe, q)
          /\ Len(pipe) = Len(n.pipeline) + Len(new)
          /\ Len(new) <= MaxPending - Len(n.pipeline)
      BY <1>1, <1>2, AfterContinues DEF StreamOK
    <2>2. Len(pipe) <= MaxPending
      <3> HIDE DEF new, pipe
      <3>1. Len(n.pipeline) \in Nat /\ Len(new) \in Nat
        BY <1>1, <2>1
      <3> QED
        BY <2>1, <3>1, BoundsAssumption
    <2> QED
      BY <2>1, <2>2
  <1>4. f = StartIfNeeded(x, counter)
    BY DEF Fill, LastId
  <1> HIDE DEF new, f
  <1>5. n.pipeline # <<>> => pipe # <<>>
    BY <1>1, <1>3
  <1>6. idle \in BOOLEAN /\ sent \in Seq(Batch)
    <2>1. sent \in Seq(Batch)
      BY <1>1, <1>3
    <2>2. CASE pipe = <<>>
      BY <2>1, <2>2
    <2>3. CASE pipe # <<>>
      <3>1. idle = (n.idle /\ ~(sends /\ new # <<>>))
        BY <2>3
      <3> QED
        BY <2>1, <3>1
    <2> QED
      BY <2>2, <2>3
  <1>7. /\ call \in Calls /\ call.as = n.call.as /\ call.sent = sent
        /\ call.answers = n.call.answers
    <2> HIDE DEF sent
    <2> QED
      BY <1>1, <1>6 DEF Calls
  <1>8. /\ x \in Nets /\ x.pipeline = pipe /\ x.state = n.state /\ x.shook = n.shook
        /\ x.closes = n.closes /\ x.idle = idle /\ x.call = call /\ x.asked = n.asked
    <2> HIDE DEF pipe, idle
    <2>1. x = [n EXCEPT !.pipeline = pipe, !.call = call, !.idle = idle]
      BY DEF Nets
    <2> HIDE DEF call
    <2> QED
      BY <1>3, <1>6, <1>7, <2>1 DEF Nets
  <1>9. StreamOK(x, q, u)
    <2>1. n.state # "Open" => call = NoCall
      BY <1>1 DEF StreamOK, NoCall, Calls
    <2>2. n.shook => OnStream(call) = pipe
      <3>1. n.shook => n.state = "Open"
        BY DEF StreamOK
      <3>2. n.shook => sent = n.call.sent \o new
        BY <3>1
      <3>3. n.shook => OnStream(call) = OnStream(n.call) \o new
        <4> HIDE DEF call, sent
        <4> QED
          BY <1>1, <1>3, <1>7, <3>2, OnStreamMore
      <3> QED
        BY <3>3 DEF StreamOK
    <2>3. ~n.shook => sent = <<>>
      BY DEF StreamOK
    <2>4. idle => pipe = <<>>
      <3>1. n.state # "Open" => ~n.idle
        BY DEF StreamOK
      <3>2. n.idle => n.pipeline = <<>>
        BY DEF StreamOK
      <3>3. n.state = "Open" /\ ~n.shook => ~n.idle
        BY <3>2 DEF StreamOK
      <3>4. ~(sends /\ new # <<>>) /\ n.idle => new = <<>>
        BY <3>1, <3>3
      <3> QED
        BY <1>1, <3>2, <3>4
    <2>5. n.state # "Open" => ~idle
      BY DEF StreamOK
    <2> HIDE DEF call, sent, idle, pipe, x
    <2> QED
      BY <1>3, <1>5, <1>7, <1>8, <2>1, <2>2, <2>3, <2>4, <2>5 DEF StreamOK
  <1> HIDE DEF x
  <1>10. /\ f \in Nets /\ f.pipeline = x.pipeline /\ f.shook = x.shook
         /\ f.closes = x.closes /\ f.idle = x.idle /\ f.call = x.call
         /\ \/ /\ x.state = "Initial" /\ x.pipeline # <<>> /\ f.state = "Starting"
               /\ f.asked = x.asked \cup {Asked(counter, x.closes)}
            \/ /\ x.state = "Error" /\ x.pipeline # <<>> /\ f.state = "Backoff"
               /\ f.asked = x.asked
            \/ (x.state \in {"Initial", "Error"} => x.pipeline = <<>>) /\ f = x
    BY <1>4, <1>8, StartFacts
  <1>11. StreamOK(f, q, u)
    BY <1>9, <1>10 DEF StreamOK
  <1>12. Asks(n, f, counter)
    BY <1>8, <1>10 DEF Asks
  <1>13. q # <<>> => pipe # <<>>
    <2>1. n.pipeline = <<>> /\ q # <<>> => new # <<>>
      <3>1. n.pipeline = <<>> /\ q # <<>> =>
              /\ Len(n.pipeline) < Len(q) /\ MaxPending - Len(n.pipeline) # 0
        BY BoundsAssumption
      <3>2. Begins(n.pipeline, q)
        BY DEF StreamOK
      <3> QED
        BY <1>1, <1>2, <3>1, <3>2, AfterContinues DEF new
    <2> QED
      BY <1>1, <1>3, <2>1
  <1>14. Moves(f, q)
    BY <1>8, <1>10, <1>13 DEF Moves
  <1> QED
    BY <1>7, <1>8, <1>10, <1>11, <1>12, <1>14 DEF f, Filled

LEMMA ClosedFacts ==
  ASSUME NEW n \in Nets, NEW state \in States
  PROVE  LET c == Closed(n, state)
         IN  /\ c \in Nets /\ c.pipeline = n.pipeline /\ c.state = state
             /\ c.shook = n.shook /\ c.closes = n.closes + 1 /\ ~c.idle
             /\ c.call = NoCall /\ c.asked = n.asked
  <1> DEFINE k == n.closes + 1
             c == [n EXCEPT !.state = state, !.closes = k, !.idle = FALSE,
                            !.call = NoCall]
  <1>1. k \in Nat /\ NoCall \in Calls
    BY NoCallType DEF Nets
  <1>2. Closed(n, state) = c
    BY DEF Closed
  <1> HIDE DEF k
  <1>3. /\ c \in Nets /\ c.pipeline = n.pipeline /\ c.state = state
        /\ c.shook = n.shook /\ c.closes = k /\ ~c.idle
        /\ c.call = NoCall /\ c.asked = n.asked
    BY <1>1 DEF Nets
  <1> HIDE DEF c
  <1> QED
    BY <1>2, <1>3 DEF k

\* A stream that is not up has nothing to agree on but the pipeline.
LEMMA DownIsOK ==
  ASSUME NEW n \in Nets, NEW q, NEW u, n.state \in {"Initial", "Error"},
         n.call = NoCall, ~n.shook, ~n.idle,
         Begins(n.pipeline, q), Len(n.pipeline) <= MaxPending
  PROVE  StreamOK(n, q, u)
  BY NoCallType DEF StreamOK

LEMMA EmptyBegins ==
  ASSUME NEW q \in Seq(Batch)
  PROVE  Begins(<<>>, q) /\ Len(<<>>) <= MaxPending
  <1>1. SubSeq(q, 1, 0) = <<>>
    OBVIOUS
  <1> QED
    BY <1>1, BoundsAssumption DEF Begins

\* Restarting loads any queue, for any user.
LEMMA RestartedKeeps ==
  ASSUME NEW n \in Nets, NEW q0, NEW u0, StreamOK(n, q0, u0),
         NEW q \in Seq(Batch), Increasing(q), NEW u, NEW counter \in Nat
  PROVE  LET r == Restarted(n, q, counter)
         IN  /\ r \in Nets /\ StreamOK(r, q, u) /\ Asks(n, r, counter)
             /\ n.closes <= r.closes /\ r.state # "Open" /\ Moves(r, q)
  <1> DEFINE s == IF Started(n) THEN Closed(n, "Initial") ELSE n
             z == [s EXCEPT !.pipeline = <<>>, !.state = "Initial", !.shook = FALSE]
             r == Restarted(n, q, counter)
  <1>1. /\ s \in Nets /\ s.asked = n.asked /\ n.closes <= s.closes
        /\ s.call = NoCall /\ ~s.idle
        /\ s.closes = n.closes => n.state # "Starting"
    <2>1. CASE Started(n)
      <3>1. "Initial" \in States /\ n.closes \in Nat
        BY DEF States, Nets
      <3> QED
        BY <2>1, <3>1, ClosedFacts
    <2>2. CASE ~Started(n)
      BY <2>2 DEF Started, StreamOK, Nets
    <2> QED
      BY <2>1, <2>2
  <1> HIDE DEF s
  <1>2. /\ z \in Nets /\ z.pipeline = <<>> /\ z.state = "Initial" /\ ~z.shook
        /\ z.closes = s.closes /\ z.call = s.call /\ z.asked = s.asked /\ ~z.idle
    <2>1. <<>> \in Seq(Batch) /\ "Initial" \in States
      BY DEF States
    <2>2. z \in Nets /\ z.pipeline = <<>> /\ z.state = "Initial" /\ z.shook = FALSE
      BY <1>1, <2>1 DEF Nets
    <2>3. z.closes = s.closes /\ z.call = s.call /\ z.asked = s.asked /\ z.idle = s.idle
      BY <1>1 DEF Nets
    <2> QED
      BY <1>1, <2>2, <2>3
  <1>3. r = Fill(z, q, counter)
    BY DEF Restarted, s
  <1> HIDE DEF z, r
  <1>4. StreamOK(z, q, u)
    BY <1>1, <1>2, EmptyBegins, DownIsOK
  <1>5. /\ r \in Nets /\ StreamOK(r, q, u) /\ Asks(z, r, counter)
        /\ r.closes = z.closes /\ r.state # "Open" /\ Moves(r, q)
    <2>1. Filled(z, r, q, u, counter)
      BY <1>2, <1>3, <1>4, FillKeeps
    <2> QED
      BY <1>2, <2>1 DEF Filled
  <1>6. Asks(n, r, counter)
    BY <1>1, <1>2, <1>5 DEF Asks
  <1> QED
    BY <1>1, <1>2, <1>5, <1>6 DEF r

\* A stream that breaks keeps its pipeline.
LEMMA BrokenKeeps ==
  ASSUME NEW n \in Nets, NEW q, NEW u, StreamOK(n, q, u), NEW counter \in Nat
  PROVE  LET b == Broken(n, counter)
         IN  /\ b \in Nets /\ StreamOK(b, q, u) /\ Asks(n, b, counter)
             /\ b.closes = n.closes + 1 /\ b.state \notin {"Open", "Starting"}
             /\ b.asked = n.asked /\ (Moves(n, q) => Moves(b, q))
  <1> DEFINE z == [Closed(n, "Error") EXCEPT !.shook = FALSE]
             b == Broken(n, counter)
  <1>1. /\ z \in Nets /\ z.pipeline = n.pipeline /\ z.state = "Error" /\ ~z.shook
        /\ z.closes = n.closes + 1 /\ ~z.idle /\ z.call = NoCall /\ z.asked = n.asked
    <2>1. "Error" \in States
      BY DEF States
    <2> DEFINE c == Closed(n, "Error")
    <2>2. /\ c \in Nets /\ c.pipeline = n.pipeline /\ c.state = "Error"
          /\ c.closes = n.closes + 1 /\ ~c.idle /\ c.call = NoCall /\ c.asked = n.asked
      BY <2>1, ClosedFacts
    <2> HIDE DEF c
    <2>3. z = [c EXCEPT !.shook = FALSE]
      BY DEF c
    <2> QED
      BY <2>2, <2>3 DEF Nets
  <1>2. b = StartIfNeeded(z, counter)
    BY DEF Broken
  <1> HIDE DEF z, b
  <1>3. StreamOK(z, q, u)
    BY <1>1, DownIsOK DEF StreamOK
  <1>4. /\ b \in Nets /\ b.pipeline = z.pipeline /\ b.shook = z.shook
        /\ b.closes = z.closes /\ b.idle = z.idle /\ b.call = z.call
        /\ b.asked = z.asked
        /\ (b.state = "Backoff" /\ z.pipeline # <<>>) \/ (b = z /\ z.pipeline = <<>>)
    BY <1>1, <1>2, StartFacts
  <1>5. StreamOK(b, q, u)
    BY <1>1, <1>3, <1>4 DEF StreamOK
  <1>6. n.closes \in Nat
    BY DEF Nets
  <1>7. Asks(n, b, counter)
    BY <1>1, <1>4, <1>6 DEF Asks
  <1>8. Moves(n, q) => Moves(b, q)
    BY <1>1, <1>4 DEF Moves
  <1> QED
    BY <1>1, <1>4, <1>5, <1>7, <1>8 DEF b

\* On a stream that is down, it is the same to forget the handshake before
\* the pipeline is filled and afterwards.
LEMMA ForgetHandshake ==
  ASSUME NEW n \in Nets, n.state = "Initial", NEW q, NEW counter
  PROVE  [Fill(n, q, counter) EXCEPT !.shook = FALSE]
           = Fill([n EXCEPT !.shook = FALSE], q, counter)
  <1> DEFINE new == After(q, LastId(n.pipeline), MaxPending - Len(n.pipeline))
             x == [n EXCEPT !.pipeline = n.pipeline \o new,
                     !.call.sent = n.call.sent,
                     !.idle = IF n.pipeline \o new = <<>> THEN FALSE ELSE n.idle]
             m == [n EXCEPT !.shook = FALSE]
             y == [m EXCEPT !.pipeline = n.pipeline \o new,
                     !.call.sent = n.call.sent,
                     !.idle = IF n.pipeline \o new = <<>> THEN FALSE ELSE n.idle]
  <1>1. /\ m.pipeline = n.pipeline /\ m.state = "Initial" /\ m.call = n.call
        /\ m.idle = n.idle
    BY DEF Nets
  <1>2. Fill(n, q, counter) = StartIfNeeded(x, counter)
    BY DEF Fill, LastId, Nets
  <1>3. Fill(m, q, counter) = StartIfNeeded(y, counter)
    BY <1>1 DEF Fill, LastId, Nets
  <1> HIDE DEF new
  <1>4. y = [x EXCEPT !.shook = FALSE] /\ x.state = "Initial"
        /\ y.state = "Initial" /\ y.pipeline = x.pipeline /\ y.closes = x.closes
    BY DEF Nets
  <1> HIDE DEF x, y, m
  <1>5. [StartIfNeeded(x, counter) EXCEPT !.shook = FALSE] = StartIfNeeded(y, counter)
    BY <1>4 DEF StartIfNeeded, Start
  <1> QED
    BY <1>2, <1>3, <1>5 DEF m

-----------------------------------------------------------------------------
(* Sending, answering and reading.                                           *)

Answered(call) == [i \in 1..Len(call.answers) |-> call.answers[i].batch]

LEMMA AnsweredType ==
  ASSUME NEW call \in Calls
  PROVE  /\ Answered(call) \in Seq(Batch)
         /\ Len(Answered(call)) = Len(call.answers)
         /\ call.answers \in Seq(Answer) /\ call.sent \in Seq(Batch)
         /\ OnStream(call) = Answered(call) \o call.sent
  <1>1. call.answers \in Seq(Answer) /\ call.sent \in Seq(Batch)
    BY DEF Calls
  <1>2. \A i \in 1..Len(call.answers) : call.answers[i].batch \in Batch
    <2> TAKE i \in 1..Len(call.answers)
    <2>1. call.answers[i] \in Answer
      BY <1>1
    <2> QED
      BY <2>1 DEF Answer
  <1> QED
    BY <1>1, <1>2 DEF Answered, OnStream

LEMMA MoveOver ==
  ASSUME NEW s \in Seq(Batch), NEW t \in Seq(Batch), t # <<>>
  PROVE  Append(s, Head(t)) \o Tail(t) = s \o t
  OBVIOUS

\* The server takes up the next batch that was sent.
LEMMA OnStreamTaken ==
  ASSUME NEW call \in Calls, call.sent # <<>>, NEW a \in Answer,
         a.batch = Head(call.sent), NEW c \in Calls,
         c.sent = Tail(call.sent), c.answers = Append(call.answers, a)
  PROVE  OnStream(c) = OnStream(call)
  <1>1. Answered(c) = Append(Answered(call), Head(call.sent))
    <2>1. call.answers \in Seq(Answer) /\ Len(c.answers) = Len(call.answers) + 1
      BY AnsweredType
    <2> DEFINE s == Append(Answered(call), Head(call.sent))
    <2>2. s \in Seq(Batch) /\ Len(s) = Len(call.answers) + 1 /\ Answered(c) \in Seq(Batch)
          /\ Len(Answered(c)) = Len(call.answers) + 1
      BY <2>1, AnsweredType
    <2>3. \A i \in 1..Len(s) : s[i] = Answered(c)[i]
      BY <2>1, <2>2, AnsweredType DEF Answered
    <2> HIDE DEF s
    <2>4. s = Answered(c)
      BY <2>2, <2>3, SeqEqual
    <2> QED
      BY <2>4 DEF s
  <1> QED
    BY <1>1, AnsweredType, MoveOver

LEMMA ConcatFront ==
  ASSUME NEW s \in Seq(Batch), NEW t \in Seq(Batch), s # <<>>
  PROVE  Tail(s \o t) = Tail(s) \o t /\ s \o t # <<>> /\ Head(s \o t) = Head(s)
  <1>1. Len(s) \in Nat \ {0} /\ Len(t) \in Nat /\ Len(s \o t) = Len(s) + Len(t)
    OBVIOUS
  <1>2. s \o t # <<>> /\ Head(s \o t) = Head(s)
    BY <1>1
  <1> DEFINE a == Tail(s \o t)
             b == Tail(s) \o t
  <1>3. a \in Seq(Batch) /\ b \in Seq(Batch) /\ Len(a) = Len(b)
    BY <1>1, <1>2
  <1>4. \A i \in 1..Len(a) : a[i] = b[i]
    BY <1>1, <1>2
  <1> HIDE DEF a, b
  <1>5. a = b
    BY <1>3, <1>4, SeqEqual
  <1> QED
    BY <1>2, <1>5 DEF a, b

\* The client reads the first answer.
LEMMA OnStreamRead ==
  ASSUME NEW call \in Calls, call.answers # <<>>, NEW c \in Calls,
         c.sent = call.sent, c.answers = Tail(call.answers)
  PROVE  /\ OnStream(c) = Tail(OnStream(call)) /\ OnStream(call) # <<>>
         /\ Head(OnStream(call)) = Head(call.answers).batch
  <1>1. /\ call.answers \in Seq(Answer) /\ Answered(call) \in Seq(Batch)
        /\ Len(Answered(call)) = Len(call.answers) /\ Answered(call) # <<>>
        /\ Answered(c) \in Seq(Batch) /\ Len(Answered(c)) = Len(call.answers) - 1
    <2>1. /\ call.answers \in Seq(Answer) /\ Answered(call) \in Seq(Batch)
          /\ Len(Answered(call)) = Len(call.answers)
          /\ Answered(c) \in Seq(Batch) /\ Len(Answered(c)) = Len(c.answers)
      BY AnsweredType
    <2>2. Len(c.answers) = Len(call.answers) - 1 /\ Len(call.answers) # 0
      BY <2>1
    <2> QED
      BY <2>1, <2>2
  <1>2. Answered(c) = Tail(Answered(call))
    <2> DEFINE s == Tail(Answered(call))
    <2>1. s \in Seq(Batch) /\ Len(s) = Len(Answered(c))
      BY <1>1
    <2>2. \A i \in 1..Len(s) : s[i] = Answered(c)[i]
      BY <1>1, <2>1 DEF Answered
    <2> HIDE DEF s
    <2>3. s = Answered(c)
      BY <1>1, <2>1, <2>2, SeqEqual
    <2> QED
      BY <2>3 DEF s
  <1>3. Head(Answered(call)) = Head(call.answers).batch
    BY <1>1 DEF Answered
  <1>4. /\ OnStream(call) = Answered(call) \o call.sent
        /\ OnStream(c) = Answered(c) \o call.sent /\ call.sent \in Seq(Batch)
    BY AnsweredType
  <1> DEFINE s == Answered(call)
             t == call.sent
  <1>5. s \in Seq(Batch) /\ s # <<>> /\ t \in Seq(Batch)
    BY <1>1, <1>4
  <1>6. Tail(s \o t) = Tail(s) \o t /\ s \o t # <<>> /\ Head(s \o t) = Head(s)
    <2> HIDE DEF s, t
    <2> QED
      BY <1>5, ConcatFront
  <1> QED
    BY <1>2, <1>3, <1>4, <1>6

\* A prefix that is not empty starts with the queue's first batch.
LEMMA FrontOfBoth ==
  ASSUME NEW q \in Seq(Batch), NEW p \in Seq(Batch), Begins(p, q), p # <<>>
  PROVE  /\ q # <<>> /\ Head(p) = Head(q) /\ Head(p) \in Batches(q)
         /\ Begins(Tail(p), Tail(q)) /\ Len(Tail(p)) <= Len(p)
  <1>1. Len(p) \in Nat \ {0} /\ Len(q) \in Nat /\ Len(p) <= Len(q)
    BY DEF Begins
  <1>2. q # <<>> /\ Head(q) = q[1] /\ 1 \in 1..Len(q) /\ Head(p) = p[1]
    BY <1>1
  <1>3. \A i \in 1..Len(p) : p[i] = q[i]
    <2>1. p = SubSeq(q, 1, Len(p))
      BY DEF Begins
    <2>2. \A i \in 1..Len(p) : SubSeq(q, 1, Len(p))[i] = q[i]
      BY <1>1
    <2> QED
      BY <2>1, <2>2
  <1>4. Begins(Tail(p), Tail(q))
    <2>1. /\ Tail(p) \in Seq(Batch) /\ Tail(q) \in Seq(Batch)
          /\ Len(Tail(p)) = Len(p) - 1 /\ Len(Tail(q)) = Len(q) - 1
      BY <1>1, <1>2
    <2> DEFINE s == SubSeq(Tail(q), 1, Len(Tail(p)))
    <2>2. s \in Seq(Batch) /\ Len(s) = Len(Tail(p))
      BY <1>1, <2>1
    <2>3. \A i \in 1..Len(Tail(p)) : Tail(p)[i] = s[i]
      BY <1>1, <1>2, <1>3, <2>1
    <2> HIDE DEF s
    <2>4. Tail(p) = s
      BY <2>1, <2>2, <2>3, SeqEqual
    <2> QED
      BY <1>1, <2>1, <2>4 DEF Begins, s
  <1>5. Head(p) = Head(q)
    BY <1>1, <1>2, <1>3
  <1>6. Head(q) \in Batches(q)
    BY <1>2 DEF Batches
  <1> QED
    BY <1>1, <1>2, <1>4, <1>5, <1>6

\* A batch stored behind the others does not disturb a prefix.
LEMMA BeginsLonger ==
  ASSUME NEW q \in Seq(Batch), NEW p \in Seq(Batch), Begins(p, q), NEW b \in Batch
  PROVE  Begins(p, Append(q, b))
  <1>1. Len(p) \in Nat /\ Len(q) \in Nat /\ Len(p) <= Len(q)
    BY DEF Begins
  <1>2. SubSeq(Append(q, b), 1, Len(p)) = SubSeq(q, 1, Len(p))
    BY <1>1
  <1> QED
    BY <1>1, <1>2 DEF Begins

-----------------------------------------------------------------------------
(* The inductive invariant, in parts.                                        *)

BaseInv ==
  /\ auth \in Users /\ user \in Users
  /\ main \in Seq(Block) /\ worker \in Seq(Task)
  /\ provider \in [user : Users, counter : Nat]
  /\ queue \in [Users -> Seq(Batch)]
  /\ nextBatch \in Nat \ {0}
  /\ callbacks \subseteq Users \X (Nat \ {0}) \X Writes
  /\ authors \in Seq(Users) /\ Len(authors) <= MaxWrites
  /\ applied \subseteq Writes
  /\ heard \in [Writes -> {"nothing", "ok", "refused"}]
  /\ events \in 0..MaxEvents
  /\ net \in Nets
  /\ failed = FALSE

\* The stored batches: numbered in order, below the next number in the loaded
\* queue, bounded over all queues, and each in its author's queue.
StoreInv ==
  /\ \A u \in Users : Increasing(queue[u])
  /\ \A i \in 1..Len(queue[user]) : queue[user][i].id < nextBatch
  /\ \E most \in Nat : \A u \in Users : \A i \in 1..Len(queue[u]) :
        queue[u][i].id <= most
  /\ \A u \in Users : \A i \in 1..Len(queue[u]) :
        /\ queue[u][i].write \in 1..Len(authors)
        /\ authors[queue[u][i].write] = u
  /\ CallbacksFindBatches

NetInv == StreamOK(net, queue[user], user)

LEMMA BaseFacts ==
  ASSUME BaseInv
  PROVE  /\ net \in Nets /\ queue[user] \in Seq(Batch) /\ provider.counter \in Nat
         /\ provider.user \in Users /\ user \in Users
         /\ \A u \in Users : queue[u] \in Seq(Batch)
  BY DEF BaseInv

\* What the network part of an action does to the invariant: the stream stays
\* right for the queue and the user of after the step, and it asks for at
\* most one token.
NetKept ==
  /\ net' \in Nets /\ StreamOK(net', queue[user]', user')
  /\ Asks(net, net', provider.counter) /\ net.closes <= net'.closes

LEMMA BackoffKeeps ==
  ASSUME BaseInv, NetInv, BackoffElapses
  PROVE  NetKept
  <1> DEFINE z == [net EXCEPT !.state = "Initial"]
             s == StartIfNeeded(z, provider.counter)
  <1>1. net \in Nets /\ provider.counter \in Nat /\ net.state = "Backoff"
        /\ UNCHANGED <<queue, user>> /\ net' = Start(z, provider.counter)
    BY BaseFacts DEF BackoffElapses, storeVars
  <1>2. /\ z \in Nets /\ z.pipeline = net.pipeline /\ z.state = "Initial"
        /\ z.shook = net.shook /\ z.closes = net.closes /\ z.idle = net.idle
        /\ z.call = net.call /\ z.asked = net.asked
    BY <1>1 DEF Nets, States
  <1>3. net.pipeline # <<>>
    BY <1>1 DEF NetInv, StreamOK
  <1>4. net' = s
    BY <1>1, <1>2, <1>3 DEF StartIfNeeded
  <1> HIDE DEF z, s
  <1>5. /\ s \in Nets /\ s.pipeline = z.pipeline /\ s.shook = z.shook
        /\ s.closes = z.closes /\ s.idle = z.idle /\ s.call = z.call
        /\ s.state = "Starting" /\ s.asked = z.asked \cup {Asked(provider.counter, z.closes)}
    BY <1>1, <1>2, <1>3, StartFacts DEF s
  <1>6. StreamOK(s, queue[user], user)
    BY <1>1, <1>2, <1>3, <1>5 DEF NetInv, StreamOK
  <1>7. net.closes \in Nat
    BY <1>1 DEF Nets
  <1> QED
    BY <1>1, <1>2, <1>4, <1>5, <1>6, <1>7 DEF NetKept, Asks

LEMMA IdleKeeps ==
  ASSUME BaseInv, NetInv, IdleElapses
  PROVE  NetKept /\ failed' = FALSE
  <1> DEFINE c == Closed(net, "Initial")
             z == [c EXCEPT !.shook = FALSE]
  <1>1. net \in Nets /\ net.idle /\ UNCHANGED <<queue, user>> /\ net' = z
        /\ "Initial" \in States /\ net.closes \in Nat
    BY BaseFacts DEF IdleElapses, storeVars, States, Nets
  <1>2. /\ c \in Nets /\ c.pipeline = net.pipeline /\ c.state = "Initial"
        /\ c.closes = net.closes + 1 /\ ~c.idle /\ c.call = NoCall
        /\ c.asked = net.asked
    BY <1>1, ClosedFacts
  <1> HIDE DEF c
  <1>3. /\ z \in Nets /\ z.pipeline = net.pipeline /\ z.state = "Initial" /\ ~z.shook
        /\ z.closes = net.closes + 1 /\ ~z.idle /\ z.call = NoCall /\ z.asked = net.asked
    BY <1>2 DEF Nets
  <1> HIDE DEF z
  <1>4. StreamOK(z, queue[user], user)
    BY <1>3, DownIsOK DEF NetInv, StreamOK
  <1>5. net.pipeline = <<>>
    BY <1>1 DEF NetInv, StreamOK
  <1>6. failed' = FALSE
    BY <1>5 DEF IdleElapses, BaseInv
  <1>7. Asks(net, z, provider.counter)
    BY <1>1, <1>3 DEF Asks
  <1> QED
    BY <1>1, <1>3, <1>4, <1>6, <1>7 DEF NetKept

LEMMA HandshakeKeeps ==
  ASSUME BaseInv, NetInv, HandshakeDone
  PROVE  NetKept
  <1> DEFINE sent == net.call.sent \o net.pipeline
             call == [net.call EXCEPT !.sent = sent]
             idle == net.idle /\ net.pipeline = <<>>
             z == [net EXCEPT !.shook = TRUE, !.call = call, !.idle = idle]
  <1>1. /\ net \in Nets /\ net.state = "Open" /\ ~net.shook
        /\ UNCHANGED <<queue, user>> /\ net.closes \in Nat
        /\ net.call \in Calls /\ net.pipeline \in Seq(Batch)
    BY BaseFacts DEF HandshakeDone, storeVars, Nets
  <1>2. net.call.sent = <<>> /\ net.call.answers = <<>> /\ net.pipeline # <<>>
    BY <1>1 DEF NetInv, StreamOK
  <1>3. sent = net.pipeline /\ idle = FALSE
    BY <1>1, <1>2
  <1>4. /\ call \in Calls /\ call.sent = net.pipeline /\ call.answers = <<>>
        /\ call.as = net.call.as
    BY <1>1, <1>2, <1>3 DEF Calls
  <1>5. net' = z
    BY <1>1 DEF HandshakeDone, Nets
  <1> HIDE DEF call, sent, idle
  <1>6. /\ z \in Nets /\ z.pipeline = net.pipeline /\ z.state = net.state /\ z.shook
        /\ z.closes = net.closes /\ ~z.idle /\ z.call = call /\ z.asked = net.asked
    BY <1>1, <1>3, <1>4 DEF Nets
  <1> HIDE DEF z
  <1>7. OnStream(call) = net.pipeline
    <2>1. Answered(call) \in Seq(Batch) /\ Len(Answered(call)) = Len(call.answers)
          /\ OnStream(call) = Answered(call) \o call.sent
      BY <1>4, AnsweredType
    <2>2. Answered(call) = <<>>
      BY <1>4, <2>1
    <2> QED
      BY <1>1, <1>4, <2>1, <2>2
  <1>8. StreamOK(z, queue[user], user)
    BY <1>1, <1>4, <1>6, <1>7 DEF NetInv, StreamOK
  <1> QED
    BY <1>1, <1>5, <1>6, <1>8 DEF NetKept, Asks

\* The server takes up a batch and accepts or refuses it.
LEMMA ServerKeeps ==
  ASSUME BaseInv, NetInv, ServerApplies \/ ServerRefuses
  PROVE  NetKept /\ applied' \subseteq Writes /\ net.call.sent # <<>>
         /\ Head(net.call.sent) \in Batch
  <1> DEFINE b == Head(net.call.sent)
  <1>1. /\ net \in Nets /\ net.call.sent # <<>> /\ net.call \in Calls
        /\ net.call.sent \in Seq(Batch) /\ net.call.answers \in Seq(Answer)
        /\ UNCHANGED <<queue, user>> /\ net.closes \in Nat
    BY BaseFacts DEF ServerApplies, ServerRefuses, storeVars, Nets, Calls
  <1>2. b \in Batch
    BY <1>1
  <1>3. PICK a \in {Result(b), Refusal(b)} :
          net' = [net EXCEPT !.call.sent = Tail(@), !.call.answers = Append(@, a)]
    BY DEF ServerApplies, ServerRefuses
  <1>4. a \in Answer /\ a.batch = b
    <2> HIDE DEF b
    <2>1. CASE a = Result(b)
      BY <1>2, <2>1 DEF Result, Answer
    <2>2. CASE a = Refusal(b)
      BY <1>2, <2>2 DEF Refusal, Answer
    <2> QED
      BY <2>1, <2>2
  <1> DEFINE call == [net.call EXCEPT !.sent = Tail(net.call.sent),
                                      !.answers = Append(net.call.answers, a)]
             z == [net EXCEPT !.call = call]
  <1>5. net' = z
    BY <1>1, <1>3 DEF Nets, Calls
  <1>6. Tail(net.call.sent) \in Seq(Batch) /\ Append(net.call.answers, a) \in Seq(Answer)
    BY <1>1, <1>4
  <1>7. /\ call \in Calls /\ call.sent = Tail(net.call.sent)
        /\ call.answers = Append(net.call.answers, a) /\ call.as = net.call.as
    BY <1>1, <1>6 DEF Calls
  <1> HIDE DEF call
  <1>8. OnStream(call) = OnStream(net.call)
    BY <1>1, <1>4, <1>7, OnStreamTaken
  <1>9. /\ z \in Nets /\ z.pipeline = net.pipeline /\ z.state = net.state
        /\ z.shook = net.shook /\ z.closes = net.closes /\ z.idle = net.idle
        /\ z.call = call /\ z.asked = net.asked
    BY <1>1, <1>7 DEF Nets
  <1> HIDE DEF z
  <1>10. net.shook /\ net.state = "Open"
    BY <1>1, NoCallType DEF NetInv, StreamOK
  <1>11. StreamOK(z, queue[user], user)
    BY <1>7, <1>8, <1>9, <1>10 DEF NetInv, StreamOK
  <1>12. b.write \in Writes
    BY <1>2 DEF Batch
  <1>13. applied' \subseteq Writes
    BY <1>12 DEF ServerApplies, ServerRefuses, BaseInv
  <1> QED
    BY <1>1, <1>2, <1>5, <1>9, <1>11, <1>13 DEF NetKept, Asks

-----------------------------------------------------------------------------
(* Changes of what is stored.                                                *)

\* LoadNextBatchIdFromDb finds a number above all that are stored.
LEMMA NextIdIsNew ==
  ASSUME BaseInv, StoreInv
  PROVE  /\ NextBatchId(queue) \in Nat \ {0}
         /\ \A u \in Users : \A i \in 1..Len(queue[u]) : queue[u][i].id < NextBatchId(queue)
  <1> DEFINE S == {0} \cup {b.id : b \in UNION {Batches(queue[u]) : u \in Users}}
  <1>1. \A u \in Users : queue[u] \in Seq(Batch)
    BY BaseFacts
  <1>2. PICK most \in Nat : \A u \in Users : \A i \in 1..Len(queue[u]) : queue[u][i].id <= most
    BY DEF StoreInv
  <1>3. ASSUME NEW u \in Users, NEW i \in 1..Len(queue[u])
        PROVE  queue[u][i].id \in S
    BY DEF Batches
  <1>4. ASSUME NEW x \in S
        PROVE  x \in Nat /\ x <= most
    <2>1. CASE x = 0
      BY <2>1
    <2>2. CASE x # 0
      <3>1. PICK u \in Users : \E i \in 1..Len(queue[u]) : x = queue[u][i].id
        BY <2>2 DEF Batches
      <3>2. PICK i \in 1..Len(queue[u]) : x = queue[u][i].id
        BY <3>1
      <3> QED
        BY <1>1, <1>2, <3>2, BatchTypes
    <2> QED
      BY <2>1, <2>2
  <1>5. 0 \in S
    OBVIOUS
  <1>6. NextBatchId(queue) = 1 + Max(S)
    BY DEF NextBatchId
  <1> HIDE DEF S
  <1>7. Max(S) \in S /\ \A y \in S : Max(S) >= y
    BY <1>4, <1>5, Greatest
  <1> QED
    BY <1>3, <1>4, <1>6, <1>7

\* Another user's queue is loaded.
LEMMA LoadKeeps ==
  ASSUME BaseInv, StoreInv, user' \in Users, UNCHANGED <<queue, authors>>,
         nextBatch' = NextBatchId(queue) \/ (user' = user /\ nextBatch' = nextBatch),
         callbacks' \subseteq callbacks
  PROVE  StoreInv' /\ nextBatch' \in Nat \ {0}
  <1>1. nextBatch' \in Nat \ {0} /\ \A i \in 1..Len(queue[user']) : queue[user'][i].id < nextBatch'
    <2>1. CASE nextBatch' = NextBatchId(queue)
      BY <2>1, NextIdIsNew
    <2>2. CASE user' = user /\ nextBatch' = nextBatch
      BY <2>2 DEF BaseInv, StoreInv
    <2> QED
      BY <2>1, <2>2
  <1> QED
    BY <1>1 DEF StoreInv, CallbacksFindBatches

\* A write is stored behind the others under the next number.
LEMMA StoreKeeps ==
  ASSUME BaseInv, StoreInv, RunWrite,
         Head(worker).write \in 1..Len(authors), authors[Head(worker).write] = user
  PROVE  /\ StoreInv' /\ nextBatch' \in Nat \ {0}
         /\ queue' \in [Users -> Seq(Batch)]
         /\ callbacks' \subseteq Users \X (Nat \ {0}) \X Writes
         /\ \E b \in Batch : /\ queue' = [queue EXCEPT ![user] = Append(queue[user], b)]
                             /\ b.write = Head(worker).write
  <1> DEFINE b == [id |-> nextBatch, write |-> Head(worker).write]
             q == queue[user]
  <1>1. /\ q \in Seq(Batch) /\ user \in Users /\ nextBatch \in Nat \ {0}
        /\ \A i \in 1..Len(q) : q[i].id < nextBatch /\ q[i].id \in Nat
    <2>1. q \in Seq(Batch) /\ user \in Users /\ nextBatch \in Nat \ {0}
      BY DEF BaseInv
    <2>2. \A i \in 1..Len(q) : q[i].id < nextBatch
      BY DEF StoreInv
    <2> HIDE DEF q
    <2> QED
      BY <2>1, <2>2, BatchTypes
  <1>2. b.write \in Writes
    BY BoundsAssumption DEF BaseInv, Writes
  <1>3. b \in Batch /\ b.id = nextBatch /\ b.write = Head(worker).write
    BY <1>1, <1>2 DEF Batch
  <1>4. Removed(q, b.id) = q
    <2> HIDE DEF b, q
    <2>1. \A i \in 1..Len(q) : q[i].id # b.id
      BY <1>1, <1>3
    <2> QED
      BY <1>1, <2>1, RemovedNone
  <1>5. queue' = [queue EXCEPT ![user] = Append(q, b)]
        /\ callbacks' = callbacks \cup {<<user, b.id, b.write>>}
        /\ nextBatch' = nextBatch + 1 /\ UNCHANGED <<user, authors>>
    BY <1>4 DEF RunWrite
  <1> HIDE DEF b
  <1> DEFINE r == Append(q, b)
  <1>6. /\ r \in Seq(Batch) /\ Len(r) = Len(q) + 1 /\ r[Len(q) + 1] = b
        /\ \A i \in 1..Len(q) : r[i] = q[i] /\ i \in 1..Len(r)
        /\ \A i \in 1..Len(r) : i \in 1..Len(q) \/ i = Len(q) + 1
        /\ Len(q) \in Nat
    <2> HIDE DEF q
    <2> QED
      BY <1>1, <1>3
  <1>7. /\ queue' \in [Users -> Seq(Batch)] /\ queue'[user] = r
        /\ \A u \in Users : u # user => queue'[u] = queue[u]
    <2> HIDE DEF r, q
    <2> QED
      BY <1>1, <1>5, <1>6 DEF BaseInv, r
  <1>8. callbacks' \subseteq Users \X (Nat \ {0}) \X Writes
    BY <1>1, <1>2, <1>3, <1>5 DEF BaseInv
  <1> HIDE DEF r
  <1>9. Increasing(r)
    <2>1. Increasing(q)
      BY <1>1 DEF StoreInv
    <2> HIDE DEF q
    <2>2. ASSUME NEW i \in 1..Len(r), NEW j \in 1..Len(r), i < j
          PROVE  r[i].id < r[j].id
      <3>1. i \in 1..Len(q)
        BY <1>6, <2>2
      <3>2. CASE j \in 1..Len(q)
        BY <1>6, <2>1, <2>2, <3>1, <3>2 DEF Increasing
      <3>3. CASE j = Len(q) + 1
        BY <1>1, <1>3, <1>6, <3>1, <3>3
      <3> QED
        BY <1>6, <3>2, <3>3
    <2> QED
      BY <2>2 DEF Increasing
  <1>10. \A u \in Users : Increasing(queue'[u])
    BY <1>7, <1>9 DEF StoreInv
  <1>11. \A i \in 1..Len(r) : r[i].id < nextBatch'
    <2> HIDE DEF q
    <2> TAKE i \in 1..Len(r)
    <2>1. CASE i \in 1..Len(q)
      <3>1. r[i].id < nextBatch /\ r[i].id \in Nat
        BY <1>1, <1>6, <2>1
      <3> QED
        BY <1>1, <1>5, <3>1
    <2>2. CASE i = Len(q) + 1
      <3>1. r[i].id = nextBatch
        BY <1>3, <1>6, <2>2
      <3> QED
        BY <1>1, <1>5, <3>1
    <2> QED
      BY <1>6, <2>1, <2>2
  <1>12. \E most \in Nat : \A u \in Users : \A i \in 1..Len(queue'[u]) : queue'[u][i].id <= most
    <2>1. PICK m \in Nat : \A u \in Users : \A i \in 1..Len(queue[u]) : queue[u][i].id <= m
      BY DEF StoreInv
    <2> DEFINE most == m + nextBatch
    <2>2. most \in Nat /\ nextBatch \in Nat
      BY <1>1
    <2>3. ASSUME NEW u \in Users, NEW i \in 1..Len(queue'[u])
          PROVE  queue'[u][i].id <= most
      <3>1. CASE u # user
        <4>1. queue'[u] = queue[u] /\ queue[u] \in Seq(Batch) /\ queue[u][i].id <= m
          BY <1>7, <2>1, <3>1, BaseFacts
        <4>2. queue[u][i].id \in Nat
          BY <4>1, BatchTypes
        <4> QED
          BY <2>2, <4>1, <4>2
      <3>2. CASE u = user
        <4>1. queue'[u] = r
          BY <1>7, <3>2
        <4>2. r[i] \in Batch /\ r[i].id < nextBatch + 1 /\ r[i].id \in Nat
          BY <1>5, <1>6, <1>11, <4>1, BatchTypes
        <4> QED
          BY <1>1, <2>2, <4>1, <4>2
      <3> QED
        BY <3>1, <3>2
    <2> QED
      BY <2>2, <2>3
  <1>13. \A u \in Users : \A i \in 1..Len(queue'[u]) :
           queue'[u][i].write \in 1..Len(authors) /\ authors[queue'[u][i].write] = u
    <2> TAKE u \in Users
    <2>1. CASE u # user
      BY <1>7, <2>1 DEF StoreInv
    <2>2. CASE u = user
      <3>1. \A i \in 1..Len(q) : q[i].write \in 1..Len(authors) /\ authors[q[i].write] = user
        BY <1>1 DEF StoreInv
      <3> QED
        BY <1>3, <1>6, <1>7, <2>2, <3>1
    <2> QED
      BY <2>1, <2>2
  <1>14. CallbacksFindBatches'
    <2> SUFFICES ASSUME NEW c \in callbacks'
                 PROVE  [id |-> c[2], write |-> c[3]] \in Batches(queue'[c[1]])
      BY DEF CallbacksFindBatches
    <2>1. CASE c \in callbacks
      <3>1. [id |-> c[2], write |-> c[3]] \in Batches(queue[c[1]]) /\ c[1] \in Users
        BY <2>1 DEF StoreInv, CallbacksFindBatches, BaseInv
      <3>2. Batches(queue[c[1]]) \subseteq Batches(queue'[c[1]])
        <4>1. CASE c[1] = user
          BY <1>6, <1>7, <4>1 DEF Batches
        <4>2. CASE c[1] # user
          BY <1>7, <3>1, <4>2
        <4> QED
          BY <4>1, <4>2
      <3> QED
        BY <3>1, <3>2
    <2>2. CASE c = <<user, b.id, b.write>>
      <3>1. [id |-> c[2], write |-> c[3]] = b
        BY <1>3, <2>2 DEF b
      <3>2. b \in Batches(r)
        BY <1>6 DEF Batches
      <3> QED
        BY <1>7, <2>2, <3>1, <3>2
    <2> QED
      BY <1>5, <2>1, <2>2
  <1>15. nextBatch' \in Nat \ {0}
    BY <1>1, <1>5
  <1>16. StoreInv'
    BY <1>5, <1>7, <1>10, <1>11, <1>12, <1>13, <1>14 DEF StoreInv
  <1> QED
    BY <1>3, <1>5, <1>7, <1>8, <1>15, <1>16

\* The first batch of the loaded queue ends, with its callback.
LEMMA TakeKeeps ==
  ASSUME BaseInv, StoreInv, NetInv, net.pipeline # <<>>,
         NEW verdict \in {"ok", "refused"}, TakeFront(verdict),
         UNCHANGED <<user, nextBatch, authors>>
  PROVE  /\ StoreInv' /\ failed' = FALSE
         /\ queue' = [queue EXCEPT ![user] = Tail(queue[user])]
         /\ queue[user] # <<>> /\ Head(net.pipeline) = Head(queue[user])
         /\ queue' \in [Users -> Seq(Batch)]
         /\ callbacks' \subseteq callbacks
         /\ heard' \in [Writes -> {"nothing", "ok", "refused"}]
  <1> DEFINE q == queue[user]
             front == Head(net.pipeline)
             r == Tail(q)
  <1>1. /\ q \in Seq(Batch) /\ user \in Users /\ Increasing(q)
        /\ net.pipeline \in Seq(Batch) /\ Begins(net.pipeline, q)
    BY DEF BaseInv, StoreInv, NetInv, StreamOK, Nets
  <1>2. q # <<>> /\ front = Head(q) /\ front \in Batches(q)
    <2> HIDE DEF q
    <2> QED
      BY <1>1, FrontOfBoth
  <1>3. Removed(q, front.id) = r
    <2> HIDE DEF q
    <2> QED
      BY <1>1, <1>2, RemovedFront
  <1>4. /\ queue' = [queue EXCEPT ![user] = r]
        /\ callbacks' = callbacks \ {c \in callbacks : c[1] = user /\ c[2] = front.id}
        /\ UNCHANGED <<user, nextBatch, authors>>
    BY <1>3 DEF TakeFront, Notify
  <1>5. failed' = FALSE
    BY <1>2 DEF TakeFront, BaseInv
  <1>6. heard' \in [Writes -> {"nothing", "ok", "refused"}]
    BY DEF TakeFront, Notify, BaseInv
  <1> HIDE DEF front
  <1>7. /\ r \in Seq(Batch) /\ Len(r) = Len(q) - 1 /\ Len(q) \in Nat \ {0}
        /\ \A i \in 1..Len(r) : r[i] = q[i + 1] /\ i + 1 \in 1..Len(q)
    <2> HIDE DEF q
    <2> QED
      BY <1>1, <1>2
  <1>8. /\ queue' \in [Users -> Seq(Batch)] /\ queue'[user] = r
        /\ \A u \in Users : u # user => queue'[u] = queue[u]
    <2> HIDE DEF r
    <2> QED
      BY <1>1, <1>4, <1>7 DEF BaseInv
  <1> HIDE DEF r
  <1>9. Increasing(r)
    <2> HIDE DEF q
    <2>1. ASSUME NEW i \in 1..Len(r), NEW j \in 1..Len(r), i < j
          PROVE  r[i].id < r[j].id
      BY <1>1, <1>7, <2>1 DEF Increasing
    <2> QED
      BY <2>1 DEF Increasing
  <1>10. \A u \in Users : Increasing(queue'[u])
    BY <1>8, <1>9 DEF StoreInv
  <1>11. \A i \in 1..Len(r) : r[i].id < nextBatch
    BY <1>7 DEF StoreInv
  <1>12. \E most \in Nat : \A u \in Users : \A i \in 1..Len(queue'[u]) : queue'[u][i].id <= most
    <2>1. PICK most \in Nat : \A u \in Users : \A i \in 1..Len(queue[u]) : queue[u][i].id <= most
      BY DEF StoreInv
    <2>2. \A u \in Users : \A i \in 1..Len(queue'[u]) : queue'[u][i].id <= most
      BY <1>1, <1>7, <1>8, <2>1
    <2> QED
      BY <2>2
  <1>13. \A u \in Users : \A i \in 1..Len(queue'[u]) :
           queue'[u][i].write \in 1..Len(authors) /\ authors[queue'[u][i].write] = u
    <2> TAKE u \in Users
    <2>1. CASE u # user
      BY <1>8, <2>1 DEF StoreInv
    <2>2. CASE u = user
      <3>1. \A i \in 1..Len(q) : q[i].write \in 1..Len(authors) /\ authors[q[i].write] = user
        BY <1>1 DEF StoreInv
      <3> HIDE DEF q
      <3> QED
        BY <1>7, <1>8, <2>2, <3>1
    <2> QED
      BY <2>1, <2>2
  <1>14. CallbacksFindBatches'
    <2> SUFFICES ASSUME NEW c \in callbacks'
                 PROVE  [id |-> c[2], write |-> c[3]] \in Batches(queue'[c[1]])
      BY DEF CallbacksFindBatches
    <2> DEFINE b == [id |-> c[2], write |-> c[3]]
    <2>1. c \in callbacks /\ c[1] \in Users /\ ~(c[1] = user /\ c[2] = front.id)
          /\ b \in Batches(queue[c[1]])
      BY <1>4 DEF StoreInv, CallbacksFindBatches, BaseInv
    <2>2. CASE c[1] # user
      BY <1>8, <2>1, <2>2
    <2>3. CASE c[1] = user
      <3>1. PICK i \in 1..Len(q) : b = q[i]
        BY <2>1, <2>3 DEF Batches
      <3>2. i # 1
        <4>1. b.id = c[2] /\ q[1] = front
          BY <1>1, <1>2
        <4> QED
          BY <2>1, <2>3, <3>1, <4>1
      <3>3. i - 1 \in 1..Len(r) /\ r[i - 1] = q[i]
        BY <1>7, <3>2
      <3> QED
        BY <1>8, <2>3, <3>1, <3>3 DEF Batches
    <2> QED
      BY <2>2, <2>3
  <1>15. StoreInv'
    <2>1. \A i \in 1..Len(queue'[user']) : queue'[user'][i].id < nextBatch'
      BY <1>4, <1>8, <1>11
    <2>2. UNCHANGED <<user, authors>>
      BY <1>4
    <2> QED
      BY <1>10, <1>12, <1>13, <1>14, <2>1, <2>2 DEF StoreInv
  <1> QED
    BY <1>2, <1>4, <1>5, <1>6, <1>8, <1>15 DEF front, r

-----------------------------------------------------------------------------
(* The stream in the actions that load, fill or take from a queue.           *)

LEMMA ChangeNet ==
  ASSUME BaseInv, StoreInv, NetInv, user' \in Users, UNCHANGED queue,
         net' = Restarted(net, queue[user'], provider.counter)
  PROVE  NetKept /\ net'.state # "Open" /\ Moves(net', queue[user'])
  <1>1. queue[user'] \in Seq(Batch) /\ Increasing(queue[user'])
    BY BaseFacts DEF StoreInv
  <1> QED
    BY <1>1, BaseFacts, RestartedKeeps DEF NetInv, NetKept

LEMMA WriteNet ==
  ASSUME BaseInv, StoreInv', NetInv, UNCHANGED user, NEW b \in Batch,
         queue' \in [Users -> Seq(Batch)],
         queue' = [queue EXCEPT ![user] = Append(queue[user], b)],
         net' = Fill(net, queue'[user], provider.counter)
  PROVE  NetKept /\ net'.closes = net.closes /\ net'.call.answers = net.call.answers
         /\ Moves(net', queue'[user])
  <1>1. /\ queue'[user] = Append(queue[user], b) /\ user \in Users
        /\ queue'[user] \in Seq(Batch)
    BY DEF BaseInv
  <1>2. Increasing(queue'[user])
    BY <1>1 DEF StoreInv
  <1>3. Begins(net.pipeline, queue'[user])
    <2>1. net.pipeline \in Seq(Batch) /\ Begins(net.pipeline, queue[user])
          /\ queue[user] \in Seq(Batch)
      BY BaseFacts DEF NetInv, StreamOK, Nets
    <2> QED
      BY <1>1, <2>1, BeginsLonger
  <1>4. StreamOK(net, queue'[user], user)
    BY <1>3 DEF NetInv, StreamOK
  <1>5. net.closes \in Nat
    BY BaseFacts DEF Nets
  <1> QED
    <2>1. net \in Nets /\ provider.counter \in Nat
      BY BaseFacts
    <2> DEFINE q == queue'[user]
               f == Fill(net, q, provider.counter)
    <2>2. q \in Seq(Batch) /\ Increasing(q) /\ StreamOK(net, q, user)
      BY <1>1, <1>2, <1>4
    <2> HIDE DEF q
    <2>3. /\ f \in Nets /\ StreamOK(f, q, user) /\ Asks(net, f, provider.counter)
          /\ f.closes = net.closes /\ f.call.answers = net.call.answers /\ Moves(f, q)
      <3>1. Filled(net, f, q, user, provider.counter)
        BY <2>1, <2>2, FillKeeps
      <3> HIDE DEF f
      <3> QED
        BY <3>1 DEF Filled
    <2>4. net' = f
      BY DEF q
    <2> HIDE DEF f
    <2> QED
      BY <1>5, <2>3, <2>4 DEF NetKept, q

\* An answer is about the pipeline's front.
LEMMA AnswerIsFront ==
  ASSUME BaseInv, NetInv, net.call.answers # <<>>
  PROVE  /\ net.shook /\ net.state = "Open" /\ net.pipeline # <<>>
         /\ Head(net.pipeline) = Head(net.call.answers).batch
         /\ net.pipeline \in Seq(Batch) /\ net.call \in Calls
  <1>1. net \in Nets /\ net.shook /\ net.state = "Open" /\ net.call \in Calls
        /\ net.pipeline \in Seq(Batch) /\ OnStream(net.call) = net.pipeline
    BY BaseFacts, NoCallType DEF NetInv, StreamOK, Nets
  <1> DEFINE c == [net.call EXCEPT !.answers = Tail(net.call.answers)]
  <1>2. Tail(net.call.answers) \in Seq(Answer)
    BY <1>1 DEF Calls
  <1>3. c \in Calls /\ c.sent = net.call.sent /\ c.answers = Tail(net.call.answers)
    BY <1>1, <1>2 DEF Calls
  <1> HIDE DEF c
  <1> QED
    BY <1>1, <1>3, OnStreamRead

LEMMA ReadResultNet ==
  ASSUME BaseInv, StoreInv', NetInv, net.call.answers # <<>>, UNCHANGED user,
         queue' \in [Users -> Seq(Batch)],
         queue' = [queue EXCEPT ![user] = Tail(queue[user])],
         net' = Fill([net EXCEPT !.pipeline = Tail(@), !.call.answers = Tail(@)],
                     queue'[user], provider.counter)
  PROVE  /\ NetKept /\ net'.closes = net.closes
         /\ net'.call.answers = Tail(net.call.answers)
         /\ Moves(net', queue'[user])
  <1>1. /\ net.shook /\ net.state = "Open" /\ net.pipeline # <<>>
        /\ net.pipeline \in Seq(Batch) /\ net.call \in Calls /\ net \in Nets
        /\ net.call.sent \in Seq(Batch) /\ net.call.answers \in Seq(Answer)
        /\ user \in Users /\ queue[user] \in Seq(Batch)
    BY AnswerIsFront, BaseFacts DEF Calls
  <1> DEFINE c == [net.call EXCEPT !.answers = Tail(net.call.answers)]
             p == Tail(net.pipeline)
             z == [net EXCEPT !.pipeline = p, !.call = c]
             q == queue'[user]
  <1>2. Tail(net.call.answers) \in Seq(Answer) /\ p \in Seq(Batch)
    BY <1>1
  <1>3. /\ c \in Calls /\ c.sent = net.call.sent /\ c.as = net.call.as
        /\ c.answers = Tail(net.call.answers)
    BY <1>1, <1>2 DEF Calls
  <1>4. [net EXCEPT !.pipeline = Tail(@), !.call.answers = Tail(@)] = z
    BY <1>1 DEF Nets, Calls
  <1> HIDE DEF c, p
  <1>5. /\ z \in Nets /\ z.pipeline = p /\ z.call = c /\ z.state = net.state
        /\ z.shook = net.shook /\ z.closes = net.closes /\ z.idle = net.idle
        /\ z.asked = net.asked
    BY <1>1, <1>2, <1>3 DEF Nets
  <1> HIDE DEF z
  <1>6. OnStream(c) = p
    <2>1. OnStream(net.call) = net.pipeline
      BY <1>1 DEF NetInv, StreamOK
    <2> QED
      BY <1>1, <1>3, <2>1, OnStreamRead DEF p
  <1>7. q = Tail(queue[user]) /\ q \in Seq(Batch) /\ Increasing(q)
    BY <1>1 DEF StoreInv, BaseInv
  <1>8. Begins(p, q) /\ Len(p) <= MaxPending
    <2>1. Begins(net.pipeline, queue[user]) /\ Len(net.pipeline) <= MaxPending
      BY DEF NetInv, StreamOK
    <2>2. Begins(p, q) /\ Len(p) <= Len(net.pipeline)
      BY <1>1, <1>7, <2>1, FrontOfBoth DEF p
    <2>3. Len(p) \in Nat /\ Len(net.pipeline) \in Nat
      BY <1>1, <1>2
    <2> QED
      BY <2>1, <2>2, <2>3, BoundsAssumption
  <1> HIDE DEF q
  <1>9. StreamOK(z, q, user)
    BY <1>1, <1>3, <1>5, <1>6, <1>8 DEF NetInv, StreamOK
  <1> DEFINE f == Fill(z, q, provider.counter)
  <1>10. /\ f \in Nets /\ StreamOK(f, q, user) /\ Asks(z, f, provider.counter)
         /\ f.closes = z.closes /\ f.call.answers = z.call.answers /\ Moves(f, q)
    <2>1. z \in Nets /\ provider.counter \in Nat
      BY <1>5, BaseFacts
    <2> QED
      <3>1. q \in Seq(Batch) /\ Increasing(q)
        BY <1>7
      <3>2. Filled(z, f, q, user, provider.counter)
        BY <1>9, <2>1, <3>1, FillKeeps
      <3> HIDE DEF f
      <3> QED
        BY <3>2 DEF Filled
  <1>11. net' = f
    BY <1>4 DEF q
  <1> HIDE DEF f
  <1>12. Asks(net, f, provider.counter) /\ net.closes \in Nat
    BY <1>1, <1>5, <1>10 DEF Asks, Nets
  <1> QED
    BY <1>3, <1>5, <1>10, <1>11, <1>12 DEF NetKept, q

LEMMA ReadRefusalNet ==
  ASSUME BaseInv, StoreInv', NetInv, net.call.answers # <<>>, UNCHANGED user,
         queue' \in [Users -> Seq(Batch)],
         queue' = [queue EXCEPT ![user] = Tail(queue[user])],
         net' = [Fill([Closed(net, "Initial") EXCEPT !.pipeline = Tail(@)],
                      queue'[user], provider.counter) EXCEPT !.shook = FALSE]
  PROVE  NetKept /\ net'.state # "Open" /\ Moves(net', queue'[user])
  <1>1. /\ net.pipeline # <<>> /\ net.pipeline \in Seq(Batch) /\ net \in Nets
        /\ user \in Users /\ queue[user] \in Seq(Batch) /\ net.closes \in Nat
        /\ "Initial" \in States
    BY AnswerIsFront, BaseFacts DEF Nets, States
  <1> DEFINE c == Closed(net, "Initial")
             p == Tail(net.pipeline)
             y == [c EXCEPT !.pipeline = p]
             z == [y EXCEPT !.shook = FALSE]
             q == queue'[user]
  <1>2. /\ c \in Nets /\ c.pipeline = net.pipeline /\ c.state = "Initial"
        /\ c.closes = net.closes + 1 /\ ~c.idle /\ c.call = NoCall
        /\ c.asked = net.asked
    BY <1>1, ClosedFacts
  <1>3. p \in Seq(Batch)
    BY <1>1
  <1>4. [c EXCEPT !.pipeline = Tail(@)] = y
    BY <1>2
  <1> HIDE DEF c, p
  <1>5. /\ y \in Nets /\ y.pipeline = p /\ y.state = "Initial"
        /\ y.closes = c.closes /\ y.idle = c.idle /\ y.call = c.call /\ y.asked = c.asked
    BY <1>2, <1>3 DEF Nets
  <1> HIDE DEF y
  <1>6. /\ z \in Nets /\ z.pipeline = p /\ z.state = "Initial" /\ ~z.shook
        /\ z.closes = c.closes /\ z.idle = c.idle /\ z.call = c.call /\ z.asked = c.asked
    BY <1>5 DEF Nets
  <1>7. q = Tail(queue[user]) /\ q \in Seq(Batch) /\ Increasing(q)
    BY <1>1 DEF StoreInv, BaseInv
  <1>8. Begins(p, q) /\ Len(p) <= MaxPending
    <2>1. Begins(net.pipeline, queue[user]) /\ Len(net.pipeline) <= MaxPending
      BY DEF NetInv, StreamOK
    <2>2. Begins(p, q) /\ Len(p) <= Len(net.pipeline)
      BY <1>1, <1>7, <2>1, FrontOfBoth DEF p
    <2>3. Len(p) \in Nat /\ Len(net.pipeline) \in Nat
      BY <1>1, <1>3
    <2> QED
      BY <2>1, <2>2, <2>3, BoundsAssumption
  <1>9. net' = [Fill(y, q, provider.counter) EXCEPT !.shook = FALSE]
    BY <1>4 DEF c
  <1>10. net' = Fill(z, q, provider.counter)
    <2>1. y \in Nets /\ y.state = "Initial"
      BY <1>5
    <2> HIDE DEF q
    <2> QED
      BY <1>9, <2>1, ForgetHandshake
  <1> HIDE DEF q, z
  <1>11. StreamOK(z, q, user)
    BY <1>2, <1>6, <1>8, DownIsOK
  <1> DEFINE f == Fill(z, q, provider.counter)
  <1>12. /\ f \in Nets /\ StreamOK(f, q, user) /\ Asks(z, f, provider.counter)
         /\ f.closes = z.closes /\ f.state # "Open" /\ Moves(f, q)
    <2>1. z \in Nets /\ provider.counter \in Nat /\ z.state # "Open"
      BY <1>6, BaseFacts
    <2>2. q \in Seq(Batch) /\ Increasing(q)
      BY <1>7
    <2> QED
      <3>1. Filled(z, f, q, user, provider.counter)
        BY <1>11, <2>1, <2>2, FillKeeps
      <3> HIDE DEF f
      <3> QED
        BY <2>1, <3>1 DEF Filled
  <1> HIDE DEF f
  <1>13. Asks(net, f, provider.counter) /\ net.closes <= f.closes
    BY <1>1, <1>2, <1>6, <1>12 DEF Asks
  <1> QED
    BY <1>10, <1>12, <1>13 DEF NetKept, q, f

-----------------------------------------------------------------------------
(* Tokens on their way: asked for, on the main queue or on the worker queue. *)

TokenFor(x, c) == x.run = "token" /\ x.closes = c
NoneIn(s, c) == \A i \in 1..Len(s) : ~TokenFor(s[i], c)
OneIn(s, c) ==
  \A i, j \in 1..Len(s) : TokenFor(s[i], c) /\ TokenFor(s[j], c) => i = j
UpTo(s, c) == \A i \in 1..Len(s) : s[i].run = "token" => s[i].closes \in 0..c
NoneAsked(A, c) == \A r \in A : r.closes # c
OneAsked(A, c) == \A r, s \in A : r.closes = c /\ s.closes = c => r = s

\* At most one token is on its way for the stream as it is now, closed c
\* times, and only while the stream is starting.
Tokens(A, m, w, c, state) ==
  /\ (\A r \in A : r.closes \in 0..c) /\ UpTo(m, c) /\ UpTo(w, c)
  /\ state # "Starting" => NoneAsked(A, c) /\ NoneIn(m, c) /\ NoneIn(w, c)
  /\ OneAsked(A, c) /\ OneIn(m, c) /\ OneIn(w, c)
  /\ NoneAsked(A, c) \/ NoneIn(m, c)
  /\ NoneAsked(A, c) \/ NoneIn(w, c)
  /\ NoneIn(m, c) \/ NoneIn(w, c)

LEMMA TokenTail ==
  ASSUME NEW S, NEW s \in Seq(S), s # <<>>, NEW c
  PROVE  /\ UpTo(s, c) => UpTo(Tail(s), c)
         /\ NoneIn(s, c) => NoneIn(Tail(s), c)
         /\ OneIn(s, c) => OneIn(Tail(s), c)
         /\ OneIn(s, c) /\ TokenFor(Head(s), c) => NoneIn(Tail(s), c)
  <1>1. /\ Tail(s) \in Seq(S) /\ Len(s) \in Nat \ {0} /\ Len(Tail(s)) = Len(s) - 1
        /\ \A i \in 1..Len(Tail(s)) : Tail(s)[i] = s[i + 1] /\ i + 1 \in 1..Len(s)
        /\ Head(s) = s[1] /\ 1 \in 1..Len(s)
    OBVIOUS
  <1> DEFINE t == Tail(s)
  <1>2. UpTo(s, c) => UpTo(t, c)
    BY <1>1 DEF UpTo
  <1>3. NoneIn(s, c) => NoneIn(t, c)
    BY <1>1 DEF NoneIn
  <1>4. OneIn(s, c) => OneIn(t, c)
    BY <1>1 DEF OneIn
  <1>5. OneIn(s, c) /\ TokenFor(Head(s), c) => NoneIn(t, c)
    BY <1>1 DEF OneIn, NoneIn
  <1> QED
    BY <1>2, <1>3, <1>4, <1>5

LEMMA TokenAppend ==
  ASSUME NEW S, NEW s \in Seq(S), NEW x \in S, NEW c
  PROVE  /\ UpTo(s, c) /\ (x.run = "token" => x.closes \in 0..c) => UpTo(Append(s, x), c)
         /\ NoneIn(s, c) /\ ~TokenFor(x, c) => NoneIn(Append(s, x), c)
         /\ OneIn(s, c) /\ ~TokenFor(x, c) => OneIn(Append(s, x), c)
         /\ NoneIn(s, c) => OneIn(Append(s, x), c)
  <1> DEFINE t == Append(s, x)
  <1>1. /\ \A i \in 1..Len(t) : \/ i \in 1..Len(s) /\ t[i] = s[i]
                                \/ i = Len(s) + 1 /\ t[i] = x
    OBVIOUS
  <1> HIDE DEF t
  <1>2. UpTo(s, c) /\ (x.run = "token" => x.closes \in 0..c) => UpTo(t, c)
    BY <1>1 DEF UpTo
  <1>3. NoneIn(s, c) /\ ~TokenFor(x, c) => NoneIn(t, c)
    BY <1>1 DEF NoneIn
  <1>4. OneIn(s, c) /\ ~TokenFor(x, c) => OneIn(t, c)
    BY <1>1 DEF OneIn
  <1>5. NoneIn(s, c) => OneIn(t, c)
    BY <1>1 DEF OneIn, NoneIn
  <1> QED
    BY <1>2, <1>3, <1>4, <1>5 DEF t

LEMMA TokenHigher ==
  ASSUME NEW s, NEW c \in Nat, NEW d \in Nat, c < d, UpTo(s, c)
  PROVE  UpTo(s, d) /\ NoneIn(s, d) /\ OneIn(s, d)
  BY DEF UpTo, NoneIn, OneIn, TokenFor

\* The stream closes or starts while the queues stay as they are.
LEMMA TokenNet ==
  ASSUME NEW n \in Nets, NEW k \in Nets, NEW m, NEW w, NEW counter \in Nat,
         Tokens(n.asked, m, w, n.closes, n.state), Asks(n, k, counter),
         n.closes <= k.closes
  PROVE  Tokens(k.asked, m, w, k.closes, k.state)
  <1> DEFINE A == n.asked
             B == k.asked
             c == n.closes
             d == k.closes
             a == Asked(counter, d)
  <1>1. c \in Nat /\ d \in Nat /\ a.closes = d
    BY AskedType DEF Nets
  <1> HIDE DEF a
  <1>2. \A r \in A : r.closes \in 0..c
    BY DEF Tokens
  <1>3. CASE c = d
    <2>1. CASE B = A /\ (k.state = "Starting" <=> n.state = "Starting")
      BY <1>3, <2>1 DEF Tokens
    <2>2. CASE B = A \cup {a} /\ k.state = "Starting" /\ n.state # "Starting"
      <3>1. NoneAsked(A, c) /\ NoneIn(m, c) /\ NoneIn(w, c)
        BY <2>2 DEF Tokens
      <3>2. OneAsked(B, d) /\ \A r \in B : r.closes \in 0..d
        BY <1>1, <1>2, <1>3, <2>2, <3>1 DEF NoneAsked, OneAsked
      <3> QED
        BY <1>3, <2>2, <3>1, <3>2 DEF Tokens
    <2> QED
      BY <1>3, <2>1, <2>2 DEF Asks, a
  <1>4. CASE c < d
    <2>1. /\ UpTo(m, d) /\ NoneIn(m, d) /\ OneIn(m, d)
          /\ UpTo(w, d) /\ NoneIn(w, d) /\ OneIn(w, d)
      BY <1>1, <1>4, TokenHigher DEF Tokens
    <2>2. \A r \in A : r.closes # d /\ r.closes \in 0..d
      BY <1>1, <1>2, <1>4
    <2>3. CASE B = A /\ k.state # "Starting"
      BY <2>1, <2>2, <2>3 DEF Tokens, NoneAsked, OneAsked
    <2>4. CASE B = A \cup {a} /\ k.state = "Starting"
      <3>1. OneAsked(B, d) /\ \A r \in B : r.closes \in 0..d
        BY <1>1, <2>2, <2>4 DEF OneAsked
      <3> QED
        BY <2>1, <2>4, <3>1 DEF Tokens
    <2> QED
      BY <1>1, <1>4, <2>3, <2>4 DEF Asks, a
  <1> QED
    BY <1>1, <1>3, <1>4

\* What the queues may do to the tokens on their way.
LEMMA TokenMoves ==
  ASSUME NEW A, NEW M, NEW m \in Seq(M), NEW W, NEW w \in Seq(W), NEW c \in Nat,
         NEW state, Tokens(A, m, w, c, state)
  PROVE  /\ \A x \in M : x.run # "token" => Tokens(A, Append(m, x), w, c, state)
         /\ \A x \in W : x.run # "token" => Tokens(A, m, Append(w, x), c, state)
         /\ m # <<>> => Tokens(A, Tail(m), w, c, state)
         /\ w # <<>> => Tokens(A, m, Tail(w), c, state)
         /\ \A r \in A : \A a : a.closes = r.closes =>
               Tokens((A \ {r}) \cup {a}, m, w, c, state)
         /\ \A r \in A, x \in M : x.closes = r.closes =>
               Tokens(A \ {r}, Append(m, x), w, c, state)
         /\ \A a : m # <<>> /\ Head(m).run = "token" /\ a.closes = Head(m).closes =>
               Tokens(A \cup {a}, Tail(m), w, c, state)
         /\ \A x \in W : m # <<>> /\ Head(m).run = "token" /\ x.closes = Head(m).closes =>
               Tokens(A, Tail(m), Append(w, x), c, state)
         /\ w # <<>> /\ TokenFor(Head(w), c) =>
               state = "Starting" /\ Tokens(A, m, Tail(w), c, "Open")
  <1>1. ASSUME NEW x \in M, x.run # "token"
        PROVE  Tokens(A, Append(m, x), w, c, state)
    BY <1>1, TokenAppend DEF Tokens, TokenFor
  <1>2. ASSUME NEW x \in W, x.run # "token"
        PROVE  Tokens(A, m, Append(w, x), c, state)
    BY <1>2, TokenAppend DEF Tokens, TokenFor
  <1>3. ASSUME m # <<>>
        PROVE  Tokens(A, Tail(m), w, c, state)
    BY <1>3, TokenTail DEF Tokens
  <1>4. ASSUME w # <<>>
        PROVE  Tokens(A, m, Tail(w), c, state)
    BY <1>4, TokenTail DEF Tokens
  <1>5. ASSUME NEW r \in A, NEW a, a.closes = r.closes
        PROVE  Tokens((A \ {r}) \cup {a}, m, w, c, state)
    BY <1>5 DEF Tokens, NoneAsked, OneAsked
  <1>6. ASSUME NEW r \in A, NEW x \in M, x.closes = r.closes
        PROVE  Tokens(A \ {r}, Append(m, x), w, c, state)
    <2>1. r.closes \in 0..c
      BY DEF Tokens
    <2>2. UpTo(Append(m, x), c)
      BY <1>6, <2>1, TokenAppend DEF Tokens
    <2>3. CASE r.closes = c
      <3>1. NoneIn(m, c) /\ NoneIn(w, c) /\ state = "Starting" /\ NoneAsked(A \ {r}, c)
        BY <2>3 DEF Tokens, NoneAsked, OneAsked
      <3>2. OneIn(Append(m, x), c)
        BY <3>1, TokenAppend
      <3> QED
        BY <2>2, <3>1, <3>2 DEF Tokens, NoneAsked, OneAsked
    <2>4. CASE r.closes # c
      <3>1. ~TokenFor(x, c)
        BY <1>6, <2>4 DEF TokenFor
      <3>2. /\ NoneIn(m, c) => NoneIn(Append(m, x), c)
            /\ OneIn(m, c) => OneIn(Append(m, x), c)
        BY <3>1, TokenAppend
      <3> QED
        BY <2>2, <3>2 DEF Tokens, NoneAsked, OneAsked
    <2> QED
      BY <2>3, <2>4
  <1>7. ASSUME NEW a, m # <<>>, Head(m).run = "token", a.closes = Head(m).closes
        PROVE  Tokens(A \cup {a}, Tail(m), w, c, state)
    <2>1. 1 \in 1..Len(m) /\ Head(m) = m[1]
      BY <1>7
    <2>2. a.closes \in 0..c
      BY <1>7, <2>1 DEF Tokens, UpTo
    <2>3. Tokens(A, Tail(m), w, c, state)
      BY <1>3, <1>7
    <2>4. CASE a.closes = c
      <3>1. TokenFor(Head(m), c)
        BY <1>7, <2>4 DEF TokenFor
      <3>2. ~NoneIn(m, c) /\ NoneIn(Tail(m), c)
        BY <1>7, <2>1, <3>1, TokenTail DEF Tokens, NoneIn
      <3>3. NoneAsked(A, c) /\ NoneIn(w, c) /\ state = "Starting"
        BY <3>2 DEF Tokens
      <3> QED
        BY <2>2, <2>3, <3>2, <3>3 DEF Tokens, NoneAsked, OneAsked
    <2>5. CASE a.closes # c
      BY <2>2, <2>3, <2>5 DEF Tokens, NoneAsked, OneAsked
    <2> QED
      BY <2>4, <2>5
  <1>8. ASSUME NEW x \in W, m # <<>>, Head(m).run = "token", x.closes = Head(m).closes
        PROVE  Tokens(A, Tail(m), Append(w, x), c, state)
    <2>1. 1 \in 1..Len(m) /\ Head(m) = m[1]
      BY <1>8
    <2>2. x.closes \in 0..c
      BY <1>8, <2>1 DEF Tokens, UpTo
    <2>3. Tokens(A, Tail(m), w, c, state)
      BY <1>3, <1>8
    <2>4. UpTo(Append(w, x), c)
      BY <2>2, TokenAppend DEF Tokens
    <2>5. CASE x.closes = c
      <3>1. TokenFor(Head(m), c)
        BY <1>8, <2>5 DEF TokenFor
      <3>2. ~NoneIn(m, c) /\ NoneIn(Tail(m), c)
        BY <1>8, <2>1, <3>1, TokenTail DEF Tokens, NoneIn
      <3>3. NoneAsked(A, c) /\ NoneIn(w, c) /\ state = "Starting"
        BY <3>2 DEF Tokens
      <3>4. OneIn(Append(w, x), c)
        BY <3>3, TokenAppend
      <3> QED
        BY <2>3, <2>4, <3>2, <3>3, <3>4 DEF Tokens
    <2>6. CASE x.closes # c
      <3>1. ~TokenFor(x, c)
        BY <2>6 DEF TokenFor
      <3>2. /\ NoneIn(w, c) => NoneIn(Append(w, x), c)
            /\ OneIn(w, c) => OneIn(Append(w, x), c)
        BY <3>1, TokenAppend
      <3> QED
        BY <2>3, <2>4, <3>2 DEF Tokens
    <2> QED
      BY <2>5, <2>6
  <1>9. ASSUME w # <<>>, TokenFor(Head(w), c)
        PROVE  state = "Starting" /\ Tokens(A, m, Tail(w), c, "Open")
    <2>1. 1 \in 1..Len(w) /\ Head(w) = w[1]
      BY <1>9
    <2>2. ~NoneIn(w, c) /\ NoneIn(Tail(w), c)
      BY <1>9, <2>1, TokenTail DEF Tokens, NoneIn
    <2>3. NoneAsked(A, c) /\ NoneIn(m, c) /\ state = "Starting"
      BY <2>2 DEF Tokens
    <2> QED
      BY <1>4, <1>9, <2>2, <2>3 DEF Tokens
  <1>10. /\ \A x \in M : x.run # "token" => Tokens(A, Append(m, x), w, c, state)
         /\ \A x \in W : x.run # "token" => Tokens(A, m, Append(w, x), c, state)
    BY <1>1, <1>2
  <1>11. \A r \in A : \A a : a.closes = r.closes => Tokens((A \ {r}) \cup {a}, m, w, c, state)
    BY <1>5
  <1>12. \A r \in A, x \in M : x.closes = r.closes =>
            Tokens(A \ {r}, Append(m, x), w, c, state)
    BY <1>6
  <1>13. \A a : m # <<>> /\ Head(m).run = "token" /\ a.closes = Head(m).closes =>
            Tokens(A \cup {a}, Tail(m), w, c, state)
    BY <1>7
  <1>14. \A x \in W : m # <<>> /\ Head(m).run = "token" /\ x.closes = Head(m).closes =>
            Tokens(A, Tail(m), Append(w, x), c, state)
    BY <1>8
  <1> QED
    BY <1>3, <1>4, <1>9, <1>10, <1>11, <1>12, <1>13, <1>14

TokenInv == Tokens(net.asked, main, worker, net.closes, net.state)

-----------------------------------------------------------------------------
(* Whose task it is.                                                         *)

Owner(t) == IF t.run = "write" THEN authors[t.write] ELSE t.user

\* The worker queue is in the order of the main thread's notifications: a
\* task belongs to the user of the change of user before it, in the end to
\* the user the credentials provider has.
OwnerInv ==
  /\ \A i \in 1..Len(worker) :
        worker[i].run = "write" => worker[i].write \in 1..Len(authors)
  /\ worker = <<>> => provider.user = user
  /\ worker # <<>> => /\ provider.user = Owner(worker[Len(worker)])
                      /\ worker[1].run # "change" => Owner(worker[1]) = user
  /\ \A i \in 1..Len(worker) - 1 :
        worker[i + 1].run # "change" => Owner(worker[i + 1]) = Owner(worker[i])

\* A task is enqueued for the user the provider has by then.
LEMMA OwnerAppend ==
  ASSUME BaseInv, OwnerInv, NEW x \in Task, worker' = Append(worker, x),
         user' = user, authors' \in Seq(Users), Len(authors) <= Len(authors'),
         \A i \in 1..Len(authors) : authors'[i] = authors[i],
         x.run = "write" => x.write \in 1..Len(authors'),
         provider'.user = IF x.run = "write" THEN authors'[x.write] ELSE x.user,
         x.run # "change" => provider'.user = provider.user
  PROVE  OwnerInv'
  <1> DEFINE n == Len(worker)
             w == worker'
  <1>1. worker \in Seq(Task) /\ authors \in Seq(Users)
    BY DEF BaseInv
  <1>2. /\ n \in Nat /\ Len(w) = n + 1 /\ w[n + 1] = x
        /\ \A i \in 1..n : w[i] = worker[i]
        /\ w # <<>>
    BY <1>1
  <1>3. \A i \in 1..n : worker[i].run = "write" => worker[i].write \in 1..Len(authors)
    BY DEF OwnerInv
  <1> DEFINE o(t) == IF t.run = "write" THEN authors'[t.write] ELSE t.user
  <1>4. \A i \in 1..n : o(w[i]) = Owner(worker[i])
    BY <1>2, <1>3 DEF Owner
  <1>5. \A i \in 1..Len(w) : w[i].run = "write" => w[i].write \in 1..Len(authors')
    <2>1. Len(authors) \in Nat /\ Len(authors') \in Nat
      BY <1>1
    <2> TAKE i \in 1..Len(w)
    <2>2. CASE i \in 1..n
      BY <1>2, <1>3, <2>1, <2>2
    <2>3. CASE i = n + 1
      BY <1>2, <2>3
    <2> QED
      BY <1>2, <2>2, <2>3
  <1>6. provider'.user = o(x)
    OBVIOUS
  <1>7. x.run # "change" => o(x) = IF n = 0 THEN user ELSE Owner(worker[n])
    <2>1. n = 0 => worker = <<>>
      BY <1>1
    <2> QED
      BY <1>2, <1>6, <2>1 DEF OwnerInv
  <1>8. w[1].run # "change" => o(w[1]) = user
    <2>1. CASE n = 0
      BY <1>2, <1>7, <2>1
    <2>2. CASE n # 0
      <3>1. 1 \in 1..n /\ worker # <<>>
        BY <1>2, <2>2
      <3> QED
        BY <1>2, <1>4, <3>1 DEF OwnerInv
    <2> QED
      BY <2>1, <2>2
  <1>9. \A i \in 1..Len(w) - 1 : w[i + 1].run # "change" => o(w[i + 1]) = o(w[i])
    <2> TAKE i \in 1..Len(w) - 1
    <2>1. i \in 1..n
      BY <1>2
    <2>2. CASE i = n
      BY <1>2, <1>4, <1>7, <2>1, <2>2
    <2>3. CASE i # n
      <3>1. i + 1 \in 1..n /\ i \in 1..n - 1
        BY <1>2, <2>1, <2>3
      <3> QED
        BY <1>2, <1>4, <3>1 DEF OwnerInv
    <2> QED
      BY <2>2, <2>3
  <1> HIDE DEF w
  <1>10. OwnerInv' = (
           /\ \A i \in 1..Len(w) : w[i].run = "write" => w[i].write \in 1..Len(authors')
           /\ w = <<>> => provider'.user = user'
           /\ w # <<>> => /\ provider'.user = o(w[Len(w)])
                          /\ w[1].run # "change" => o(w[1]) = user'
           /\ \A i \in 1..Len(w) - 1 : w[i + 1].run # "change" => o(w[i + 1]) = o(w[i]))
    BY DEF OwnerInv, Owner, w
  <1> QED
    BY <1>2, <1>5, <1>6, <1>8, <1>9, <1>10

\* The worker queue runs its first task.
LEMMA OwnerTail ==
  ASSUME BaseInv, OwnerInv, worker # <<>>, worker' = Tail(worker),
         UNCHANGED <<provider, authors>>,
         user' = IF Head(worker).run = "change" THEN Head(worker).user ELSE user
  PROVE  /\ OwnerInv' /\ user' = Owner(Head(worker))
         /\ Head(worker).run = "write" => Head(worker).write \in 1..Len(authors)
  <1> DEFINE n == Len(worker)
             w == worker'
  <1>1. worker \in Seq(Task)
    BY DEF BaseInv
  <1>2. /\ n \in Nat \ {0} /\ Len(w) = n - 1
        /\ \A i \in 1..Len(w) : w[i] = worker[i + 1] /\ i + 1 \in 1..n /\ i \in 1..n - 1
        /\ Head(worker) = worker[1] /\ 1 \in 1..n /\ w \in Seq(Task)
    BY <1>1
  <1>3. user' = Owner(worker[1])
    BY <1>2 DEF OwnerInv, Owner
  <1>4. \A i \in 1..Len(w) : w[i].run = "write" => w[i].write \in 1..Len(authors)
    BY <1>2 DEF OwnerInv
  <1>5. w = <<>> => provider.user = user'
    <2>1. w = <<>> => n = 1
      BY <1>2
    <2>2. provider.user = Owner(worker[n])
      BY DEF OwnerInv
    <2> QED
      BY <1>3, <2>1, <2>2
  <1>6. w # <<>> => /\ provider.user = Owner(w[Len(w)])
                    /\ w[1].run # "change" => Owner(w[1]) = user'
    <2> SUFFICES ASSUME w # <<>>
                 PROVE  /\ provider.user = Owner(w[Len(w)])
                        /\ w[1].run # "change" => Owner(w[1]) = user'
      OBVIOUS
    <2>1. Len(w) \in 1..Len(w) /\ 1 \in 1..Len(w) /\ Len(w) + 1 = n /\ 1 \in 1..n - 1
      BY <1>2
    <2>2. w[Len(w)] = worker[n] /\ w[1] = worker[1 + 1]
      BY <1>2, <2>1
    <2> HIDE DEF w
    <2> QED
      BY <1>3, <2>1, <2>2 DEF OwnerInv
  <1>7. \A i \in 1..Len(w) - 1 : w[i + 1].run # "change" => Owner(w[i + 1]) = Owner(w[i])
    <2> TAKE i \in 1..Len(w) - 1
    <2>1. i \in 1..Len(w) /\ i + 1 \in 1..Len(w) /\ i + 1 \in 1..n - 1
      BY <1>2
    <2>2. w[i] = worker[i + 1] /\ w[i + 1] = worker[(i + 1) + 1]
      BY <1>2, <2>1
    <2> QED
      BY <2>1, <2>2 DEF OwnerInv
  <1> HIDE DEF w
  <1>8. OwnerInv' = (
           /\ \A i \in 1..Len(w) : w[i].run = "write" => w[i].write \in 1..Len(authors)
           /\ w = <<>> => provider.user = user'
           /\ w # <<>> => /\ provider.user = Owner(w[Len(w)])
                          /\ w[1].run # "change" => Owner(w[1]) = user'
           /\ \A i \in 1..Len(w) - 1 : w[i + 1].run # "change" => Owner(w[i + 1]) = Owner(w[i]))
    BY DEF OwnerInv, Owner, w
  <1> QED
    BY <1>2, <1>3, <1>4, <1>5, <1>6, <1>7, <1>8 DEF OwnerInv

-----------------------------------------------------------------------------
(* Whose token it is.                                                        *)

NoNotify(s, k) == \A j \in 1..k : s[j].run # "notify"

\* What the main queue knows of the current user: the last notification under
\* way is of the user FirebaseAuth has, and a token that was asked for and
\* answered between two notifications is of the user the provider has.
NoticeInv ==
  /\ \A r \in net.asked :
       /\ r.counter <= provider.counter
       /\ r.read /\ r.counter = provider.counter /\ NoNotify(main, Len(main)) =>
            r.user = provider.user
  /\ \A i \in 1..Len(main) : main[i].run = "token" =>
       /\ main[i].counter <= provider.counter
       /\ main[i].counter = provider.counter /\ NoNotify(main, i - 1) =>
            main[i].user = provider.user
  /\ \A i \in 1..Len(main) :
       main[i].run = "notify" /\ (\A j \in i + 1..Len(main) : main[j].run # "notify") =>
         main[i].user = auth
  /\ NoNotify(main, Len(main)) => auth = provider.user

LEMMA RequestTypes ==
  ASSUME BaseInv
  PROVE  /\ \A r \in net.asked : r.counter \in Nat /\ r.closes \in Nat /\ r.user \in Users
                                 /\ r \in Request
         /\ \A i \in 1..Len(main) : main[i] \in Block
         /\ provider.counter \in Nat /\ main \in Seq(Block) /\ Len(main) \in Nat
  <1>1. net.asked \subseteq Request /\ main \in Seq(Block)
    BY BaseFacts DEF Nets, BaseInv
  <1>2. \A r \in Request : r.counter \in Nat /\ r.closes \in Nat /\ r.user \in Users
    BY DEF Request
  <1>3. provider.counter \in Nat
    BY BaseFacts
  <1>4. Len(main) \in Nat
    BY <1>1
  <1> QED
    BY <1>1, <1>2, <1>3, <1>4

LEMMA BlockTypes ==
  ASSUME NEW b \in Block
  PROVE  /\ b.run = "notify" => b.user \in Users
         /\ b.run = "token" => /\ b.user \in Users /\ b.counter \in Nat
                               /\ b.closes \in Nat /\ b.ok \in BOOLEAN
         /\ b.run \in {"notify", "token"}
  BY DEF Block

\* Nothing but questions for tokens is new.
LEMMA NoticeAsks ==
  ASSUME BaseInv, NoticeInv, UNCHANGED <<auth, main, provider>>,
         \A r \in net'.asked : r \in net.asked \/ (~r.read /\ r.counter = provider.counter)
  PROVE  NoticeInv'
  BY RequestTypes DEF NoticeInv, NoNotify

LEMMA NoticeChange ==
  ASSUME BaseInv, NoticeInv, NEW u \in Users, ChangeUser(u)
  PROVE  NoticeInv'
  <1> DEFINE n == Len(main)
             x == [run |-> "notify", user |-> u]
             m == Append(main, x)
  <1>1. /\ n \in Nat /\ Len(m) = n + 1 /\ m[n + 1] = x
        /\ \A i \in 1..n : m[i] = main[i]
        /\ m # <<>> /\ x.run = "notify" /\ x.user = u
    BY RequestTypes
  <1>2. main' = m /\ auth' = u /\ UNCHANGED <<provider, net>>
    BY DEF ChangeUser
  <1> HIDE DEF m, x
  <1>3. ~NoNotify(m, Len(m))
    BY <1>1 DEF NoNotify
  <1>4. \A i \in 1..Len(m) : m[i].run = "token" =>
          /\ m[i].counter <= provider.counter
          /\ m[i].counter = provider.counter /\ NoNotify(m, i - 1) =>
               m[i].user = provider.user
    <2> TAKE i \in 1..Len(m)
    <2>1. CASE i \in 1..n
      <3>1. NoNotify(m, i - 1) => NoNotify(main, i - 1)
        BY <1>1, <2>1 DEF NoNotify
      <3> QED
        BY <1>1, <2>1, <3>1 DEF NoticeInv
    <2>2. CASE i = n + 1
      BY <1>1, <2>2
    <2> QED
      BY <1>1, <2>1, <2>2
  <1>5. \A i \in 1..Len(m) :
          m[i].run = "notify" /\ (\A j \in i + 1..Len(m) : m[j].run # "notify") => m[i].user = u
    <2> TAKE i \in 1..Len(m)
    <2>1. CASE i \in 1..n
      <3>1. n + 1 \in i + 1..Len(m) /\ m[n + 1].run = "notify"
        BY <1>1, <2>1
      <3> QED
        BY <3>1
    <2>2. CASE i = n + 1
      BY <1>1, <2>2
    <2> QED
      BY <1>1, <2>1, <2>2
  <1>6. \A r \in net.asked : r.counter <= provider.counter
    BY DEF NoticeInv
  <1> QED
    BY <1>2, <1>3, <1>4, <1>5, <1>6 DEF NoticeInv

\* The request takes the current user.
LEMMA NoticeRead ==
  ASSUME BaseInv, NoticeInv, NEW r \in net.asked, ReadUser(r)
  PROVE  NoticeInv'
  <1> DEFINE a == [r EXCEPT !.read = TRUE, !.user = auth]
  <1>1. r \in Request /\ auth \in Users /\ net \in Nets
    BY RequestTypes, BaseFacts DEF BaseInv
  <1>2. a.counter = r.counter /\ a.user = auth
    BY <1>1 DEF Request
  <1>3. net'.asked = (net.asked \ {r}) \cup {a}
    BY <1>1 DEF ReadUser, Nets
  <1>4. UNCHANGED <<auth, main, provider>>
    BY DEF ReadUser
  <1> HIDE DEF a
  <1> QED
    BY <1>2, <1>3, <1>4 DEF NoticeInv

\* The answer joins the main queue.
LEMMA NoticePost ==
  ASSUME BaseInv, NoticeInv, NEW r \in net.asked, NEW ok \in BOOLEAN, PostToken(r, ok)
  PROVE  NoticeInv'
  <1> DEFINE n == Len(main)
             x == [run |-> "token", user |-> r.user, ok |-> ok,
                   counter |-> r.counter, closes |-> r.closes]
             m == Append(main, x)
  <1>1. /\ n \in Nat /\ Len(m) = n + 1 /\ m[n + 1] = x
        /\ \A i \in 1..n : m[i] = main[i]
        /\ x.run = "token" /\ x.user = r.user /\ x.counter = r.counter
    BY RequestTypes
  <1>2. main' = m /\ UNCHANGED <<auth, provider>> /\ r.read
    BY DEF PostToken
  <1>3. net'.asked = net.asked \ {r}
    BY BaseFacts DEF PostToken, Nets
  <1> HIDE DEF m, x
  <1>4. \A k \in 0..n : NoNotify(m, k) => NoNotify(main, k)
    BY <1>1 DEF NoNotify
  <1>5. NoNotify(m, Len(m)) => NoNotify(main, n)
    BY <1>1 DEF NoNotify
  <1>6. \A i \in 1..Len(m) : m[i].run = "token" =>
          /\ m[i].counter <= provider.counter
          /\ m[i].counter = provider.counter /\ NoNotify(m, i - 1) =>
               m[i].user = provider.user
    <2> TAKE i \in 1..Len(m)
    <2>1. CASE i \in 1..n
      <3>1. NoNotify(m, i - 1) => NoNotify(main, i - 1)
        BY <1>1, <1>4, <2>1
      <3> QED
        BY <1>1, <2>1, <3>1 DEF NoticeInv
    <2>2. CASE i = n + 1
      <3>1. i - 1 = n /\ n \in 0..n
        BY <1>1, <2>2
      <3>2. NoNotify(m, i - 1) => NoNotify(main, n)
        BY <1>4, <3>1
      <3> QED
        BY <1>1, <1>2, <2>2, <3>2 DEF NoticeInv
    <2> QED
      BY <1>1, <2>1, <2>2
  <1>7. \A i \in 1..Len(m) :
          m[i].run = "notify" /\ (\A j \in i + 1..Len(m) : m[j].run # "notify") =>
            m[i].user = auth
    <2> TAKE i \in 1..Len(m)
    <2>1. CASE i \in 1..n
      <3>1. (\A j \in i + 1..Len(m) : m[j].run # "notify")
              => (\A j \in i + 1..n : main[j].run # "notify")
        BY <1>1, <2>1
      <3> QED
        BY <1>1, <2>1, <3>1 DEF NoticeInv
    <2>2. CASE i = n + 1
      BY <1>1, <2>2
    <2> QED
      BY <1>1, <2>1, <2>2
  <1>8. NoNotify(m, Len(m)) => auth = provider.user
    BY <1>5 DEF NoticeInv
  <1>9. \A q \in net'.asked :
          /\ q.counter <= provider.counter
          /\ q.read /\ q.counter = provider.counter /\ NoNotify(m, Len(m)) =>
               q.user = provider.user
    BY <1>3, <1>5 DEF NoticeInv
  <1> QED
    BY <1>2, <1>6, <1>7, <1>8, <1>9 DEF NoticeInv

\* What is left of the main queue after its first block.
LEMMA MainTail ==
  ASSUME BaseInv, main # <<>>
  PROVE  /\ Len(main) \in Nat \ {0} /\ Len(Tail(main)) = Len(main) - 1
         /\ \A i \in 1..Len(Tail(main)) :
              Tail(main)[i] = main[i + 1] /\ i + 1 \in 1..Len(main)
         /\ Head(main) = main[1] /\ 1 \in 1..Len(main)
         /\ Head(main) \in Block /\ Tail(main) \in Seq(Block)
         /\ \A i \in 1..Len(Tail(main)) :
              (\A j \in i + 1..Len(Tail(main)) : Tail(main)[j].run # "notify")
                => (\A j \in (i + 1) + 1..Len(main) : main[j].run # "notify")
  <1> DEFINE m == Tail(main)
  <1>1. main \in Seq(Block)
    BY DEF BaseInv
  <1>2. /\ Len(main) \in Nat \ {0} /\ Len(m) = Len(main) - 1
        /\ \A i \in 1..Len(m) : m[i] = main[i + 1] /\ i + 1 \in 1..Len(main)
        /\ Head(main) = main[1] /\ 1 \in 1..Len(main)
        /\ Head(main) \in Block /\ m \in Seq(Block)
    BY <1>1
  <1> HIDE DEF m
  <1>3. ASSUME NEW i \in 1..Len(m), \A j \in i + 1..Len(m) : m[j].run # "notify",
               NEW j \in (i + 1) + 1..Len(main)
        PROVE  main[j].run # "notify"
    <2>1. j - 1 \in i + 1..Len(m) /\ j - 1 \in 1..Len(m) /\ (j - 1) + 1 = j
      BY <1>2
    <2>2. m[j - 1] = main[j]
      BY <1>2, <2>1
    <2> QED
      BY <1>3, <2>1, <2>2
  <1>4. \A i \in 1..Len(m) :
          (\A j \in i + 1..Len(m) : m[j].run # "notify")
            => (\A j \in (i + 1) + 1..Len(main) : main[j].run # "notify")
    BY <1>3
  <1> QED
    BY <1>2, <1>4 DEF m

\* The provider hears of a user.
LEMMA NoticeNotify ==
  ASSUME BaseInv, NoticeInv, RunNotify
  PROVE  NoticeInv'
  <1> DEFINE m == Tail(main)
             c == provider.counter + 1
  <1>1. /\ main # <<>> /\ Head(main).run = "notify" /\ main' = m
        /\ UNCHANGED <<auth, net>>
        /\ provider'.user = Head(main).user /\ provider'.counter = c
    BY DEF RunNotify, RunsMain
  <1>2. /\ Len(main) \in Nat \ {0} /\ Len(m) = Len(main) - 1
        /\ \A i \in 1..Len(m) : m[i] = main[i + 1] /\ i + 1 \in 1..Len(main)
        /\ Head(main) = main[1] /\ 1 \in 1..Len(main)
        /\ \A i \in 1..Len(m) :
              (\A j \in i + 1..Len(m) : m[j].run # "notify")
                => (\A j \in (i + 1) + 1..Len(main) : main[j].run # "notify")
    BY <1>1, MainTail
  <1> HIDE DEF m
  <1>3. \A r \in net.asked : r.counter < c
    <2> TAKE r \in net.asked
    <2>1. r.counter <= provider.counter /\ r.counter \in Nat /\ provider.counter \in Nat
      BY RequestTypes DEF NoticeInv
    <2> QED
      BY <2>1
  <1>4. \A i \in 1..Len(m) : m[i].run = "token" => m[i].counter < c
    <2> TAKE i \in 1..Len(m)
    <2>1. m[i] = main[i + 1] /\ i + 1 \in 1..Len(main)
      BY <1>2
    <2>2. m[i].run = "token" => m[i].counter <= provider.counter
      BY <2>1 DEF NoticeInv
    <2>3. m[i].run = "token" => m[i].counter \in Nat
      BY <2>1, RequestTypes, BlockTypes
    <2> QED
      BY <2>2, <2>3, RequestTypes
  <1>5. \A i \in 1..Len(m) :
          m[i].run = "notify" /\ (\A j \in i + 1..Len(m) : m[j].run # "notify") =>
            m[i].user = auth
    <2> TAKE i \in 1..Len(m)
    <2>1. m[i] = main[i + 1] /\ i + 1 \in 1..Len(main)
      BY <1>2
    <2> QED
      BY <1>2, <2>1 DEF NoticeInv
  <1>6. NoNotify(m, Len(m)) => auth = Head(main).user
    <2> SUFFICES ASSUME NoNotify(m, Len(m)) PROVE auth = Head(main).user
      OBVIOUS
    <2>1. \A j \in 1 + 1..Len(main) : main[j].run # "notify"
      <3> TAKE j \in 1 + 1..Len(main)
      <3>1. j - 1 \in 1..Len(m) /\ (j - 1) + 1 = j
        BY <1>2
      <3>2. m[j - 1] = main[j]
        BY <1>2, <3>1
      <3> QED
        BY <3>1, <3>2 DEF NoNotify
    <2> QED
      BY <1>1, <1>2, <2>1 DEF NoticeInv
  <1>7. provider.counter \in Nat /\ c \in Nat
    BY RequestTypes
  <1>8. \A r \in net.asked : r.counter <= c /\ r.counter # c
    BY <1>3, <1>7, RequestTypes
  <1>9. \A i \in 1..Len(m) : m[i].run = "token" => m[i].counter <= c /\ m[i].counter # c
    <2> TAKE i \in 1..Len(m)
    <2>1. m[i] = main[i + 1] /\ i + 1 \in 1..Len(main)
      BY <1>2
    <2>2. m[i].run = "token" => m[i].counter \in Nat
      BY <2>1, RequestTypes, BlockTypes
    <2> QED
      BY <1>4, <1>7, <2>2
  <1> HIDE DEF c
  <1> QED
    BY <1>1, <1>5, <1>6, <1>8, <1>9 DEF NoticeInv

\* A token is passed on or asked for again.
LEMMA NoticeToken ==
  ASSUME BaseInv, NoticeInv, RunToken
  PROVE  /\ NoticeInv'
         /\ Head(main).counter = provider.counter => Head(main).user = provider.user
  <1> DEFINE m == Tail(main)
  <1>1. /\ main # <<>> /\ Head(main).run = "token" /\ main' = m
        /\ UNCHANGED <<auth, provider>>
    BY DEF RunToken, RunsMain
  <1>2. /\ Len(main) \in Nat \ {0} /\ Len(m) = Len(main) - 1
        /\ \A i \in 1..Len(m) : m[i] = main[i + 1] /\ i + 1 \in 1..Len(main)
        /\ Head(main) = main[1] /\ 1 \in 1..Len(main) /\ Head(main) \in Block
        /\ \A i \in 1..Len(m) :
              (\A j \in i + 1..Len(m) : m[j].run # "notify")
                => (\A j \in (i + 1) + 1..Len(main) : main[j].run # "notify")
    BY <1>1, MainTail
  <1> HIDE DEF m
  <1>3. \A k \in 0..Len(m) : NoNotify(m, k) => NoNotify(main, k + 1)
    <2> TAKE k \in 0..Len(m)
    <2>1. ASSUME NoNotify(m, k), NEW j \in 1..k + 1
          PROVE  main[j].run # "notify"
      <3>1. CASE j = 1
        BY <1>1, <1>2, <3>1
      <3>2. CASE j # 1
        <4>1. j - 1 \in 1..k /\ j - 1 \in 1..Len(m) /\ (j - 1) + 1 = j
          BY <1>2, <3>2
        <4>2. m[j - 1] = main[j]
          BY <1>2, <4>1
        <4> QED
          BY <2>1, <4>1, <4>2 DEF NoNotify
      <3> QED
        BY <3>1, <3>2
    <2> QED
      BY <2>1 DEF NoNotify
  <1>4. NoNotify(m, Len(m)) => NoNotify(main, Len(main))
    BY <1>2, <1>3
  <1>5. \A i \in 1..Len(m) : m[i].run = "token" =>
          /\ m[i].counter <= provider.counter
          /\ m[i].counter = provider.counter /\ NoNotify(m, i - 1) =>
               m[i].user = provider.user
    <2> TAKE i \in 1..Len(m)
    <2>1. m[i] = main[i + 1] /\ i + 1 \in 1..Len(main) /\ i - 1 \in 0..Len(m)
          /\ (i - 1) + 1 = (i + 1) - 1
      BY <1>2
    <2>2. NoNotify(m, i - 1) => NoNotify(main, (i + 1) - 1)
      BY <1>3, <2>1
    <2> QED
      BY <2>1, <2>2 DEF NoticeInv
  <1>6. \A i \in 1..Len(m) :
          m[i].run = "notify" /\ (\A j \in i + 1..Len(m) : m[j].run # "notify") =>
            m[i].user = auth
    <2> TAKE i \in 1..Len(m)
    <2>1. m[i] = main[i + 1] /\ i + 1 \in 1..Len(main)
      BY <1>2
    <2> QED
      BY <1>2, <2>1 DEF NoticeInv
  <1>7. NoNotify(m, Len(m)) => auth = provider.user
    BY <1>4 DEF NoticeInv
  <1>8. \A r \in net'.asked : r \in net.asked \/ (~r.read /\ r.counter = provider.counter)
    <2>1. CASE UNCHANGED net
      BY <2>1
    <2>2. CASE net' = [net EXCEPT !.asked = @ \cup {Asked(provider.counter, Head(main).closes)}]
      <3>1. net'.asked = net.asked \cup {Asked(provider.counter, Head(main).closes)}
        BY <2>2, BaseFacts DEF Nets
      <3> QED
        BY <3>1 DEF Asked
    <2> QED
      BY <2>1, <2>2 DEF RunToken
  <1>9. \A r \in net'.asked :
          /\ r.counter <= provider.counter
          /\ r.read /\ r.counter = provider.counter /\ NoNotify(m, Len(m)) =>
               r.user = provider.user
    BY <1>4, <1>8, RequestTypes DEF NoticeInv
  <1>10. Head(main).counter = provider.counter => Head(main).user = provider.user
    <2>1. NoNotify(main, 1 - 1)
      BY DEF NoNotify
    <2> QED
      BY <1>1, <1>2, <2>1 DEF NoticeInv
  <1> QED
    BY <1>1, <1>5, <1>6, <1>7, <1>9, <1>10 DEF NoticeInv

-----------------------------------------------------------------------------
(* Steps.                                                                    *)

IInv == BaseInv /\ StoreInv /\ NetInv /\ TokenInv /\ OwnerInv /\ NoticeInv

LEMMA AskedOnly ==
  ASSUME BaseInv, NetInv, NEW A \in SUBSET Request, net' = [net EXCEPT !.asked = A],
         UNCHANGED <<queue, user>>
  PROVE  /\ net' \in Nets /\ NetInv' /\ net'.asked = A
         /\ net'.closes = net.closes /\ net'.state = net.state
  <1>1. /\ net' \in Nets /\ net'.asked = A /\ net'.closes = net.closes
        /\ net'.state = net.state /\ net'.pipeline = net.pipeline
        /\ net'.shook = net.shook /\ net'.idle = net.idle /\ net'.call = net.call
    BY BaseFacts DEF Nets
  <1> QED
    BY <1>1 DEF NetInv, StreamOK

LEMMA SameStore ==
  ASSUME StoreInv, UNCHANGED <<storeVars, authors>>
  PROVE  StoreInv'
  BY DEF StoreInv, CallbacksFindBatches, storeVars

LEMMA SameOwner ==
  ASSUME OwnerInv, UNCHANGED <<worker, provider, user, authors>>
  PROVE  OwnerInv'
  BY DEF OwnerInv, Owner

LEMMA EventCounted ==
  ASSUME BaseInv, events < MaxEvents, events' = events + 1
  PROVE  events' \in 0..MaxEvents
  BY BoundsAssumption DEF BaseInv

LEMMA ChangeUserStep ==
  ASSUME IInv, NEW u \in Users, ChangeUser(u)
  PROVE  IInv'
  <1> DEFINE x == [run |-> "notify", user |-> u]
  <1>1. x \in Block /\ x.run # "token"
    BY DEF Block
  <1>2. main' = Append(main, x) /\ auth' = u
        /\ UNCHANGED <<provider, worker, storeVars, net, failed, authors, applied, heard>>
    BY DEF ChangeUser
  <1> HIDE DEF x
  <1>3. main' \in Seq(Block)
    BY <1>1, <1>2 DEF IInv, BaseInv
  <1>4. events' \in 0..MaxEvents
    BY EventCounted DEF ChangeUser, IInv
  <1>5. BaseInv'
    BY <1>2, <1>3, <1>4 DEF IInv, BaseInv, storeVars
  <1>6. StoreInv' /\ OwnerInv' /\ NetInv'
    BY <1>2, SameStore, SameOwner DEF IInv, storeVars, NetInv
  <1>7. TokenInv'
    <2>1. main \in Seq(Block) /\ worker \in Seq(Task) /\ net.closes \in Nat
      BY BaseFacts DEF IInv, BaseInv, Nets
    <2>2. Tokens(net.asked, Append(main, x), worker, net.closes, net.state)
      BY <1>1, <2>1, TokenMoves DEF IInv, TokenInv
    <2> QED
      BY <1>2, <2>2 DEF TokenInv
  <1>8. NoticeInv'
    BY NoticeChange DEF IInv
  <1> QED
    BY <1>5, <1>6, <1>7, <1>8 DEF IInv

LEMMA TokenTypes ==
  ASSUME IInv
  PROVE  /\ main \in Seq(Block) /\ worker \in Seq(Task) /\ net.closes \in Nat
         /\ Tokens(net.asked, main, worker, net.closes, net.state)
         /\ net.asked \subseteq Request /\ net \in Nets
  BY BaseFacts DEF IInv, BaseInv, Nets, TokenInv

LEMMA ReadUserStep ==
  ASSUME IInv, NEW r \in net.asked, ReadUser(r)
  PROVE  IInv'
  <1> DEFINE a == [r EXCEPT !.read = TRUE, !.user = auth]
             A == (net.asked \ {r}) \cup {a}
  <1>1. r \in Request /\ auth \in Users
    BY TokenTypes DEF IInv, BaseInv
  <1>2. a \in Request /\ a.closes = r.closes
    BY <1>1 DEF Request
  <1>3. A \in SUBSET Request
    BY <1>2, TokenTypes
  <1>4. net' = [net EXCEPT !.asked = A]
        /\ UNCHANGED <<auth, main, provider, worker, storeVars, failed, authors,
                       applied, heard, events>>
    BY DEF ReadUser
  <1>5. Tokens(A, main, worker, net.closes, net.state)
    <2> HIDE DEF a
    <2> QED
      BY <1>2, TokenTypes, TokenMoves
  <1> HIDE DEF A
  <1>6. /\ net' \in Nets /\ NetInv' /\ net'.asked = A
        /\ net'.closes = net.closes /\ net'.state = net.state
    BY <1>3, <1>4, AskedOnly DEF IInv, storeVars
  <1>7. BaseInv'
    BY <1>4, <1>6 DEF IInv, BaseInv, storeVars
  <1>8. StoreInv' /\ OwnerInv'
    BY <1>4, SameStore, SameOwner DEF IInv, storeVars
  <1>9. TokenInv'
    BY <1>4, <1>5, <1>6 DEF TokenInv
  <1>10. NoticeInv'
    BY NoticeRead DEF IInv
  <1> QED
    BY <1>6, <1>7, <1>8, <1>9, <1>10 DEF IInv

LEMMA PostTokenStep ==
  ASSUME IInv, NEW r \in net.asked, NEW ok \in BOOLEAN, PostToken(r, ok)
  PROVE  IInv'
  <1> DEFINE x == [run |-> "token", user |-> r.user, ok |-> ok,
                   counter |-> r.counter, closes |-> r.closes]
             A == net.asked \ {r}
  <1>1. r.user \in Users /\ r.counter \in Nat /\ r.closes \in Nat
    BY RequestTypes DEF IInv
  <1>2. x \in Block /\ x.closes = r.closes
    <2>1. x \in [run : {"token"}, user : Users, ok : BOOLEAN, counter : Nat, closes : Nat]
      BY <1>1
    <2> QED
      BY <2>1 DEF Block
  <1>3. /\ net' = [net EXCEPT !.asked = A] /\ main' = Append(main, x)
        /\ UNCHANGED <<auth, provider, worker, storeVars, failed, authors, applied, heard>>
    BY DEF PostToken
  <1>4. events' \in 0..MaxEvents
    BY EventCounted DEF PostToken, IInv, BaseInv
  <1> HIDE DEF x
  <1>5. main' \in Seq(Block)
    BY <1>2, <1>3, TokenTypes
  <1>6. Tokens(A, Append(main, x), worker, net.closes, net.state)
    BY <1>2, TokenTypes, TokenMoves
  <1>7. A \in SUBSET Request
    BY TokenTypes
  <1> HIDE DEF A
  <1>8. /\ net' \in Nets /\ NetInv' /\ net'.asked = A
        /\ net'.closes = net.closes /\ net'.state = net.state
    BY <1>3, <1>7, AskedOnly DEF IInv, storeVars
  <1>9. BaseInv'
    BY <1>3, <1>4, <1>5, <1>8 DEF IInv, BaseInv, storeVars
  <1>10. StoreInv' /\ OwnerInv'
    BY <1>3, SameStore, SameOwner DEF IInv, storeVars
  <1>11. TokenInv'
    BY <1>3, <1>6, <1>8 DEF TokenInv
  <1>12. NoticeInv'
    BY NoticePost DEF IInv
  <1> QED
    BY <1>8, <1>9, <1>10, <1>11, <1>12 DEF IInv

\* The questions for tokens of a step that only starts or closes the stream.
LEMMA NewQuestions ==
  ASSUME BaseInv, NetKept
  PROVE  \A r \in net'.asked : r \in net.asked \/ (~r.read /\ r.counter = provider.counter)
  BY BaseFacts, AskedType DEF NetKept, Asks, Nets

\* The network part of a step that leaves the main queue alone and runs at
\* most the first task of the worker queue.
LEMMA QuietNet ==
  ASSUME IInv, NetKept, UNCHANGED <<auth, main, provider>>,
         worker' = worker \/ (worker # <<>> /\ worker' = Tail(worker))
  PROVE  NetInv' /\ TokenInv' /\ NoticeInv' /\ net' \in Nets
  <1>1. Tokens(net.asked, main, worker', net.closes, net.state)
    <2>1. CASE worker' = worker
      BY <2>1, TokenTypes
    <2>2. CASE worker # <<>> /\ worker' = Tail(worker)
      <3>1. Tokens(net.asked, main, Tail(worker), net.closes, net.state)
        BY <2>2, TokenTypes, TokenMoves
      <3> QED
        BY <2>2, <3>1
    <2> QED
      BY <2>1, <2>2
  <1>2. net' \in Nets /\ net \in Nets /\ Asks(net, net', provider.counter)
        /\ net.closes <= net'.closes /\ provider.counter \in Nat
    BY BaseFacts DEF NetKept, IInv
  <1>3. Tokens(net'.asked, main, worker', net'.closes, net'.state)
    BY <1>1, <1>2, TokenNet
  <1>4. TokenInv'
    BY <1>3 DEF TokenInv
  <1>5. NoticeInv'
    BY NewQuestions, NoticeAsks DEF IInv
  <1>6. NetInv'
    BY DEF NetKept, NetInv
  <1> QED
    BY <1>2, <1>4, <1>5, <1>6

LEMMA TailTypes ==
  ASSUME IInv, worker # <<>>
  PROVE  Tail(worker) \in Seq(Task) /\ Head(worker) \in Task
  BY TokenTypes

LEMMA MainTypes ==
  ASSUME IInv, main # <<>>
  PROVE  Tail(main) \in Seq(Block) /\ Head(main) \in Block
  BY TokenTypes

LEMMA RunNotifyStep ==
  ASSUME IInv, RunNotify
  PROVE  IInv'
  <1> DEFINE x == [run |-> "change", user |-> Head(main).user]
  <1>1. main # <<>> /\ Head(main).run = "notify" /\ main' = Tail(main)
        /\ provider' = [user |-> Head(main).user, counter |-> provider.counter + 1]
        /\ worker' = Append(worker, x)
        /\ UNCHANGED <<auth, storeVars, net, failed, authors, applied, heard, events>>
    BY DEF RunNotify, RunsMain
  <1>2. Head(main).user \in Users /\ Tail(main) \in Seq(Block)
    BY <1>1, MainTypes, BlockTypes
  <1>3. x \in Task /\ x.run = "change" /\ x.user = Head(main).user
    BY <1>2 DEF Task
  <1> HIDE DEF x
  <1>4. provider' \in [user : Users, counter : Nat] /\ provider'.user = x.user
    BY <1>1, <1>2, <1>3, BaseFacts DEF IInv
  <1>5. worker' \in Seq(Task)
    BY <1>1, <1>3, TokenTypes
  <1>6. BaseInv'
    BY <1>1, <1>2, <1>4, <1>5 DEF IInv, BaseInv, storeVars
  <1>7. StoreInv' /\ NetInv'
    BY <1>1, SameStore DEF IInv, storeVars, NetInv
  <1>8. TokenInv'
    <2>1. Tokens(net.asked, Tail(main), worker, net.closes, net.state)
      BY <1>1, TokenTypes, TokenMoves
    <2>2. Tokens(net.asked, Tail(main), Append(worker, x), net.closes, net.state)
      BY <2>1, <1>2, <1>3, TokenTypes, TokenMoves
    <2> QED
      BY <2>2, <1>1 DEF TokenInv
  <1>9. OwnerInv'
    <2>1. /\ user' = user /\ authors' \in Seq(Users) /\ Len(authors) <= Len(authors')
          /\ \A i \in 1..Len(authors) : authors'[i] = authors[i]
      BY <1>1 DEF IInv, BaseInv, storeVars
    <2> QED
      BY <2>1, <1>1, <1>3, <1>4, OwnerAppend DEF IInv
  <1>10. NoticeInv'
    BY NoticeNotify DEF IInv
  <1> QED
    BY <1>6, <1>7, <1>8, <1>9, <1>10 DEF IInv

LEMMA MakeWriteStep ==
  ASSUME IInv, MakeWrite
  PROVE  IInv'
  <1> DEFINE x == [run |-> "write", write |-> Len(authors) + 1]
  <1>1. Len(authors) < MaxWrites /\ authors' = Append(authors, provider.user)
        /\ worker' = Append(worker, x)
        /\ UNCHANGED <<auth, main, provider, storeVars, net, failed, applied, heard, events>>
    BY DEF MakeWrite
  <1>2. authors \in Seq(Users) /\ provider.user \in Users /\ Len(authors) \in Nat
        /\ MaxWrites \in Nat
    BY BaseFacts, BoundsAssumption DEF IInv, BaseInv
  <1>3. /\ authors' \in Seq(Users) /\ Len(authors') = Len(authors) + 1
        /\ Len(authors') <= MaxWrites
        /\ \A i \in 1..Len(authors) : authors'[i] = authors[i]
        /\ authors'[Len(authors) + 1] = provider.user
    BY <1>1, <1>2
  <1>4. x \in Task /\ x.run = "write" /\ x.write = Len(authors) + 1
    <2>1. Len(authors) + 1 \in Writes
      BY <1>1, <1>2 DEF Writes
    <2> QED
      BY <2>1 DEF Task
  <1> HIDE DEF x
  <1>5. worker' \in Seq(Task)
    BY <1>1, <1>4, TokenTypes
  <1>6. BaseInv'
    BY <1>1, <1>3, <1>5 DEF IInv, BaseInv, storeVars
  <1>7. StoreInv' /\ NetInv' /\ NoticeInv'
    <2>1. NetInv'
      BY <1>1 DEF IInv, storeVars, NetInv
    <2>2. NoticeInv'
      BY <1>1 DEF IInv, NoticeInv, NoNotify
    <2>3. \A u \in Users : \A i \in 1..Len(queue[u]) :
            /\ queue[u][i].write \in 1..Len(authors')
            /\ authors'[queue[u][i].write] = u
      <3>1. \A u \in Users : \A i \in 1..Len(queue[u]) :
              /\ queue[u][i].write \in 1..Len(authors)
              /\ authors[queue[u][i].write] = u
        BY DEF IInv, StoreInv
      <3>2. ASSUME NEW u \in Users, NEW i \in 1..Len(queue[u])
            PROVE  /\ queue[u][i].write \in 1..Len(authors')
                   /\ authors'[queue[u][i].write] = u
        <4> DEFINE w == queue[u][i].write
        <4>1. w \in 1..Len(authors) /\ authors[w] = u
          BY <3>1
        <4> HIDE DEF w
        <4>2. w \in 1..Len(authors') /\ authors'[w] = u
          BY <4>1, <1>2, <1>3
        <4> QED
          BY <4>2 DEF w
      <3> QED
        BY <3>2
    <2>4. UNCHANGED <<user, queue, nextBatch, callbacks>> /\ CallbacksFindBatches
      BY <1>1 DEF IInv, StoreInv, storeVars
    <2>5. CallbacksFindBatches'
      BY <2>4 DEF CallbacksFindBatches
    <2>6. StoreInv'
      BY <2>3, <2>4, <2>5 DEF IInv, StoreInv
    <2> QED
      BY <2>1, <2>2, <2>6
  <1>8. TokenInv'
    <2>1. Tokens(net.asked, main, Append(worker, x), net.closes, net.state)
      BY <1>4, TokenTypes, TokenMoves
    <2> QED
      BY <2>1, <1>1 DEF TokenInv
  <1>9. OwnerInv'
    <2>1. /\ user' = user /\ provider' = provider /\ Len(authors) <= Len(authors')
          /\ x.write \in 1..Len(authors') /\ authors'[x.write] = provider.user
      BY <1>1, <1>2, <1>3, <1>4 DEF storeVars
    <2> QED
      BY <2>1, <1>1, <1>3, <1>4, OwnerAppend DEF IInv
  <1> QED
    BY <1>6, <1>7, <1>8, <1>9 DEF IInv

LEMMA RunTokenStep ==
  ASSUME IInv, RunToken
  PROVE  IInv'
  <1> DEFINE t == Head(main)
             a == Asked(provider.counter, t.closes)
             x == [run |-> "token", user |-> t.user, ok |-> t.ok, closes |-> t.closes]
  <1>1. main # <<>> /\ t.run = "token" /\ main' = Tail(main)
        /\ UNCHANGED <<auth, provider, storeVars, failed, authors, applied, heard, events>>
    BY DEF RunToken, RunsMain
  <1>2. \/ /\ net' = [net EXCEPT !.asked = net.asked \cup {a}] /\ worker' = worker
        \/ /\ t.counter = provider.counter
           /\ worker' = Append(worker, x) /\ net' = net
    BY DEF RunToken
  <1>3. t \in Block /\ Tail(main) \in Seq(Block)
    BY <1>1, MainTypes
  <1>4. t.user \in Users /\ t.closes \in Nat /\ t.ok \in BOOLEAN
    BY <1>1, <1>3, BlockTypes
  <1>5. a \in Request /\ a.closes = t.closes
    BY <1>4, BaseFacts, AskedType DEF IInv
  <1>6. x \in Task /\ x.run = "token" /\ x.closes = t.closes /\ x.user = t.user
    <2>1. x \in [run : {"token"}, user : Users, ok : BOOLEAN, closes : Nat]
      BY <1>4
    <2> QED
      BY <2>1 DEF Task
  <1> HIDE DEF a, x
  <1>7. main' \in Seq(Block)
    BY <1>1, <1>3
  <1>8. NoticeInv' /\ (t.counter = provider.counter => t.user = provider.user)
    BY NoticeToken DEF IInv
  <1>9. StoreInv'
    BY <1>1, SameStore DEF IInv
  <1> HIDE DEF t
  <1>10. CASE net' = [net EXCEPT !.asked = net.asked \cup {a}] /\ worker' = worker
    <2>1. net.asked \cup {a} \in SUBSET Request
      BY <1>5, TokenTypes
    <2> DEFINE A == net.asked \cup {a}
    <2>2. Tokens(A, Tail(main), worker, net.closes, net.state)
      BY <1>1, <1>5, TokenTypes, TokenMoves DEF t
    <2> HIDE DEF A
    <2>3. /\ net' \in Nets /\ NetInv' /\ net'.asked = A
          /\ net'.closes = net.closes /\ net'.state = net.state
      BY <1>1, <1>10, <2>1, AskedOnly DEF IInv, storeVars, A
    <2>4. TokenInv'
      BY <1>1, <1>10, <2>2, <2>3 DEF TokenInv
    <2>5. OwnerInv'
      BY <1>1, <1>10, SameOwner DEF IInv, storeVars
    <2>6. BaseInv'
      BY <1>1, <1>7, <1>10, <2>3 DEF IInv, BaseInv, storeVars
    <2> QED
      BY <1>8, <1>9, <2>3, <2>4, <2>5, <2>6 DEF IInv
  <1>11. CASE t.counter = provider.counter /\ worker' = Append(worker, x) /\ net' = net
    <2>1. Tokens(net.asked, Tail(main), Append(worker, x), net.closes, net.state)
      BY <1>1, <1>6, TokenTypes, TokenMoves DEF t
    <2>2. TokenInv'
      BY <1>1, <1>11, <2>1 DEF TokenInv
    <2>3. worker' \in Seq(Task)
      BY <1>6, <1>11, TokenTypes
    <2>4. BaseInv' /\ NetInv'
      BY <1>1, <1>7, <1>11, <2>3 DEF IInv, BaseInv, NetInv, storeVars
    <2>5. /\ user' = user /\ provider' = provider /\ authors' = authors
          /\ authors \in Seq(Users) /\ Len(authors) \in Nat
          /\ x.user = provider.user
      BY <1>1, <1>6, <1>8, <1>11 DEF storeVars, IInv, BaseInv
    <2>6. OwnerInv'
      BY <2>5, <1>6, <1>11, OwnerAppend DEF IInv
    <2> QED
      BY <1>8, <1>9, <2>2, <2>4, <2>6 DEF IInv
  <1> QED
    BY <1>2, <1>10, <1>11

LEMMA RunChangeStep ==
  ASSUME IInv, RunChange
  PROVE  IInv'
  <1>1. /\ worker # <<>> /\ Head(worker).run = "change" /\ worker' = Tail(worker)
        /\ user' = Head(worker).user
        /\ nextBatch' = IF user' = user THEN nextBatch ELSE NextBatchId(queue)
        /\ net' = Restarted(net, queue[user'], provider.counter)
        /\ UNCHANGED <<auth, main, provider, queue, callbacks, failed, authors,
                       applied, heard, events>>
    BY DEF RunChange, Runs
  <1>2. user' \in Users /\ worker' \in Seq(Task)
    BY <1>1, TailTypes DEF Task
  <1>3. OwnerInv'
    BY <1>1, OwnerTail DEF IInv
  <1>4. NetKept
    BY <1>1, <1>2, ChangeNet DEF IInv
  <1>5. StoreInv' /\ nextBatch' \in Nat \ {0}
    BY <1>1, <1>2, LoadKeeps DEF IInv
  <1>6. NetInv' /\ TokenInv' /\ NoticeInv' /\ net' \in Nets
    BY <1>1, <1>4, QuietNet
  <1>7. BaseInv'
    BY <1>1, <1>2, <1>5, <1>6 DEF IInv, BaseInv
  <1> QED
    BY <1>3, <1>5, <1>6, <1>7 DEF IInv

LEMMA RunWriteStep ==
  ASSUME IInv, RunWrite
  PROVE  IInv'
  <1>1. worker # <<>> /\ Head(worker).run = "write" /\ worker' = Tail(worker)
        /\ net' = Fill(net, queue'[user], provider.counter)
        /\ UNCHANGED <<auth, main, provider, user, failed, authors, applied, heard, events>>
    BY DEF RunWrite, Runs
  <1>2. OwnerInv' /\ user = Owner(Head(worker)) /\ Head(worker).write \in 1..Len(authors)
    BY <1>1, OwnerTail DEF IInv
  <1>3. authors[Head(worker).write] = user
    BY <1>1, <1>2 DEF Owner
  <1>4. /\ StoreInv' /\ nextBatch' \in Nat \ {0}
        /\ queue' \in [Users -> Seq(Batch)]
        /\ callbacks' \subseteq Users \X (Nat \ {0}) \X Writes
        /\ \E b \in Batch : queue' = [queue EXCEPT ![user] = Append(queue[user], b)]
    BY <1>2, <1>3, StoreKeeps DEF IInv
  <1>5. NetKept
    BY <1>1, <1>4, WriteNet DEF IInv
  <1>6. NetInv' /\ TokenInv' /\ NoticeInv' /\ net' \in Nets
    BY <1>1, <1>5, QuietNet
  <1>7. BaseInv'
    BY <1>1, <1>4, <1>6, TailTypes DEF IInv, BaseInv
  <1> QED
    BY <1>2, <1>4, <1>6, <1>7 DEF IInv

\* The token resumes the stream that waits for it, and is its user's.
LEMMA OpenedKeeps ==
  ASSUME NEW n \in Nets, NEW q, NEW u \in Users, StreamOK(n, q, u), n.state = "Starting"
  PROVE  LET o == [n EXCEPT !.state = "Open", !.call.as = u]
         IN  /\ o \in Nets /\ StreamOK(o, q, u) /\ o.asked = n.asked
             /\ o.closes = n.closes /\ o.state = "Open"
  <1> DEFINE call == [n.call EXCEPT !.as = u]
             o == [n EXCEPT !.state = "Open", !.call = call]
  <1>1. o = [n EXCEPT !.state = "Open", !.call.as = u]
    BY DEF Nets
  <1>2. n.call \in Calls
    BY DEF Nets
  <1>3. call \in Calls /\ call.as = u /\ call.sent = n.call.sent
        /\ call.answers = n.call.answers
    BY <1>2 DEF Calls
  <1> HIDE DEF call
  <1>4. /\ o \in Nets /\ o.pipeline = n.pipeline /\ o.state = "Open"
        /\ o.shook = n.shook /\ o.idle = n.idle /\ o.call = call
        /\ o.asked = n.asked /\ o.closes = n.closes
    BY <1>3 DEF Nets, States
  <1> HIDE DEF o
  <1>5. ~n.shook /\ ~n.idle /\ n.pipeline # <<>> /\ n.call.sent = <<>>
        /\ n.call.answers = <<>>
    BY DEF StreamOK
  <1>6. StreamOK(o, q, u)
    BY <1>3, <1>4, <1>5 DEF StreamOK
  <1> QED
    BY <1>1, <1>4, <1>6

LEMMA RunGrantedStep ==
  ASSUME IInv, RunGranted
  PROVE  IInv'
  <1> DEFINE t == Head(worker)
  <1>1. worker # <<>> /\ t.run = "token" /\ worker' = Tail(worker)
        /\ UNCHANGED <<auth, main, provider, storeVars, authors, applied, heard, events>>
    BY DEF RunGranted, Runs
  <1>2. OwnerInv' /\ user = t.user
    BY <1>1, OwnerTail DEF IInv, Owner, storeVars
  <1>3. StoreInv' /\ worker' \in Seq(Task)
    BY <1>1, SameStore, TailTypes DEF IInv
  <1>4. \/ t.closes # net.closes /\ net' = net /\ failed' = failed
        \/ /\ t.closes = net.closes /\ failed' = (failed \/ net.state # "Starting")
           /\ net' = IF ~t.ok THEN Broken(net, provider.counter)
                     ELSE [net EXCEPT !.state = "Open", !.call.as = t.user]
    BY DEF RunGranted
  <1>5. failed = FALSE /\ net \in Nets /\ user \in Users /\ provider.counter \in Nat
        /\ StreamOK(net, queue[user], user)
    BY BaseFacts DEF IInv, BaseInv, NetInv
  <1>6. t.closes = net.closes =>
          net.state = "Starting" /\ Tokens(net.asked, main, Tail(worker), net.closes, "Open")
    BY <1>1, TokenTypes, TokenMoves DEF TokenFor
  <1> HIDE DEF t
  <1>7. CASE t.closes # net.closes /\ net' = net /\ failed' = failed
    <2>1. NetKept
      BY <1>1, <1>5, <1>7 DEF NetKept, Asks, storeVars, Nets
    <2>2. NetInv' /\ TokenInv' /\ NoticeInv' /\ net' \in Nets
      BY <1>1, <2>1, QuietNet
    <2>3. BaseInv'
      BY <1>1, <1>3, <1>7, <2>2 DEF IInv, BaseInv, storeVars
    <2> QED
      BY <1>2, <1>3, <2>2, <2>3 DEF IInv
  <1>8. CASE t.closes = net.closes /\ ~t.ok /\ net' = Broken(net, provider.counter)
             /\ failed' = (failed \/ net.state # "Starting")
    <2>1. NetKept
      <3>1. /\ net' \in Nets /\ StreamOK(net', queue[user], user)
            /\ Asks(net, net', provider.counter) /\ net'.closes = net.closes + 1
        BY <1>5, <1>8, BrokenKeeps
      <3>2. net.closes <= net'.closes
        BY <1>5, <3>1 DEF Nets
      <3> QED
        BY <1>1, <3>1, <3>2 DEF NetKept, storeVars
    <2>2. NetInv' /\ TokenInv' /\ NoticeInv' /\ net' \in Nets
      BY <1>1, <2>1, QuietNet
    <2>3. failed' = FALSE
      BY <1>5, <1>6, <1>8
    <2>4. BaseInv'
      BY <1>1, <1>3, <2>2, <2>3 DEF IInv, BaseInv, storeVars
    <2> QED
      BY <1>2, <1>3, <2>2, <2>4 DEF IInv
  <1>9. CASE t.closes = net.closes /\ net' = [net EXCEPT !.state = "Open", !.call.as = t.user]
             /\ failed' = (failed \/ net.state # "Starting")
    <2>1. /\ net' \in Nets /\ StreamOK(net', queue[user], user) /\ net'.asked = net.asked
          /\ net'.closes = net.closes /\ net'.state = "Open"
      BY <1>2, <1>5, <1>6, <1>9, OpenedKeeps
    <2>2. TokenInv'
      BY <1>1, <1>6, <1>9, <2>1 DEF TokenInv
    <2>3. NetInv'
      BY <1>1, <2>1 DEF NetInv, storeVars
    <2>4. NoticeInv'
      BY <1>1, <2>1, NoticeAsks DEF IInv
    <2>5. failed' = FALSE
      BY <1>5, <1>6, <1>9
    <2>6. BaseInv'
      BY <1>1, <1>3, <2>1, <2>5 DEF IInv, BaseInv, storeVars
    <2> QED
      BY <1>2, <1>3, <2>2, <2>3, <2>4, <2>6 DEF IInv
  <1> QED
    BY <1>4, <1>7, <1>8, <1>9

\* Timers, the handshake and the server only touch the stream.
LEMMA TimerStep ==
  ASSUME IInv, BackoffElapses \/ HandshakeDone \/ IdleElapses
  PROVE  IInv'
  <1>1. UNCHANGED <<auth, main, provider, worker, storeVars, authors, applied,
                    heard, events>>
    BY DEF BackoffElapses, HandshakeDone, IdleElapses
  <1>2. NetKept /\ failed' = FALSE
    <2>1. CASE BackoffElapses
      BY <2>1, BackoffKeeps DEF IInv, BaseInv, BackoffElapses
    <2>2. CASE HandshakeDone
      BY <2>2, HandshakeKeeps DEF IInv, BaseInv, HandshakeDone
    <2>3. CASE IdleElapses
      BY <2>3, IdleKeeps DEF IInv
    <2> QED
      BY <2>1, <2>2, <2>3
  <1>3. NetInv' /\ TokenInv' /\ NoticeInv' /\ net' \in Nets
    BY <1>1, <1>2, QuietNet
  <1>4. StoreInv' /\ OwnerInv'
    BY <1>1, SameStore, SameOwner DEF IInv, storeVars
  <1>5. BaseInv'
    BY <1>1, <1>2, <1>3 DEF IInv, BaseInv, storeVars
  <1> QED
    BY <1>3, <1>4, <1>5 DEF IInv

LEMMA ServerStep ==
  ASSUME IInv, ServerApplies \/ ServerRefuses
  PROVE  IInv'
  <1>1. UNCHANGED <<auth, main, provider, worker, storeVars, failed, authors,
                    heard, events>>
    BY DEF ServerApplies, ServerRefuses
  <1>2. NetKept /\ applied' \subseteq Writes
    BY ServerKeeps DEF IInv
  <1>3. NetInv' /\ TokenInv' /\ NoticeInv' /\ net' \in Nets
    BY <1>1, <1>2, QuietNet
  <1>4. StoreInv' /\ OwnerInv'
    BY <1>1, SameStore, SameOwner DEF IInv, storeVars
  <1>5. BaseInv'
    BY <1>1, <1>2, <1>3 DEF IInv, BaseInv, storeVars
  <1> QED
    BY <1>3, <1>4, <1>5 DEF IInv

\* An answer ends the front batch.
LEMMA ReadStep ==
  ASSUME IInv, ReadResult \/ ReadRefusal
  PROVE  IInv'
  <1>1. /\ net.call.answers # <<>>
        /\ UNCHANGED <<auth, main, provider, worker, user, nextBatch, authors,
                       applied, events>>
    BY DEF ReadResult, ReadRefusal
  <1>2. TakeFront("ok") \/ TakeFront("refused")
    BY DEF ReadResult, ReadRefusal
  <1>3. net.pipeline # <<>>
    BY <1>1, AnswerIsFront DEF IInv
  <1>4. /\ StoreInv' /\ failed' = FALSE
        /\ queue' = [queue EXCEPT ![user] = Tail(queue[user])]
        /\ queue' \in [Users -> Seq(Batch)]
        /\ callbacks' \subseteq callbacks
        /\ heard' \in [Writes -> {"nothing", "ok", "refused"}]
    BY <1>1, <1>2, <1>3, TakeKeeps DEF IInv
  <1>5. NetKept
    <2>1. CASE ReadResult
      <3>1. net' = Fill([net EXCEPT !.pipeline = Tail(@), !.call.answers = Tail(@)],
                        queue'[user], provider.counter)
        BY <2>1 DEF ReadResult
      <3> QED
        BY <3>1, <1>1, <1>4, ReadResultNet DEF IInv
    <2>2. CASE ReadRefusal
      <3>1. net' = [Fill([Closed(net, "Initial") EXCEPT !.pipeline = Tail(@)],
                         queue'[user], provider.counter) EXCEPT !.shook = FALSE]
        BY <2>2 DEF ReadRefusal
      <3> QED
        BY <3>1, <1>1, <1>4, ReadRefusalNet DEF IInv
    <2> QED
      BY <2>1, <2>2
  <1>6. NetInv' /\ TokenInv' /\ NoticeInv' /\ net' \in Nets
    BY <1>1, <1>5, QuietNet
  <1>7. OwnerInv'
    BY <1>1, SameOwner DEF IInv
  <1>8. BaseInv'
    BY <1>1, <1>4, <1>6 DEF IInv, BaseInv
  <1> QED
    BY <1>4, <1>6, <1>7, <1>8 DEF IInv

\* The stream breaks or the network changes.
LEMMA FaultStep ==
  ASSUME IInv, StreamBreaks \/ ConnectivityChanges
  PROVE  IInv'
  <1>1. /\ events < MaxEvents /\ events' = events + 1
        /\ UNCHANGED <<auth, main, provider, worker, storeVars, failed, authors,
                       applied, heard>>
    BY DEF StreamBreaks, ConnectivityChanges
  <1>2. user \in Users /\ provider.counter \in Nat /\ net \in Nets
        /\ StreamOK(net, queue[user], user)
    BY BaseFacts DEF IInv, NetInv
  <1>3. NetKept
    <2>1. CASE StreamBreaks
      <3>1. /\ net' \in Nets /\ StreamOK(net', queue[user], user)
            /\ Asks(net, net', provider.counter) /\ net'.closes = net.closes + 1
        BY <1>2, <2>1, BrokenKeeps DEF StreamBreaks
      <3>2. net.closes <= net'.closes
        BY <1>2, <3>1 DEF Nets
      <3> QED
        BY <1>1, <3>1, <3>2 DEF NetKept, storeVars
    <2>2. CASE ConnectivityChanges
      <3>1. user' = user /\ UNCHANGED queue
            /\ net' = Restarted(net, queue[user'], provider.counter)
        BY <1>1, <2>2 DEF ConnectivityChanges, storeVars
      <3> QED
        BY <3>1, <1>2, ChangeNet DEF IInv
    <2> QED
      BY <2>1, <2>2
  <1>4. NetInv' /\ TokenInv' /\ NoticeInv' /\ net' \in Nets
    BY <1>1, <1>3, QuietNet
  <1>5. StoreInv' /\ OwnerInv'
    BY <1>1, SameStore, SameOwner DEF IInv, storeVars
  <1>6. events' \in 0..MaxEvents
    BY <1>1, EventCounted DEF IInv
  <1>7. BaseInv'
    BY <1>1, <1>4, <1>6 DEF IInv, BaseInv, storeVars
  <1> QED
    BY <1>4, <1>5, <1>7 DEF IInv

\* What the network looks like when the process has just started.
LEMMA NewNetOK ==
  ASSUME NEW q \in Seq(Batch), NEW u
  PROVE  NewNet \in Nets /\ StreamOK(NewNet, q, u) /\ NewNet.asked = {}
         /\ NewNet.closes = 0 /\ NewNet.state = "Initial"
  <1>1. /\ NewNet \in Nets /\ NewNet.pipeline = <<>> /\ NewNet.state = "Initial"
        /\ ~NewNet.shook /\ ~NewNet.idle /\ NewNet.call = NoCall
        /\ NewNet.asked = {} /\ NewNet.closes = 0
    BY NoCallType DEF NewNet, Nets, States
  <1>2. Begins(<<>>, q) /\ Len(<<>>) <= MaxPending
    BY EmptyBegins
  <1> QED
    BY <1>1, <1>2, DownIsOK

\* No queue holds a token: whatever was just asked for is the only one.
LEMMA FirstToken ==
  ASSUME NEW k \in Nets, NEW m, NEW w, \A i \in 1..Len(m) : m[i].run # "token",
         \A i \in 1..Len(w) : w[i].run # "token", NEW counter \in Nat,
         k.closes = 0,
         \/ k.asked = {} /\ k.state # "Starting"
         \/ k.asked = {Asked(counter, 0)} /\ k.state = "Starting"
  PROVE  Tokens(k.asked, m, w, k.closes, k.state)
  <1>1. Asked(counter, 0).closes = 0
    BY AskedType
  <1>2. NoneIn(m, 0) /\ NoneIn(w, 0) /\ UpTo(m, 0) /\ UpTo(w, 0)
        /\ OneIn(m, 0) /\ OneIn(w, 0)
    BY DEF NoneIn, UpTo, OneIn, TokenFor
  <1>3. CASE k.asked = {} /\ k.state # "Starting"
    BY <1>2, <1>3 DEF Tokens, NoneAsked, OneAsked
  <1>4. CASE k.asked = {Asked(counter, 0)} /\ k.state = "Starting"
    BY <1>1, <1>2, <1>4 DEF Tokens, NoneAsked, OneAsked
  <1> QED
    BY <1>3, <1>4

LEMMA RestartStep ==
  ASSUME IInv, Restart
  PROVE  IInv'
  <1> DEFINE x == [run |-> "notify", user |-> auth]
  <1>1. /\ events < MaxEvents /\ events' = events + 1
        /\ user' \in {auth, Nobody} /\ main' = <<x>>
        /\ provider' = [user |-> user', counter |-> 0]
        /\ worker' = <<>> /\ nextBatch' = NextBatchId(queue) /\ callbacks' = {}
        /\ net' = Fill(NewNet, queue[user'], 0)
        /\ UNCHANGED <<auth, queue, failed, authors, applied, heard>>
    BY DEF Restart
  <1>2. user' \in Users /\ auth \in Users
    BY <1>1 DEF IInv, BaseInv, Users
  <1>3. x \in Block /\ x.run = "notify" /\ x.user = auth
    BY <1>2 DEF Block
  <1> HIDE DEF x
  <1>4. main' \in Seq(Block) /\ Len(main') = 1 /\ main'[1] = x /\ worker' \in Seq(Task)
        /\ Len(worker') = 0
    BY <1>1, <1>3
  <1>5. provider' \in [user : Users, counter : Nat] /\ provider'.user = user'
        /\ provider'.counter = 0
    BY <1>1, <1>2
  <1>6. StoreInv' /\ nextBatch' \in Nat \ {0}
    BY <1>1, <1>2, LoadKeeps DEF IInv
  <1>7. queue[user'] \in Seq(Batch) /\ Increasing(queue[user'])
    BY <1>2 DEF IInv, BaseInv, StoreInv
  <1>8. NewNet \in Nets /\ StreamOK(NewNet, queue[user'], user') /\ NewNet.asked = {}
        /\ NewNet.closes = 0 /\ NewNet.state = "Initial"
    BY <1>7, NewNetOK
  <1>9. Filled(NewNet, net', queue[user'], user', 0)
    BY <1>1, <1>7, <1>8, FillKeeps
  <1>10. /\ net' \in Nets /\ StreamOK(net', queue[user'], user') /\ net'.closes = 0
         /\ \/ net'.asked = {} /\ net'.state # "Starting"
            \/ net'.asked = {Asked(0, 0)} /\ net'.state = "Starting"
    BY <1>8, <1>9 DEF Filled, Asks
  <1>11. NetInv'
    BY <1>1, <1>10 DEF NetInv
  <1>12. TokenInv'
    <2>1. \A i \in 1..Len(main') : main'[i].run # "token"
      BY <1>3, <1>4
    <2>2. \A i \in 1..Len(worker') : worker'[i].run # "token"
      BY <1>4
    <2> DEFINE k == net'
               m == main'
               w == worker'
    <2>3. /\ k \in Nets /\ k.closes = 0 /\ 0 \in Nat
          /\ \/ k.asked = {} /\ k.state # "Starting"
             \/ k.asked = {Asked(0, 0)} /\ k.state = "Starting"
          /\ \A i \in 1..Len(m) : m[i].run # "token"
          /\ \A i \in 1..Len(w) : w[i].run # "token"
      BY <1>10, <2>1, <2>2
    <2> HIDE DEF k, m, w
    <2>4. Tokens(k.asked, m, w, k.closes, k.state)
      BY <2>3, FirstToken
    <2> QED
      BY <2>4 DEF TokenInv, k, m, w
  <1>13. OwnerInv'
    BY <1>1, <1>4, <1>5 DEF OwnerInv
  <1>14. NoticeInv'
    <2>1. \A i \in 1..Len(main') : i = 1 /\ main'[i].run = "notify" /\ main'[i].user = auth'
      BY <1>1, <1>3, <1>4
    <2>2. ~NoNotify(main', Len(main'))
      BY <2>1, <1>4 DEF NoNotify
    <2>3. \A r \in net'.asked : r.counter = 0 /\ ~r.read
      <3>1. Asked(0, 0).counter = 0 /\ ~Asked(0, 0).read
        BY DEF Asked
      <3> QED
        BY <1>10, <3>1
    <2> QED
      BY <2>1, <2>2, <2>3, <1>5 DEF NoticeInv
  <1>15. events' \in 0..MaxEvents
    BY <1>1, EventCounted DEF IInv
  <1>16. BaseInv'
    BY <1>1, <1>2, <1>4, <1>5, <1>6, <1>10, <1>15 DEF IInv, BaseInv
  <1> QED
    BY <1>6, <1>11, <1>12, <1>13, <1>14, <1>16 DEF IInv

LEMMA StutterStep ==
  ASSUME IInv, UNCHANGED vars
  PROVE  IInv'
  <1>1. UNCHANGED <<auth, main, provider, worker, user, queue, nextBatch, callbacks, net,
                    failed, authors, applied, heard, events>>
    BY DEF vars, storeVars
  <1>2. BaseInv'
    BY <1>1 DEF IInv, BaseInv
  <1>3. StoreInv' /\ NetInv'
    BY <1>1, SameStore DEF IInv, NetInv, storeVars
  <1>4. TokenInv'
    BY <1>1 DEF IInv, TokenInv
  <1>5. OwnerInv'
    BY <1>1, SameOwner DEF IInv
  <1>6. NoticeInv'
    BY <1>1 DEF IInv, NoticeInv, NoNotify
  <1> QED
    BY <1>2, <1>3, <1>4, <1>5, <1>6 DEF IInv

LEMMA StepKeeps ==
  ASSUME IInv, [Next]_vars
  PROVE  IInv'
  <1>1. CASE AuthNext
    <2>1. ASSUME NEW u \in Users, ChangeUser(u)
          PROVE  IInv'
      BY <2>1, ChangeUserStep
    <2>2. ASSUME NEW r \in net.asked, ReadUser(r)
          PROVE  IInv'
      BY <2>2, ReadUserStep
    <2>3. ASSUME NEW r \in net.asked, NEW ok \in BOOLEAN, PostToken(r, ok)
          PROVE  IInv'
      BY <2>3, PostTokenStep
    <2> QED
      BY <1>1, <2>1, <2>2, <2>3 DEF AuthNext
  <1>2. CASE MainNext
    BY <1>2, RunNotifyStep, RunTokenStep, MakeWriteStep DEF MainNext
  <1>3. CASE WorkerNext
    BY <1>3, RunChangeStep, RunWriteStep, RunGrantedStep DEF WorkerNext
  <1>4. CASE StreamNext
    BY <1>4, TimerStep, ServerStep, ReadStep DEF StreamNext
  <1>5. CASE FaultNext
    BY <1>5, FaultStep, RestartStep DEF FaultNext
  <1>6. CASE UNCHANGED vars
    BY <1>6, StutterStep
  <1> QED
    BY <1>1, <1>2, <1>3, <1>4, <1>5, <1>6 DEF Next

LEMMA InitEstablishes ==
  ASSUME Init
  PROVE  IInv
  <1>1. /\ auth \in Users /\ main = <<>> /\ provider = [user |-> auth, counter |-> 0]
        /\ worker = <<>> /\ user = auth /\ queue = [u \in Users |-> <<>>]
        /\ nextBatch = 1 /\ callbacks = {} /\ net = NewNet /\ failed = FALSE
        /\ authors = <<>> /\ applied = {} /\ heard = [w \in Writes |-> "nothing"]
        /\ events = 0
    BY DEF Init
  <1>2. \A u \in Users : queue[u] = <<>>
    BY <1>1
  <1>3. NewNet \in Nets /\ StreamOK(NewNet, <<>>, user) /\ NewNet.asked = {}
        /\ NewNet.closes = 0 /\ NewNet.state = "Initial"
    <2>1. <<>> \in Seq(Batch)
      OBVIOUS
    <2> QED
      BY <2>1, NewNetOK
  <1>4. BaseInv
    BY <1>1, <1>3, BoundsAssumption DEF BaseInv
  <1>5. StoreInv
    <2>1. CallbacksFindBatches
      BY <1>1 DEF CallbacksFindBatches
    <2>2. \A u \in Users : \A i \in 1..Len(queue[u]) : FALSE
      BY <1>2
    <2>3. user \in Users
      BY <1>1
    <2> QED
      BY <2>1, <2>2, <2>3 DEF StoreInv, Increasing
  <1>6. NetInv
    BY <1>1, <1>2, <1>3 DEF NetInv
  <1>7. TokenInv
    <2>1. \A i \in 1..Len(<<>>) : FALSE
      OBVIOUS
    <2>2. Tokens(net.asked, main, worker, net.closes, net.state)
      BY <1>1, <1>3, <2>1, FirstToken
    <2> QED
      BY <2>2 DEF TokenInv
  <1>8. OwnerInv
    BY <1>1 DEF OwnerInv
  <1>9. NoticeInv
    <2>1. net.asked = {} /\ Len(main) = 0 /\ auth = provider.user
      BY <1>1, <1>3
    <2> QED
      BY <2>1 DEF NoticeInv
  <1> QED
    BY <1>4, <1>5, <1>6, <1>7, <1>8, <1>9 DEF IInv

-----------------------------------------------------------------------------
(* What the inductive invariant says.                                        *)

LEMMA InvariantHolds == Spec => []IInv
  BY InitEstablishes, StepKeeps, PTL DEF Spec

LEMMA GivesTypes ==
  ASSUME IInv
  PROVE  TypeOK
  <1>1. net \in Nets /\ StreamOK(net, queue[user], user)
    BY BaseFacts DEF IInv, NetInv
  <1>2. /\ net.pipeline \in Seq(Batch) /\ Len(net.pipeline) <= MaxPending
        /\ net.state \in {"Initial", "Starting", "Open", "Error", "Backoff"}
        /\ net.shook \in BOOLEAN /\ net.idle \in BOOLEAN /\ net.closes \in Nat
        /\ net.call \in [as : Users, sent : Seq(Batch), answers : Seq(Answer)]
        /\ net.asked \subseteq Request
    BY <1>1 DEF Nets, States, Calls, StreamOK
  <1> QED
    BY <1>2 DEF IInv, BaseInv, TypeOK

LEMMA GivesPrefix ==
  ASSUME IInv
  PROVE  PipelineIsPrefix
  BY BaseFacts, BeginsIsPrefix DEF IInv, NetInv, StreamOK, Nets, PipelineIsPrefix

LEMMA GivesAnswers ==
  ASSUME IInv
  PROVE  AnswersMatchPipeline
  <1>1. net \in Nets /\ StreamOK(net, queue[user], user) /\ net.call \in Calls
        /\ net.pipeline \in Seq(Batch)
    BY BaseFacts DEF IInv, NetInv, Nets
  <1>2. net.shook => OnStream(net.call) = net.pipeline
    BY <1>1 DEF StreamOK
  <1>3. Refused => net.shook
    BY <1>1 DEF Refused, StreamOK
  <1>4. net.shook => IsPrefix(OnStream(net.call), net.pipeline)
    <2>1. Begins(net.pipeline, net.pipeline)
      BY <1>1 DEF Begins
    <2> QED
      BY <1>1, <1>2, <2>1, BeginsIsPrefix
  <1> QED
    BY <1>2, <1>3, <1>4 DEF AnswersMatchPipeline, OnStream

LEMMA GivesAuthor ==
  ASSUME IInv
  PROVE  WritesGoOutAsAuthor
  <1>1. net.state = "Open" => net.call.as = user
    BY DEF IInv, NetInv, StreamOK
  <1>2. \A u \in Users : \A b \in Batches(queue[u]) : authors[b.write] = u
    BY DEF IInv, StoreInv, Batches
  <1> QED
    BY <1>1, <1>2 DEF WritesGoOutAsAuthor

-----------------------------------------------------------------------------
\* Every state of every run has its type: the pipeline never exceeds
\* kMaxPendingWrites, the close count and the token counter only count, and
\* the stream is in one of its states.
THEOREM QueueTypes == Spec => []TypeOK
  BY InvariantHolds, GivesTypes, PTL

\* None of the HARD_ASSERTs of stream, remote store and mutation queue can
\* fail, whatever users, tokens, results, broken streams and restarts do: a
\* token that is not stale finds its stream starting, because at most one is
\* on its way for the stream as it is, and a result finds its batch.
THEOREM AssertionsNeverFail == Spec => []AssertionsHold
  <1>1. IInv => AssertionsHold
    BY DEF IInv, BaseInv, AssertionsHold
  <1> QED
    BY <1>1, InvariantHolds, PTL

\* The pipeline is always the beginning of the stored queue of the user
\* SyncEngine has, so that nothing is sent out of order or left out.
THEOREM PipelineStaysPrefix == Spec => []PipelineIsPrefix
  BY InvariantHolds, GivesPrefix, PTL

\* What was sent on the stream and not yet settled is always the pipeline in
\* its order: a result is never given to another batch than its own.
THEOREM AnswersFindTheirBatch == Spec => []AnswersMatchPipeline
  BY InvariantHolds, GivesAnswers, PTL

\* No write of one user is ever stored in the queue of another or sent on a
\* stream that carries another user's token, for any interleaving of sign-ins
\* and sign-outs, notifications, tokens and writes.
THEOREM WritesKeepTheirAuthor == Spec => []WritesGoOutAsAuthor
  BY InvariantHolds, GivesAuthor, PTL

\* Every registered callback belongs to a batch that is still stored with its
\* number and its write.
THEOREM CallbacksKeepTheirBatch == Spec => []CallbacksFindBatches
  <1>1. IInv => CallbacksFindBatches
    BY DEF IInv, StoreInv
  <1> QED
    BY <1>1, InvariantHolds, PTL

-----------------------------------------------------------------------------
(* Nothing waits for nothing: the part of the queue's progress that is an     *)
(* invariant.                                                                *)

\* A token for the stream closed c times is on one of the three queues.
Underway(A, m, w, c) == ~NoneAsked(A, c) \/ ~NoneIn(m, c) \/ ~NoneIn(w, c)

NextInv ==
  /\ Moves(net, queue[user])
  /\ net.state = "Starting" => Underway(net.asked, main, worker, net.closes)

\* A token that is not at the head of a queue stays when the head leaves, and
\* every token stays when something is appended.
LEMMA SomeTail ==
  ASSUME NEW S, NEW s \in Seq(S), s # <<>>, NEW c, ~TokenFor(Head(s), c), ~NoneIn(s, c)
  PROVE  ~NoneIn(Tail(s), c)
  <1>1. PICK i \in 1..Len(s) : TokenFor(s[i], c)
    BY DEF NoneIn
  <1>2. i # 1
    BY <1>1
  <1>3. i - 1 \in 1..Len(Tail(s)) /\ Tail(s)[i - 1] = s[i]
    BY <1>2
  <1> QED
    BY <1>1, <1>3 DEF NoneIn

LEMMA SomeAppend ==
  ASSUME NEW S, NEW s \in Seq(S), NEW x \in S, NEW c
  PROVE  ~NoneIn(s, c) \/ TokenFor(x, c) => ~NoneIn(Append(s, x), c)
  <1>1. CASE TokenFor(x, c)
    <2>1. Len(s) + 1 \in 1..Len(Append(s, x)) /\ Append(s, x)[Len(s) + 1] = x
      OBVIOUS
    <2> QED
      BY <1>1, <2>1 DEF NoneIn
  <1>2. CASE ~NoneIn(s, c)
    <2>1. PICK i \in 1..Len(s) : TokenFor(s[i], c)
      BY <1>2 DEF NoneIn
    <2>2. i \in 1..Len(Append(s, x)) /\ Append(s, x)[i] = s[i]
      OBVIOUS
    <2> QED
      BY <2>1, <2>2 DEF NoneIn
  <1> QED
    BY <1>1, <1>2

\* What the queues may do to a token on its way.
LEMMA UnderwayMoves ==
  ASSUME NEW A, NEW M, NEW m \in Seq(M), NEW W, NEW w \in Seq(W), NEW c,
         Underway(A, m, w, c)
  PROVE  /\ \A x \in M : Underway(A, Append(m, x), w, c)
         /\ \A x \in W : Underway(A, m, Append(w, x), c)
         /\ m # <<>> /\ ~TokenFor(Head(m), c) => Underway(A, Tail(m), w, c)
         /\ w # <<>> /\ ~TokenFor(Head(w), c) => Underway(A, m, Tail(w), c)
         /\ \A r \in A : \A a : a.closes = r.closes =>
               Underway((A \ {r}) \cup {a}, m, w, c)
         /\ \A r \in A, x \in M : x.run = "token" /\ x.closes = r.closes =>
               Underway(A \ {r}, Append(m, x), w, c)
         /\ \A a : m # <<>> /\ a.closes = Head(m).closes =>
               Underway(A \cup {a}, Tail(m), w, c)
         /\ \A x \in W : m # <<>> /\ x.run = "token" /\ x.closes = Head(m).closes =>
               Underway(A, Tail(m), Append(w, x), c)
  <1>1. \A x \in M : Underway(A, Append(m, x), w, c)
    BY SomeAppend DEF Underway
  <1>2. \A x \in W : Underway(A, m, Append(w, x), c)
    BY SomeAppend DEF Underway
  <1>3. m # <<>> /\ ~TokenFor(Head(m), c) => Underway(A, Tail(m), w, c)
    BY SomeTail DEF Underway
  <1>4. w # <<>> /\ ~TokenFor(Head(w), c) => Underway(A, m, Tail(w), c)
    BY SomeTail DEF Underway
  <1>5. \A r \in A : \A a : a.closes = r.closes => Underway((A \ {r}) \cup {a}, m, w, c)
    BY DEF Underway, NoneAsked
  <1>6. ASSUME NEW r \in A, NEW x \in M, x.run = "token", x.closes = r.closes
        PROVE  Underway(A \ {r}, Append(m, x), w, c)
    <2>1. CASE r.closes = c
      BY <1>6, <2>1, SomeAppend DEF Underway, TokenFor
    <2>2. CASE r.closes # c
      <3>1. ~NoneAsked(A, c) => ~NoneAsked(A \ {r}, c)
        BY <2>2 DEF NoneAsked
      <3> QED
        BY <3>1, SomeAppend DEF Underway
    <2> QED
      BY <2>1, <2>2
  <1>7. ASSUME NEW a, m # <<>>, a.closes = Head(m).closes
        PROVE  Underway(A \cup {a}, Tail(m), w, c)
    <2>1. CASE TokenFor(Head(m), c)
      BY <1>7, <2>1 DEF Underway, NoneAsked, TokenFor
    <2>2. CASE ~TokenFor(Head(m), c)
      BY <1>3, <1>7, <2>2 DEF Underway, NoneAsked
    <2> QED
      BY <2>1, <2>2
  <1>8. ASSUME NEW x \in W, m # <<>>, x.run = "token", x.closes = Head(m).closes
        PROVE  Underway(A, Tail(m), Append(w, x), c)
    <2>1. CASE TokenFor(Head(m), c)
      BY <1>8, <2>1, SomeAppend DEF Underway, TokenFor
    <2>2. CASE ~TokenFor(Head(m), c)
      <3>1. Underway(A, Tail(m), w, c)
        BY <1>3, <1>8, <2>2
      <3> QED
        BY <3>1, SomeAppend DEF Underway
    <2> QED
      BY <2>1, <2>2
  <1>9. \A r \in A, x \in M : x.run = "token" /\ x.closes = r.closes =>
           Underway(A \ {r}, Append(m, x), w, c)
    BY <1>6
  <1>10. \A a : m # <<>> /\ a.closes = Head(m).closes => Underway(A \cup {a}, Tail(m), w, c)
    BY <1>7
  <1>11. \A x \in W : m # <<>> /\ x.run = "token" /\ x.closes = Head(m).closes =>
            Underway(A, Tail(m), Append(w, x), c)
    BY <1>8
  <1> QED
    BY <1>1, <1>2, <1>3, <1>4, <1>5, <1>9, <1>10, <1>11

\* The stream closes or starts: when it is starting afterwards, it has asked
\* just now or it was starting for the same token before.
LEMMA UnderwayNet ==
  ASSUME NEW n \in Nets, NEW k \in Nets, NEW m, NEW w, NEW counter \in Nat,
         n.state = "Starting" => Underway(n.asked, m, w, n.closes),
         Asks(n, k, counter)
  PROVE  k.state = "Starting" => Underway(k.asked, m, w, k.closes)
  <1>1. Asked(counter, k.closes).closes = k.closes
    BY DEF Asked
  <1>2. CASE k.asked = n.asked \cup {Asked(counter, k.closes)}
    BY <1>1, <1>2 DEF Underway, NoneAsked
  <1>3. CASE /\ k.asked = n.asked
             /\ k.closes = n.closes => (k.state = "Starting" <=> n.state = "Starting")
             /\ k.closes # n.closes => k.state # "Starting"
    BY <1>3
  <1> QED
    BY <1>2, <1>3 DEF Asks

\* A step that leaves the main queue alone and runs no token of this stream.
LEMMA QuietNext ==
  ASSUME IInv, NextInv, NetKept, UNCHANGED main, Moves(net', queue'[user']),
         \/ worker' = worker
         \/ /\ worker # <<>> /\ worker' = Tail(worker)
            /\ ~TokenFor(Head(worker), net.closes)
  PROVE  NextInv'
  <1>1. net.state = "Starting" => Underway(net.asked, main, worker', net.closes)
    <2>1. CASE worker' = worker
      BY <2>1 DEF NextInv
    <2>2. CASE /\ worker # <<>> /\ worker' = Tail(worker)
               /\ ~TokenFor(Head(worker), net.closes)
      <3>1. net.state = "Starting" => Underway(net.asked, main, Tail(worker), net.closes)
        BY <2>2, TokenTypes, UnderwayMoves DEF NextInv
      <3> QED
        BY <2>2, <3>1
    <2> QED
      BY <2>1, <2>2
  <1>2. net' \in Nets /\ net \in Nets /\ Asks(net, net', provider.counter)
        /\ provider.counter \in Nat
    BY BaseFacts DEF NetKept, IInv
  <1>3. net'.state = "Starting" => Underway(net'.asked, main, worker', net'.closes)
    BY <1>1, <1>2, UnderwayNet
  <1> QED
    BY <1>3 DEF NextInv

\* The same batches in the pipeline of a stream that did not go down.
LEMMA MovesSame ==
  ASSUME NEW n, NEW k, NEW q, Moves(n, q), k.pipeline = n.pipeline,
         k.state \notin {"Initial", "Error"} \/ k.pipeline = <<>>
  PROVE  Moves(k, q)
  BY DEF Moves

\* FirebaseAuth's work queue and the main queue pass tokens on.
LEMMA NextAuth ==
  ASSUME IInv, NextInv, AuthNext
  PROVE  NextInv'
  <1>1. ASSUME NEW u \in Users, ChangeUser(u)
        PROVE  NextInv'
    <2> DEFINE x == [run |-> "notify", user |-> u]
    <2>1. x \in Block
      BY DEF Block
    <2>2. main' = Append(main, x) /\ UNCHANGED <<worker, storeVars, net>>
      BY <1>1 DEF ChangeUser
    <2> HIDE DEF x
    <2>3. net.state = "Starting" => Underway(net.asked, main', worker, net.closes)
      BY <2>1, <2>2, TokenTypes, UnderwayMoves DEF NextInv
    <2> QED
      BY <2>2, <2>3 DEF NextInv, storeVars
  <1>2. ASSUME NEW r \in net.asked, ReadUser(r)
        PROVE  NextInv'
    <2> DEFINE a == [r EXCEPT !.read = TRUE, !.user = auth]
               A == (net.asked \ {r}) \cup {a}
    <2>1. a.closes = r.closes
      BY TokenTypes DEF Request
    <2>2. net' = [net EXCEPT !.asked = A] /\ UNCHANGED <<main, worker, storeVars>>
      BY <1>2 DEF ReadUser
    <2> HIDE DEF a
    <2>3. net.state = "Starting" => Underway(A, main, worker, net.closes)
      BY <2>1, TokenTypes, UnderwayMoves DEF NextInv
    <2> HIDE DEF A
    <2>4. net'.asked = A /\ net'.closes = net.closes /\ net'.state = net.state
          /\ net'.pipeline = net.pipeline
      BY <2>2, TokenTypes DEF Nets
    <2> QED
      BY <2>2, <2>3, <2>4 DEF NextInv, Moves, storeVars
  <1>3. ASSUME NEW r \in net.asked, NEW ok \in BOOLEAN, PostToken(r, ok)
        PROVE  NextInv'
    <2> DEFINE x == [run |-> "token", user |-> r.user, ok |-> ok,
                     counter |-> r.counter, closes |-> r.closes]
               A == net.asked \ {r}
    <2>1. r.user \in Users /\ r.counter \in Nat /\ r.closes \in Nat
      BY RequestTypes DEF IInv
    <2>2. x \in Block /\ x.run = "token" /\ x.closes = r.closes
      <3>1. x \in [run : {"token"}, user : Users, ok : BOOLEAN, counter : Nat, closes : Nat]
        BY <2>1
      <3> QED
        BY <3>1 DEF Block
    <2>3. net' = [net EXCEPT !.asked = A] /\ main' = Append(main, x)
          /\ UNCHANGED <<worker, storeVars>>
      BY <1>3 DEF PostToken
    <2> HIDE DEF x
    <2>4. net.state = "Starting" => Underway(A, Append(main, x), worker, net.closes)
      BY <2>2, TokenTypes, UnderwayMoves DEF NextInv
    <2> HIDE DEF A
    <2>5. net'.asked = A /\ net'.closes = net.closes /\ net'.state = net.state
          /\ net'.pipeline = net.pipeline
      BY <2>3, TokenTypes DEF Nets
    <2> QED
      BY <2>3, <2>4, <2>5 DEF NextInv, Moves, storeVars
  <1> QED
    BY <1>1, <1>2, <1>3 DEF AuthNext

LEMMA NextMain ==
  ASSUME IInv, NextInv, MainNext
  PROVE  NextInv'
  <1>1. CASE RunNotify
    <2> DEFINE x == [run |-> "change", user |-> Head(main).user]
    <2>1. main # <<>> /\ Head(main).run = "notify" /\ main' = Tail(main)
          /\ worker' = Append(worker, x) /\ UNCHANGED <<storeVars, net>>
      BY <1>1 DEF RunNotify, RunsMain
    <2>2. x \in Task
      BY <2>1, MainTypes, BlockTypes DEF Task
    <2> HIDE DEF x
    <2>3. ~TokenFor(Head(main), net.closes)
      BY <2>1 DEF TokenFor
    <2>4. net.state = "Starting" => Underway(net.asked, main', worker, net.closes)
      BY <2>1, <2>3, TokenTypes, UnderwayMoves DEF NextInv
    <2>5. main' \in Seq(Block)
      BY <2>1, MainTypes
    <2>6. net.state = "Starting" => Underway(net.asked, main', worker', net.closes)
      BY <2>1, <2>2, <2>4, <2>5, TokenTypes, UnderwayMoves
    <2> QED
      BY <2>1, <2>6 DEF NextInv, storeVars
  <1>2. CASE RunToken
    <2> DEFINE t == Head(main)
               a == Asked(provider.counter, t.closes)
               x == [run |-> "token", user |-> t.user, ok |-> t.ok, closes |-> t.closes]
    <2>1. main # <<>> /\ t.run = "token" /\ main' = Tail(main) /\ UNCHANGED storeVars
      BY <1>2 DEF RunToken, RunsMain
    <2>2. \/ /\ net' = [net EXCEPT !.asked = net.asked \cup {a}] /\ worker' = worker
          \/ worker' = Append(worker, x) /\ net' = net
      BY <1>2 DEF RunToken
    <2>3. t.user \in Users /\ t.closes \in Nat /\ t.ok \in BOOLEAN
      BY <2>1, MainTypes, BlockTypes
    <2>4. a.closes = t.closes
      BY DEF Asked
    <2>5. x \in Task /\ x.run = "token" /\ x.closes = t.closes
      <3>1. x \in [run : {"token"}, user : Users, ok : BOOLEAN, closes : Nat]
        BY <2>3
      <3> QED
        BY <3>1 DEF Task
    <2> HIDE DEF a, x
    <2>6. CASE net' = [net EXCEPT !.asked = net.asked \cup {a}] /\ worker' = worker
      <3>1. net.state = "Starting" =>
              Underway(net.asked \cup {a}, main', worker', net.closes)
        BY <2>1, <2>4, <2>6, TokenTypes, UnderwayMoves DEF NextInv
      <3>2. net'.asked = net.asked \cup {a} /\ net'.closes = net.closes
            /\ net'.state = net.state /\ net'.pipeline = net.pipeline
        BY <2>6, TokenTypes DEF Nets
      <3> QED
        BY <2>1, <3>1, <3>2 DEF NextInv, Moves, storeVars
    <2>7. CASE worker' = Append(worker, x) /\ net' = net
      <3>1. net.state = "Starting" => Underway(net.asked, main', worker', net.closes)
        BY <2>1, <2>5, <2>7, TokenTypes, UnderwayMoves DEF NextInv
      <3> QED
        BY <2>1, <2>7, <3>1 DEF NextInv, storeVars
    <2> QED
      BY <2>2, <2>6, <2>7
  <1>3. CASE MakeWrite
    <2> DEFINE x == [run |-> "write", write |-> Len(authors) + 1]
    <2>1. Len(authors) < MaxWrites /\ worker' = Append(worker, x)
          /\ UNCHANGED <<main, storeVars, net>>
      BY <1>3 DEF MakeWrite
    <2>2. x \in Task
      <3>1. Len(authors) + 1 \in Writes
        BY <2>1, BoundsAssumption DEF Writes, IInv, BaseInv
      <3> QED
        BY <3>1 DEF Task
    <2> HIDE DEF x
    <2>3. net.state = "Starting" => Underway(net.asked, main, worker', net.closes)
      BY <2>1, <2>2, TokenTypes, UnderwayMoves DEF NextInv
    <2> QED
      BY <2>1, <2>3 DEF NextInv, storeVars
  <1> QED
    BY <1>1, <1>2, <1>3 DEF MainNext

LEMMA NextWorker ==
  ASSUME IInv, NextInv, WorkerNext
  PROVE  NextInv'
  <1>1. CASE RunChange
    <2>1. /\ worker # <<>> /\ Head(worker).run = "change" /\ worker' = Tail(worker)
          /\ user' = Head(worker).user /\ net' = Restarted(net, queue[user'], provider.counter)
          /\ UNCHANGED <<main, queue>>
      BY <1>1 DEF RunChange, Runs
    <2>2. user' \in Users
      BY <2>1, TailTypes DEF Task
    <2>3. NetKept /\ Moves(net', queue'[user'])
      BY <2>1, <2>2, ChangeNet DEF IInv
    <2>4. ~TokenFor(Head(worker), net.closes)
      BY <2>1 DEF TokenFor
    <2> QED
      BY <2>1, <2>3, <2>4, QuietNext
  <1>2. CASE RunWrite
    <2>1. worker # <<>> /\ Head(worker).run = "write" /\ worker' = Tail(worker)
          /\ net' = Fill(net, queue'[user], provider.counter)
          /\ UNCHANGED <<main, user, authors>>
      BY <1>2 DEF RunWrite, Runs
    <2>2. user = Owner(Head(worker)) /\ Head(worker).write \in 1..Len(authors)
      BY <2>1, OwnerTail, <1>2 DEF IInv, RunWrite
    <2>3. authors[Head(worker).write] = user
      BY <2>1, <2>2 DEF Owner
    <2>4. /\ StoreInv' /\ queue' \in [Users -> Seq(Batch)]
          /\ \E b \in Batch : queue' = [queue EXCEPT ![user] = Append(queue[user], b)]
      BY <1>2, <2>2, <2>3, StoreKeeps DEF IInv
    <2>5. NetKept /\ Moves(net', queue'[user'])
      BY <2>1, <2>4, WriteNet DEF IInv
    <2>6. ~TokenFor(Head(worker), net.closes)
      BY <2>1 DEF TokenFor
    <2> QED
      BY <2>1, <2>5, <2>6, QuietNext
  <1>3. CASE RunGranted
    <2> DEFINE t == Head(worker)
    <2>1. worker # <<>> /\ worker' = Tail(worker) /\ UNCHANGED <<main, provider, storeVars>>
      BY <1>3 DEF RunGranted, Runs
    <2>2. \/ t.closes # net.closes /\ net' = net
          \/ t.closes = net.closes /\ ~t.ok /\ net' = Broken(net, provider.counter)
          \/ /\ t.closes = net.closes
             /\ net' = [net EXCEPT !.state = "Open", !.call.as = t.user]
      BY <1>3 DEF RunGranted
    <2>3. net \in Nets /\ provider.counter \in Nat /\ StreamOK(net, queue[user], user)
      BY BaseFacts DEF IInv, NetInv
    <2>4. CASE t.closes # net.closes /\ net' = net
      <3>1. ~TokenFor(Head(worker), net.closes)
        BY <2>4 DEF TokenFor
      <3>2. net.state = "Starting" => Underway(net.asked, main, worker', net.closes)
        BY <2>1, <3>1, TokenTypes, UnderwayMoves DEF NextInv
      <3> QED
        BY <2>1, <2>4, <3>2 DEF NextInv, storeVars
    <2>5. CASE net' = Broken(net, provider.counter)
      <3>1. net'.state # "Starting" /\ Moves(net', queue[user])
        BY <2>3, <2>5, BrokenKeeps DEF NextInv
      <3> QED
        BY <2>1, <3>1 DEF NextInv, storeVars
    <2>6. CASE net' = [net EXCEPT !.state = "Open", !.call.as = t.user]
      <3>1. net'.state = "Open" /\ net'.pipeline = net.pipeline
        BY <2>3, <2>6 DEF Nets
      <3> QED
        BY <2>1, <3>1 DEF NextInv, Moves, storeVars
    <2> QED
      BY <2>2, <2>4, <2>5, <2>6
  <1> QED
    BY <1>1, <1>2, <1>3 DEF WorkerNext

\* Timers, the handshake, the server and its answers.
LEMMA NextStream ==
  ASSUME IInv, NextInv, StreamNext
  PROVE  NextInv'
  <1>1. ASSUME BackoffElapses \/ IdleElapses \/ HandshakeDone \/ ServerApplies \/ ServerRefuses
        PROVE  NextInv'
    <2>1. UNCHANGED <<main, worker, storeVars>>
      BY <1>1 DEF BackoffElapses, HandshakeDone, IdleElapses, ServerApplies, ServerRefuses
    <2>2. NetKept
      BY <1>1, BackoffKeeps, IdleKeeps, HandshakeKeeps, ServerKeeps DEF IInv
    <2>3. net \in Nets /\ StreamOK(net, queue[user], user)
      BY BaseFacts DEF IInv, NetInv
    <2>4. Moves(net', queue[user])
      <3>1. CASE BackoffElapses
        <4> DEFINE z == [net EXCEPT !.state = "Initial"]
        <4>1. net.pipeline # <<>> /\ net' = Start(z, provider.counter)
          BY <2>3, <3>1 DEF StreamOK, BackoffElapses
        <4>2. z.state = "Initial" /\ z.pipeline = net.pipeline
          BY <2>3 DEF Nets
        <4> DEFINE A == z.asked \cup {Asked(provider.counter, z.closes)}
        <4>3. z \in Nets /\ net' = [z EXCEPT !.state = "Starting", !.asked = A]
          BY <2>3, <4>1, <4>2 DEF Start, Nets, States
        <4> HIDE DEF z, A
        <4>4. net'.state = "Starting" /\ net'.pipeline = net.pipeline
          BY <4>2, <4>3 DEF Nets
        <4> QED
          BY <4>4, MovesSame DEF NextInv
      <3>2. CASE IdleElapses
        <4> DEFINE c == Closed(net, "Initial")
        <4>1. net.pipeline = <<>> /\ net' = [c EXCEPT !.shook = FALSE]
          BY <2>3, <3>2 DEF StreamOK, IdleElapses
        <4>2. c \in Nets /\ c.pipeline = net.pipeline
          BY <2>3, ClosedFacts DEF States
        <4> HIDE DEF c
        <4>3. net'.pipeline = net.pipeline
          BY <4>1, <4>2 DEF Nets
        <4> QED
          BY <4>1, <4>3, MovesSame DEF NextInv
      <3>3. CASE HandshakeDone \/ ServerApplies \/ ServerRefuses
        <4>1. net'.pipeline = net.pipeline /\ net'.state = net.state
          BY <2>3, <3>3 DEF HandshakeDone, ServerApplies, ServerRefuses, Nets
        <4> QED
          BY <4>1 DEF NextInv, Moves
      <3> QED
        BY <1>1, <3>1, <3>2, <3>3
    <2> QED
      BY <2>1, <2>2, <2>4, QuietNext DEF storeVars
  <1>2. ASSUME ReadResult \/ ReadRefusal
        PROVE  NextInv'
    <2>1. net.call.answers # <<>> /\ UNCHANGED <<main, worker, user, nextBatch>>
      BY <1>2 DEF ReadResult, ReadRefusal
    <2>2. TakeFront("ok") \/ TakeFront("refused")
      BY <1>2 DEF ReadResult, ReadRefusal
    <2>3. net.pipeline # <<>>
      BY <2>1, AnswerIsFront DEF IInv
    <2>4. /\ StoreInv' /\ queue' = [queue EXCEPT ![user] = Tail(queue[user])]
          /\ queue' \in [Users -> Seq(Batch)]
      <3>1. UNCHANGED authors
        BY <1>2 DEF ReadResult, ReadRefusal
      <3> QED
        BY <2>1, <2>2, <2>3, <3>1, TakeKeeps DEF IInv
    <2>5. NetKept /\ Moves(net', queue'[user])
      BY <1>2, <2>1, <2>4, ReadResultNet, ReadRefusalNet DEF IInv, ReadResult, ReadRefusal
    <2> QED
      BY <2>1, <2>5, QuietNext
  <1> QED
    BY <1>1, <1>2 DEF StreamNext

LEMMA NextFault ==
  ASSUME IInv, NextInv, FaultNext
  PROVE  NextInv'
  <1>1. net \in Nets /\ provider.counter \in Nat /\ StreamOK(net, queue[user], user)
    BY BaseFacts DEF IInv, NetInv
  <1>2. CASE StreamBreaks
    <2>1. UNCHANGED <<main, worker, storeVars>> /\ net' = Broken(net, provider.counter)
      BY <1>2 DEF StreamBreaks
    <2>2. net'.state # "Starting" /\ Moves(net', queue[user])
      BY <1>1, <2>1, BrokenKeeps DEF NextInv
    <2> QED
      BY <2>1, <2>2 DEF NextInv, storeVars
  <1>3. CASE ConnectivityChanges
    <2>1. UNCHANGED <<main, worker, user, queue>>
          /\ net' = Restarted(net, queue[user'], provider.counter)
      BY <1>3 DEF ConnectivityChanges, storeVars
    <2>2. NetKept /\ Moves(net', queue'[user'])
      <3>1. user' \in Users
        BY <2>1, BaseFacts DEF IInv
      <3> QED
        BY <2>1, <3>1, ChangeNet DEF IInv
    <2> QED
      BY <2>1, <2>2, QuietNext
  <1>4. CASE Restart
    <2>1. /\ user' \in {auth, Nobody} /\ UNCHANGED queue
          /\ net' = Fill(NewNet, queue[user'], 0)
      BY <1>4 DEF Restart
    <2>2. user' \in Users
      BY <2>1 DEF IInv, BaseInv, Users
    <2>3. queue[user'] \in Seq(Batch) /\ Increasing(queue[user'])
      BY <2>2 DEF IInv, BaseInv, StoreInv
    <2>4. Filled(NewNet, net', queue[user'], user', 0) /\ NewNet.state # "Starting"
          /\ NewNet \in Nets
      BY <2>1, <2>3, NewNetOK, FillKeeps
    <2>5. net'.state = "Starting" => Underway(net'.asked, main', worker', net'.closes)
      BY <2>4, UnderwayNet DEF Filled
    <2> QED
      BY <2>1, <2>4, <2>5 DEF NextInv, Filled
  <1> QED
    BY <1>2, <1>3, <1>4 DEF FaultNext

LEMMA NextKeeps ==
  ASSUME IInv, NextInv, [Next]_vars
  PROVE  NextInv'
  <1>1. CASE UNCHANGED vars
    BY <1>1 DEF vars, storeVars, NextInv
  <1> QED
    BY <1>1, NextAuth, NextMain, NextWorker, NextStream, NextFault DEF Next

LEMMA NextStarts ==
  ASSUME Init
  PROVE  NextInv
  <1>1. queue[user] = <<>> /\ net.pipeline = <<>> /\ net.state = "Initial"
    BY DEF Init, NewNet, Users
  <1> QED
    BY <1>1 DEF NextInv, Moves

LEMMA NextHolds == Spec => []NextInv
  BY InvariantHolds, InitEstablishes, NextStarts, NextKeeps, PTL DEF Spec

LEMMA GivesNextStep ==
  ASSUME IInv, NextInv
  PROVE  WritesHaveNextStep
  <1>1. SUFFICES ASSUME queue[user] # <<>>
                 PROVE  /\ net.pipeline # <<>>
                        /\ \/ net.state = "Starting" /\ TokenUnderway
                           \/ net.state = "Backoff"
                           \/ net.state = "Open" /\ (~net.shook \/ net.call.sent # <<>>
                                                      \/ net.call.answers # <<>>)
    BY DEF WritesHaveNextStep
  <1>2. net.pipeline # <<>> /\ net.state \in {"Starting", "Backoff", "Open"}
    BY <1>1, BaseFacts DEF IInv, NextInv, Moves, Nets, States
  <1>3. net.state = "Starting" => TokenUnderway
    BY DEF NextInv, Underway, NoneAsked, NoneIn, TokenFor, TokenUnderway
  <1>4. net.shook => net.call.sent # <<>> \/ net.call.answers # <<>>
    <2>1. net.shook => OnStream(net.call) = net.pipeline
      BY DEF IInv, NetInv, StreamOK
    <2>2. net.call \in Calls
      BY BaseFacts DEF IInv, Nets
    <2>3. net.call.sent = <<>> /\ net.call.answers = <<>> => OnStream(net.call) = <<>>
      BY <2>2, AnsweredType
    <2> QED
      BY <1>2, <2>1, <2>3
  <1> QED
    BY <1>2, <1>3, <1>4

\* Whenever the current user has a write stored, the pipeline has the first
\* one and something is under way that makes its stream go on: a token for
\* the stream as it is now, the backoff timer, the handshake, the server or
\* an answer. So no interleaving of closes, users, tokens and restarts leaves
\* the queue stuck, which is what its progress rests on.
THEOREM WritesKeepMoving == Spec => []WritesHaveNextStep
  BY InvariantHolds, NextHolds, GivesNextStep, PTL
=============================================================================
