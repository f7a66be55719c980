--------------------------- MODULE WriteLogProofs ---------------------------
(* What the write log promises the app, for all users and writes.            *)
EXTENDS WriteLog, TLAPS

-----------------------------------------------------------------------------
LogTypes ==
  /\ pending \in [Users -> Seq(Writes)]
  /\ ahead \in [Users -> Nat]
  /\ heard \in [Writes -> {"nothing", "ok", "refused"}]

\* No write is pending twice, for one user or for two.
PendingOnce ==
  \A u, v \in Users : \A i \in 1..Len(pending[u]) : \A j \in 1..Len(pending[v]) :
    pending[u][i] = pending[v][j] => u = v /\ i = j

\* The writes the server is ahead by are pending and have been applied.
AheadApplied ==
  \A u \in Users : ahead[u] <= Len(pending[u])
                   /\ \A i \in 1..ahead[u] : pending[u][i] \in applied

LogInv == LogTypes /\ PendingOnce /\ AheadApplied /\ AnswersAreTrue

\* A write leaves the head of a sequence.
LEMMA PendingTail ==
  ASSUME LogInv, NEW u \in Users, pending[u] # <<>>,
         pending' = [pending EXCEPT ![u] = Tail(@)]
  PROVE  /\ pending' \in [Users -> Seq(Writes)] /\ PendingOnce'
         /\ Head(pending[u]) \in Writes /\ pending[u][1] = Head(pending[u])
         /\ Len(pending'[u]) = Len(pending[u]) - 1 /\ Len(pending[u]) \in Nat \ {0}
         /\ \A i \in 1..Len(pending'[u]) : pending'[u][i] = pending[u][i + 1]
         /\ \A v \in Users \ {u} : pending'[v] = pending[v]
         /\ \A v \in Users : \A i \in 1..Len(pending'[v]) :
              pending'[v][i] # Head(pending[u])
              /\ \E j \in 1..Len(pending[v]) : pending'[v][i] = pending[v][j]
  <1> DEFINE s == pending[u]
             t == pending'[u]
  <1>1. /\ s \in Seq(Writes) /\ s # <<>> /\ t = Tail(s)
        /\ pending \in [Users -> Seq(Writes)]
        /\ \A v \in Users \ {u} : pending'[v] = pending[v]
    BY DEF LogInv, LogTypes
  <1> HIDE DEF s, t
  <1>2. /\ t \in Seq(Writes) /\ Len(t) = Len(s) - 1 /\ Len(s) \in Nat \ {0}
        /\ \A i \in 1..Len(t) : t[i] = s[i + 1] /\ i + 1 \in 1..Len(s) /\ i + 1 # 1
        /\ Head(s) \in Writes /\ s[1] = Head(s) /\ 1 \in 1..Len(s)
    BY <1>1
  <1>3. pending' \in [Users -> Seq(Writes)]
    BY <1>1, <1>2 DEF s, t
  <1>4. ASSUME NEW v \in Users, NEW i \in 1..Len(pending'[v])
        PROVE  \E j \in 1..Len(pending[v]) :
                 /\ pending'[v][i] = pending[v][j] /\ (v = u => j = i + 1)
                 /\ (v # u => j = i)
    <2>1. CASE v = u
      BY <1>2, <1>4, <2>1 DEF s, t
    <2>2. CASE v # u
      BY <1>1, <1>4, <2>2
    <2> QED
      BY <2>1, <2>2
  <1>5. ASSUME NEW v \in Users, NEW i \in 1..Len(pending'[v])
        PROVE  pending'[v][i] # Head(s)
    <2>1. PICK j \in 1..Len(pending[v]) :
                 /\ pending'[v][i] = pending[v][j] /\ (v = u => j = i + 1)
                 /\ (v # u => j = i)
      BY <1>4
    <2>2. v = u => j # 1
      BY <1>3, <2>1
    <2>3. PendingOnce /\ pending[u][1] = Head(s) /\ 1 \in 1..Len(pending[u])
      BY <1>2 DEF LogInv, s
    <2> QED
      BY <2>1, <2>2, <2>3 DEF PendingOnce
  <1>6. PendingOnce'
    <2>1. ASSUME NEW v \in Users, NEW w \in Users, NEW i \in 1..Len(pending'[v]),
                 NEW j \in 1..Len(pending'[w]), pending'[v][i] = pending'[w][j]
          PROVE  v = w /\ i = j
      <3>1. PICK k \in 1..Len(pending[v]) :
                 /\ pending'[v][i] = pending[v][k] /\ (v = u => k = i + 1)
                 /\ (v # u => k = i)
        BY <1>4
      <3>2. PICK m \in 1..Len(pending[w]) :
                 /\ pending'[w][j] = pending[w][m] /\ (w = u => m = j + 1)
                 /\ (w # u => m = j)
        BY <1>4
      <3>3. v = w /\ k = m
        BY <2>1, <3>1, <3>2 DEF LogInv, PendingOnce
      <3>4. i \in Nat /\ j \in Nat
        BY <1>3
      <3> QED
        BY <3>1, <3>2, <3>3, <3>4
    <2> QED
      BY <2>1 DEF PendingOnce
  <1>7. /\ Head(pending[u]) \in Writes /\ pending[u][1] = Head(pending[u])
        /\ Len(pending'[u]) = Len(pending[u]) - 1 /\ Len(pending[u]) \in Nat \ {0}
    BY <1>2 DEF s, t
  <1>8. \A i \in 1..Len(pending'[u]) : pending'[u][i] = pending[u][i + 1]
    BY <1>2 DEF s, t
  <1>9. \A v \in Users : \A i \in 1..Len(pending'[v]) :
          pending'[v][i] # Head(pending[u])
    BY <1>5 DEF s
  <1>10. \A v \in Users : \A i \in 1..Len(pending'[v]) :
           \E j \in 1..Len(pending[v]) : pending'[v][i] = pending[v][j]
    BY <1>4
  <1> QED
    BY ONLY <1>1, <1>3, <1>6, <1>7, <1>8, <1>9, <1>10

LEMMA LogInit ==
  ASSUME Init
  PROVE  LogInv
  <1>1. \A u \in Users : pending[u] = <<>> /\ ahead[u] = 0
    BY DEF Init
  <1>2. LogTypes
    BY DEF Init, LogTypes
  <1> QED
    BY <1>1, <1>2 DEF LogInv, PendingOnce, AheadApplied, AnswersAreTrue, Init

LEMMA LogMake ==
  ASSUME LogInv, NEW u \in Users, NEW w \in Writes, Make(u, w)
  PROVE  LogInv'
  <1> DEFINE s == pending[u]
             t == pending'[u]
  <1>1. /\ s \in Seq(Writes) /\ t = Append(s, w)
        /\ pending \in [Users -> Seq(Writes)] /\ ahead[u] \in Nat
        /\ \A v \in Users \ {u} : pending'[v] = pending[v]
        /\ pending' = [pending EXCEPT ![u] = Append(s, w)]
        /\ UNCHANGED <<ahead, applied, heard>> /\ w \notin applied /\ heard[w] = "nothing"
        /\ \A v \in Users : \A i \in 1..Len(pending[v]) : pending[v][i] # w
    BY DEF LogInv, LogTypes, Make
  <1> HIDE DEF s, t
  <1>2. /\ t \in Seq(Writes) /\ Len(t) = Len(s) + 1 /\ Len(s) \in Nat
        /\ t[Len(s) + 1] = w /\ \A i \in 1..Len(s) : t[i] = s[i]
    BY <1>1
  <1>3. LogTypes'
    BY <1>1, <1>2 DEF LogInv, LogTypes, s, t
  <1>4. ASSUME NEW v \in Users, NEW i \in 1..Len(pending'[v])
        PROVE  \/ v = u /\ i = Len(s) + 1 /\ pending'[v][i] = w
               \/ i \in 1..Len(pending[v]) /\ pending'[v][i] = pending[v][i]
    <2>1. CASE v = u
      BY <1>2, <1>4, <2>1 DEF s, t
    <2>2. CASE v # u
      BY <1>1, <1>4, <2>2
    <2> QED
      BY <2>1, <2>2
  <1>5. PendingOnce'
    <2>1. ASSUME NEW v \in Users, NEW x \in Users, NEW i \in 1..Len(pending'[v]),
                 NEW j \in 1..Len(pending'[x]), pending'[v][i] = pending'[x][j]
          PROVE  v = x /\ i = j
      BY <1>1, <1>4, <2>1 DEF LogInv, PendingOnce
    <2> QED
      BY <2>1 DEF PendingOnce
  <1>6. AheadApplied'
    <2>1. ASSUME NEW v \in Users
          PROVE  ahead[v] <= Len(pending'[v]) /\ \A i \in 1..ahead[v] : pending'[v][i] \in applied
      <3>1. /\ ahead[v] <= Len(pending[v]) /\ ahead[v] \in Nat
            /\ \A i \in 1..ahead[v] : pending[v][i] \in applied
        BY DEF LogInv, LogTypes, AheadApplied
      <3>2. CASE v = u
        BY <1>2, <3>1, <3>2 DEF s, t
      <3>3. CASE v # u
        BY <1>1, <3>1, <3>3
      <3> QED
        BY <3>2, <3>3
    <2> QED
      BY <1>1, <2>1 DEF AheadApplied
  <1>7. AnswersAreTrue'
    BY <1>1, <1>4 DEF LogInv, AnswersAreTrue
  <1> QED
    BY <1>3, <1>5, <1>6, <1>7 DEF LogInv

LEMMA LogApply ==
  ASSUME LogInv, NEW u \in Users, Apply(u) \/ StartOver(u)
  PROVE  LogInv'
  <1>1. pending' = pending /\ heard' = heard
    BY DEF Apply, StartOver
  <1>2. applied \subseteq applied' /\ ahead' \in [Users -> Nat]
    <2>1. ahead \in [Users -> Nat] /\ ahead[u] \in Nat
      BY DEF LogInv, LogTypes
    <2>2. CASE Apply(u)
      BY <2>1, <2>2 DEF Apply
    <2>3. CASE StartOver(u)
      BY <2>1, <2>3 DEF StartOver
    <2> QED
      BY <2>2, <2>3
  <1>3. LogTypes' /\ PendingOnce'
    BY <1>1, <1>2 DEF LogInv, LogTypes, PendingOnce
  <1>4. AnswersAreTrue'
    BY <1>1, <1>2 DEF LogInv, AnswersAreTrue
  <1>5. AheadApplied'
    <2>1. ASSUME NEW v \in Users
          PROVE  ahead'[v] <= Len(pending[v])
                 /\ \A i \in 1..ahead'[v] : pending[v][i] \in applied'
      <3>1. /\ ahead[v] <= Len(pending[v]) /\ ahead[v] \in Nat /\ Len(pending[v]) \in Nat
            /\ \A i \in 1..ahead[v] : pending[v][i] \in applied
            /\ ahead \in [Users -> Nat]
        BY DEF LogInv, LogTypes, AheadApplied
      <3>2. CASE v # u
        <4>1. ahead'[v] = ahead[v]
          BY <3>1, <3>2 DEF Apply, StartOver
        <4> QED
          BY <1>2, <3>1, <4>1
      <3>3. CASE v = u /\ Apply(u)
        <4>1. /\ ahead'[v] = ahead[v] + 1 /\ ahead[v] < Len(pending[v])
              /\ pending[v][ahead[v] + 1] \in applied'
          BY <3>1, <3>3 DEF Apply
        <4> QED
          BY <1>2, <3>1, <4>1
      <3>4. CASE v = u /\ StartOver(u)
        <4>1. ahead'[v] = 0
          BY <3>1, <3>4 DEF StartOver
        <4> QED
          BY <3>1, <4>1
      <3> QED
        BY <3>2, <3>3, <3>4
    <2> QED
      BY <1>1, <2>1 DEF AheadApplied
  <1> QED
    BY <1>3, <1>4, <1>5 DEF LogInv

\* A write ends at the head of its sequence, and the app may be told.
LEMMA LogEnd ==
  ASSUME LogInv, NEW u \in Users, Acknowledge(u) \/ Refuse(u)
  PROVE  LogInv'
  <1> DEFINE w == Head(pending[u])
  <1>1. /\ ahead[u] \in Nat /\ ahead[u] <= Len(pending[u]) /\ pending[u] \in Seq(Writes)
        /\ ahead \in [Users -> Nat]
        /\ \A i \in 1..ahead[u] : pending[u][i] \in applied
    BY DEF LogInv, LogTypes, AheadApplied
  <1>2. pending[u] # <<>> /\ pending' = [pending EXCEPT ![u] = Tail(@)] /\ applied' = applied
    BY <1>1 DEF Acknowledge, Refuse
  <1>3. /\ pending' \in [Users -> Seq(Writes)] /\ PendingOnce'
        /\ w \in Writes /\ pending[u][1] = w
        /\ Len(pending'[u]) = Len(pending[u]) - 1 /\ Len(pending[u]) \in Nat \ {0}
        /\ \A i \in 1..Len(pending'[u]) : pending'[u][i] = pending[u][i + 1]
        /\ \A v \in Users \ {u} : pending'[v] = pending[v]
        /\ \A v \in Users : \A i \in 1..Len(pending'[v]) :
              pending'[v][i] # w
              /\ \E j \in 1..Len(pending[v]) : pending'[v][i] = pending[v][j]
    BY <1>2, PendingTail
  <1>4. heard \in [Writes -> {"nothing", "ok", "refused"}]
    BY DEF LogInv, LogTypes
  <1> HIDE DEF w
  <1>5. \/ /\ ahead[u] # 0 /\ ahead' = [ahead EXCEPT ![u] = @ - 1]
           /\ heard' \in {heard, [heard EXCEPT ![w] = "ok"]} /\ w \in applied
        \/ /\ ahead[u] = 0 /\ ahead' = ahead
           /\ heard' \in {heard, [heard EXCEPT ![w] = "refused"]}
    <2>1. CASE Acknowledge(u)
      <3>1. /\ ahead[u] # 0 /\ ahead' = [ahead EXCEPT ![u] = @ - 1]
            /\ heard' \in {heard, [heard EXCEPT ![w] = "ok"]}
        BY <2>1 DEF Acknowledge, Tell, w
      <3>2. 1 \in 1..ahead[u]
        BY <1>1, <3>1
      <3> QED
        BY <1>1, <1>3, <3>1, <3>2
    <2>2. CASE Refuse(u)
      BY <2>2 DEF Refuse, Tell, w
    <2> QED
      BY <2>1, <2>2
  <1>6. /\ ahead' \in [Users -> Nat]
        /\ ahead'[u] <= ahead[u] /\ (ahead[u] # 0 => ahead'[u] = ahead[u] - 1)
        /\ \A v \in Users \ {u} : ahead'[v] = ahead[v]
    <2>1. CASE ahead[u] # 0 /\ ahead' = [ahead EXCEPT ![u] = @ - 1]
      <3>1. ahead[u] - 1 \in Nat
        BY <1>1, <2>1
      <3> QED
        BY <1>1, <2>1, <3>1
    <2>2. CASE ahead[u] = 0 /\ ahead' = ahead
      BY <1>1, <2>2
    <2> QED
      BY <1>5, <2>1, <2>2
  <1>10. heard' \in [Writes -> {"nothing", "ok", "refused"}]
    BY <1>3, <1>4, <1>5
  <1>7. LogTypes'
    BY <1>3, <1>6, <1>10 DEF LogTypes
  <1>8. AheadApplied'
    <2>1. ASSUME NEW v \in Users
          PROVE  ahead'[v] <= Len(pending'[v])
                 /\ \A i \in 1..ahead'[v] : pending'[v][i] \in applied
      <3>1. CASE v = u
        <4>1. /\ ahead'[u] \in Nat
              /\ ahead'[u] = 0 \/ ahead'[u] = ahead[u] - 1
          BY <1>1, <1>6
        <4>2. ahead'[u] <= Len(pending'[u])
          BY <1>1, <1>3, <4>1
        <4>3. ASSUME NEW i \in 1..ahead'[u]
              PROVE  pending'[u][i] \in applied
          <5>1. i + 1 \in 1..ahead[u] /\ i \in 1..Len(pending'[u])
            BY <1>1, <1>3, <4>1
          <5> QED
            BY <1>1, <1>3, <5>1
        <4> QED
          BY <3>1, <4>2, <4>3
      <3>2. CASE v # u
        BY <1>3, <1>6, <3>2 DEF LogInv, AheadApplied
      <3> QED
        BY <3>1, <3>2
    <2> QED
      BY <1>2, <2>1 DEF AheadApplied
  <1>9. AnswersAreTrue'
    <2>1. \A x \in Writes : x # w => heard'[x] = heard[x]
      BY <1>3, <1>4, <1>5
    <2>2. heard'[w] = "ok" => w \in applied
      BY <1>3, <1>4, <1>5 DEF LogInv, AnswersAreTrue
    <2>3. \A v \in Users : \A i \in 1..Len(pending'[v]) :
            pending'[v][i] \in Writes /\ pending'[v][i] # w /\ heard[pending'[v][i]] = "nothing"
      <3>1. ASSUME NEW v \in Users, NEW i \in 1..Len(pending'[v])
            PROVE  pending'[v][i] \in Writes /\ pending'[v][i] # w
                   /\ heard[pending'[v][i]] = "nothing"
        <4>1. PICK j \in 1..Len(pending[v]) : pending'[v][i] = pending[v][j]
          BY <1>3, <3>1
        <4>2. pending'[v] \in Seq(Writes)
          BY <1>3
        <4>3. heard[pending[v][j]] = "nothing"
          BY DEF LogInv, AnswersAreTrue
        <4> QED
          BY <1>3, <3>1, <4>1, <4>2, <4>3
      <3> QED
        BY <3>1
    <2> QED
      BY <1>2, <2>1, <2>2, <2>3 DEF LogInv, AnswersAreTrue
  <1> QED
    BY <1>3, <1>7, <1>8, <1>9 DEF LogInv

LEMMA LogStays ==
  ASSUME LogInv, [Next]_logVars
  PROVE  LogInv'
  <1>1. CASE UNCHANGED logVars
    BY <1>1 DEF LogInv, LogTypes, PendingOnce, AheadApplied, AnswersAreTrue, logVars
  <1>2. CASE Next
    BY <1>2, LogMake, LogApply, LogEnd DEF Next
  <1> QED
    BY <1>1, <1>2

LEMMA LogHolds == Spec => []LogInv
  BY LogInit, LogStays, PTL DEF Spec

\* A write joins behind the others, and has not been applied.
LEMMA OrderMake ==
  ASSUME LogInv, AppliedInOrder, NEW u \in Users, NEW w \in Writes, Make(u, w)
  PROVE  AppliedInOrder'
  <1>1. /\ pending[u] \in Seq(Writes) /\ pending \in [Users -> Seq(Writes)]
        /\ pending' = [pending EXCEPT ![u] = Append(pending[u], w)]
        /\ applied' = applied /\ w \notin applied
    BY DEF LogInv, LogTypes, Make
  <1>2. ASSUME NEW v \in Users, NEW i \in 1..Len(pending'[v]), NEW j \in 1..Len(pending'[v]),
               i < j, pending'[v][j] \in applied
        PROVE  pending'[v][i] \in applied
    <2>1. CASE v = u
      <3> DEFINE s == pending[u]
                 t == pending'[u]
      <3>1. /\ Len(t) = Len(s) + 1 /\ Len(s) \in Nat /\ t[Len(s) + 1] = w
            /\ \A k \in 1..Len(s) : t[k] = s[k]
        BY <1>1
      <3> HIDE DEF s, t
      <3>2. i \in 1..Len(t) /\ j \in 1..Len(t) /\ t[j] \in applied
        BY <1>2, <2>1 DEF t
      <3>3. j # Len(s) + 1
        BY <1>1, <3>1, <3>2
      <3>4. i \in 1..Len(s) /\ j \in 1..Len(s) /\ s[j] \in applied
        BY <1>2, <3>1, <3>2, <3>3
      <3>5. s[i] \in applied
        BY <1>2, <3>4 DEF AppliedInOrder, s
      <3> QED
        BY <2>1, <3>1, <3>4, <3>5 DEF t
    <2>2. CASE v # u
      BY <1>1, <1>2, <2>2 DEF AppliedInOrder
    <2> QED
      BY <2>1, <2>2
  <1> QED
    BY <1>1, <1>2 DEF AppliedInOrder

\* What the server applies next has everything before it applied already, and
\* is in no other place of any sequence.
LEMMA OrderApply ==
  ASSUME LogInv, AppliedInOrder, NEW u \in Users, Apply(u)
  PROVE  AppliedInOrder'
  <1> DEFINE k == ahead[u] + 1
  <1>1. /\ ahead[u] \in Nat /\ Len(pending[u]) \in Nat /\ k \in 1..Len(pending[u])
        /\ pending' = pending /\ applied' = applied \cup {pending[u][k]}
        /\ \A i \in 1..ahead[u] : pending[u][i] \in applied
    BY DEF LogInv, LogTypes, AheadApplied, Apply
  <1>2. ASSUME NEW v \in Users, NEW i \in 1..Len(pending[v]), NEW j \in 1..Len(pending[v]),
               i < j, pending[v][j] \in applied'
        PROVE  pending[v][i] \in applied'
    <2>1. CASE pending[v][j] \in applied
      BY <1>1, <1>2, <2>1 DEF AppliedInOrder
    <2>2. CASE pending[v][j] = pending[u][k]
      <3>1. v = u /\ j = k
        BY <1>1, <2>2 DEF LogInv, PendingOnce
      <3>2. i \in 1..ahead[u]
        BY <1>1, <1>2, <3>1
      <3> QED
        BY <1>1, <3>1, <3>2
    <2> QED
      BY <1>1, <1>2, <2>1, <2>2
  <1> QED
    BY <1>1, <1>2 DEF AppliedInOrder

LEMMA OrderEnd ==
  ASSUME LogInv, AppliedInOrder, NEW u \in Users, Acknowledge(u) \/ Refuse(u)
  PROVE  AppliedInOrder'
  <1>1. /\ ahead[u] \in Nat /\ ahead[u] <= Len(pending[u]) /\ pending[u] \in Seq(Writes)
    BY DEF LogInv, LogTypes, AheadApplied
  <1>2. pending[u] # <<>> /\ pending' = [pending EXCEPT ![u] = Tail(@)] /\ applied' = applied
    BY <1>1 DEF Acknowledge, Refuse
  <1>3. /\ Len(pending'[u]) = Len(pending[u]) - 1 /\ Len(pending[u]) \in Nat \ {0}
        /\ \A i \in 1..Len(pending'[u]) : pending'[u][i] = pending[u][i + 1]
        /\ \A v \in Users \ {u} : pending'[v] = pending[v]
    BY <1>2, PendingTail
  <1>4. ASSUME NEW v \in Users, NEW i \in 1..Len(pending'[v]), NEW j \in 1..Len(pending'[v]),
               i < j, pending'[v][j] \in applied
        PROVE  pending'[v][i] \in applied
    <2>1. CASE v = u
      <3>1. /\ i + 1 \in 1..Len(pending[u]) /\ j + 1 \in 1..Len(pending[u]) /\ i + 1 < j + 1
            /\ pending'[u][i] = pending[u][i + 1] /\ pending'[u][j] = pending[u][j + 1]
        BY <1>3, <1>4, <2>1
      <3> QED
        BY <1>4, <2>1, <3>1 DEF AppliedInOrder
    <2>2. CASE v # u
      BY <1>3, <1>4, <2>2 DEF AppliedInOrder
    <2> QED
      BY <2>1, <2>2
  <1> QED
    BY <1>2, <1>4 DEF AppliedInOrder

\* In the write log, an acknowledgement the app hears is true, and a write
\* that is still pending has not been answered.
THEOREM LogAnswersAreTrue == Spec => []AnswersAreTrue
  <1>1. LogInv => AnswersAreTrue
    BY DEF LogInv
  <1> QED
    BY <1>1, LogHolds, PTL

\* The writes of a user reach the server in the order they were made: none is
\* applied before an older pending one, however often the server starts over
\* and although older ones may be refused.
THEOREM LogAppliesInOrder == Spec => []AppliedInOrder
  <1>1. Init => AppliedInOrder
    BY DEF Init, AppliedInOrder
  <1>2. ASSUME LogInv, AppliedInOrder, [Next]_logVars
        PROVE  AppliedInOrder'
    <2>1. CASE UNCHANGED logVars
      BY <1>2, <2>1 DEF AppliedInOrder, logVars
    <2>2. ASSUME NEW u \in Users, StartOver(u)
          PROVE  AppliedInOrder'
      BY <1>2, <2>2 DEF AppliedInOrder, StartOver
    <2> QED
      BY <1>2, <2>1, <2>2, OrderMake, OrderApply, OrderEnd DEF Next
  <1> QED
    BY <1>1, <1>2, LogHolds, PTL DEF Spec

=============================================================================
