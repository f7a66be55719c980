------------------------------ MODULE WriteLog ------------------------------
(***************************************************************************)
(* What Firestore promises about the writes of the app, without streams,    *)
(* tokens, pipelines or batch numbers: every user has a sequence of writes  *)
(* that have not ended.  The server works through the sequence of one user  *)
(* at a time, in order; it may have to start over, and a write ends at the  *)
(* head of its sequence, acknowledged after it was applied or refused.      *)
(***************************************************************************)
EXTENDS Naturals, Sequences

CONSTANTS
  Users,   \* whose sequences there are; "nobody signed in" is one of them
  Writes   \* the writes the app may make

VARIABLES
  pending, \* per user, the writes made and not ended, oldest first
  ahead,   \* per user, how many of them the server applied since it started
  applied, \* the writes the server applied at least once
  heard    \* per write, what the app was told: "nothing", "ok" or "refused"

logVars == <<pending, ahead, applied, heard>>

Init ==
  /\ pending = [u \in Users |-> <<>>]
  /\ ahead = [u \in Users |-> 0]
  /\ applied = {}
  /\ heard = [w \in Writes |-> "nothing"]

\* The app may have gone away in between and hear nothing.
Tell(w, verdict) == heard' \in {heard, [heard EXCEPT ![w] = verdict]}

\* A write joins the sequence of u; none that left a trace is made again.
Make(u, w) ==
  /\ \A v \in Users : \A i \in 1..Len(pending[v]) : pending[v][i] # w
  /\ w \notin applied /\ heard[w] = "nothing"
  /\ pending' = [pending EXCEPT ![u] = Append(@, w)]
  /\ UNCHANGED <<ahead, applied, heard>>

\* The server applies the next write of u; it works for one user at a time.
Apply(u) ==
  /\ ahead[u] < Len(pending[u])
  /\ \A v \in Users \ {u} : ahead[v] = 0
  /\ ahead' = [ahead EXCEPT ![u] = @ + 1]
  /\ applied' = applied \cup {pending[u][ahead[u] + 1]}
  /\ UNCHANGED <<pending, heard>>

\* What was sent for u has to be sent again.
StartOver(u) ==
  /\ ahead[u] # 0
  /\ ahead' = [ahead EXCEPT ![u] = 0]
  /\ UNCHANGED <<pending, applied, heard>>

Acknowledge(u) ==
  /\ ahead[u] # 0
  /\ ahead' = [ahead EXCEPT ![u] = @ - 1]
  /\ pending' = [pending EXCEPT ![u] = Tail(@)]
  /\ Tell(Head(pending[u]), "ok")
  /\ UNCHANGED applied

Refuse(u) ==
  /\ ahead[u] = 0 /\ pending[u] # <<>>
  /\ pending' = [pending EXCEPT ![u] = Tail(@)]
  /\ Tell(Head(pending[u]), "refused")
  /\ UNCHANGED <<ahead, applied>>

Next ==
  \E u \in Users :
    \/ \E w \in Writes : Make(u, w)
    \/ Apply(u)
    \/ StartOver(u)
    \/ Acknowledge(u)
    \/ Refuse(u)

Spec == Init /\ [][Next]_logVars

-----------------------------------------------------------------------------
\* An acknowledged write has been applied, and a write that is still pending
\* has not been answered.
AnswersAreTrue ==
  /\ \A w \in Writes : heard[w] = "ok" => w \in applied
  /\ \A u \in Users : \A i \in 1..Len(pending[u]) :
        heard[pending[u][i]] = "nothing"

\* The server never applies a write while an older one of the same user is
\* pending that it has not applied yet, not even after it had to start over.
AppliedInOrder ==
  \A u \in Users : \A i, j \in 1..Len(pending[u]) :
    i < j /\ pending[u][j] \in applied => pending[u][i] \in applied
=============================================================================
