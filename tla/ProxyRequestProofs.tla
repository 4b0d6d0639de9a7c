-------------------------- MODULE ProxyRequestProofs --------------------------
(* Requests in flight, for any number of them, any credentials, snapshots and *)
(* attempt limit: they use the cache as RuntimeCache specifies, so that its    *)
(* theorems hold of the whole, their choices, attempts, statistics and log     *)
(* entries agree, and no request counts twice against a node.                  *)
EXTENDS ProxyRequest, RuntimeCacheProofs, SequenceTheorems, FiniteSetTheorems

RequestTypeOK ==
    /\ pc \in [Requests -> Stages]
    /\ target \in [Requests -> Nodes \cup {NoNode}]
    /\ cancelled \in [Requests -> BOOLEAN]
    /\ attempts \in [Requests -> Seq(Attempt)]
    /\ events \in [Requests -> Seq(Attempt)]
    /\ log \in [Requests -> Seq(Attempt)]

(* What the handler of request r relies on at each stage: it loops only while *)
(* attempts are left and all of them went through nodes, it dials what it has *)
(* not tried, and the attempt it serves is the last.                          *)
Progress(r) ==
    /\ Len(attempts[r]) <= MaxAttempts
    /\ pc[r] \in {"idle", "fallback", "refused"} => attempts[r] = <<>>
    /\ pc[r] \in {"selecting", "selected", "dialing"} =>
        /\ Len(attempts[r]) < MaxAttempts
        /\ NoNode \notin Attempted(r)
    /\ pc[r] \in {"selected", "dialing"} =>
        /\ target[r] \notin Attempted(r)
        /\ target[r] = NoNode => attempts[r] = <<>>
    /\ pc[r] \in {"serving", "served"} =>
        /\ attempts[r] # <<>>
        /\ attempts[r][Len(attempts[r])].node = target[r]

Distinct(r) ==
    /\ \A i, j \in 1..Len(attempts[r]) :
        i # j => attempts[r][i].node # attempts[r][j].node
    /\ NoNode \in Attempted(r) => Len(attempts[r]) = 1
    /\ \A i \in 1..Len(attempts[r]) :
        attempts[r][i].success <=> pc[r] \in {"serving", "served"} /\ i = Len(attempts[r])

RequestInv ==
    /\ RequestTypeOK
    /\ \A r \in Requests : Progress(r) /\ Distinct(r)

(* What a step leaves of the requests it is not about.                        *)
OthersUnchanged(r) ==
    \A q \in Requests \ {r} :
        /\ pc'[q] = pc[q] /\ target'[q] = target[q] /\ attempts'[q] = attempts[q]

-------------------------------------------------------------------------------
(* Attempts are outcomes on nodes or on the direct exit.                      *)
LEMMA AttemptsTyped ==
  ASSUME RequestTypeOK, NEW r \in Requests
  PROVE  /\ attempts[r] \in Seq(Attempt)
         /\ Len(attempts[r]) \in Nat
         /\ Attempted(r) \subseteq Nodes \cup {NoNode}
         /\ \A i \in 1..Len(attempts[r]) : attempts[r][i] \in Attempt
<1>1. attempts[r] \in Seq(Attempt)
  BY DEF RequestTypeOK
<1>2. Len(attempts[r]) \in Nat /\ \A i \in 1..Len(attempts[r]) : attempts[r][i] \in Attempt
  BY <1>1
<1>3. \A a \in Attempt : a.node \in Nodes \cup {NoNode}
  BY DEF Attempt
<1> QED
  BY <1>1, <1>2, <1>3 DEF Attempted

(* What appending to a sequence, or overwriting its last element, leaves.     *)
LEMMA AppendAttempt ==
  ASSUME NEW s \in Seq(Attempt), NEW e \in Attempt, NEW t, t = Append(s, e)
  PROVE  /\ t \in Seq(Attempt)
         /\ Len(s) \in Nat /\ Len(t) = Len(s) + 1
         /\ \A i \in 1..Len(t) :
               \/ i \in 1..Len(s) /\ t[i] = s[i]
               \/ i = Len(t) /\ i \notin 1..Len(s) /\ t[i] = e
<1>1. Len(s) \in Nat
  BY LenProperties
<1>2. /\ t \in Seq(Attempt) /\ Len(t) = Len(s) + 1
      /\ \A i \in 1..Len(s) : t[i] = s[i]
      /\ t[Len(s) + 1] = e
  BY AppendProperties
<1>3. Len(t) = Len(s) + 1
  BY <1>2
<1>4. ASSUME NEW i \in 1..Len(t), i \notin 1..Len(s)
      PROVE  i = Len(s) + 1
  BY <1>1, <1>3, <1>4
<1>5. ASSUME NEW i \in 1..Len(t)
      PROVE  \/ i \in 1..Len(s) /\ t[i] = s[i]
             \/ i = Len(t) /\ i \notin 1..Len(s) /\ t[i] = e
  <2>1. CASE i \in 1..Len(s)
    BY <1>2, <2>1, Zenon
  <2>2. CASE i \notin 1..Len(s)
    BY <1>2, <1>3, <1>4, <2>2, Zenon
  <2>3. QED
    BY <2>1, <2>2, Zenon
<1> QED
  BY <1>1, <1>2, <1>3, <1>5, Zenon

(* ... which is what markLastAttemptFailed does to the attempts.              *)
LEMMA OverwriteLast ==
  ASSUME NEW s \in Seq(Attempt), s # <<>>, NEW e \in Attempt,
         NEW t, t = [s EXCEPT ![Len(s)] = e]
  PROVE  /\ t \in Seq(Attempt)
         /\ Len(s) \in Nat \ {0} /\ Len(t) = Len(s)
         /\ \A i \in 1..Len(t) : t[i] = IF i = Len(s) THEN e ELSE s[i]
<1> DEFINE n == Len(s)
<1>1. n \in Nat \ {0} /\ s \in [1..n -> Attempt]
  BY EmptySeq, LenProperties
<1> HIDE DEF n
<1>2. t = [s EXCEPT ![n] = e]
  BY DEF n
<1>3. /\ t \in [1..n -> Attempt]
      /\ \A i \in 1..n : t[i] = IF i = n THEN e ELSE s[i]
  BY <1>1, <1>2
<1>4. t \in Seq(Attempt)
  BY <1>1, <1>3, SeqDef
<1>5. Len(t) = n
  <2>1. Len(t) \in Nat /\ 1..Len(t) = 1..n
    BY <1>3, <1>4, LenProperties
  <2> QED
    BY <1>1, <2>1
<1> QED
  BY <1>1, <1>3, <1>4, <1>5 DEF n

(* The two outcomes an attempt may have.                                      *)
LEMMA OutcomeIsAttempt ==
  ASSUME NEW n \in Nodes \cup {NoNode}
  PROVE  /\ Outcome(n, TRUE) \in Attempt /\ Outcome(n, FALSE) \in Attempt
         /\ Outcome(n, TRUE).node = n /\ Outcome(n, FALSE).node = n
         /\ Outcome(n, TRUE).success /\ ~Outcome(n, FALSE).success
BY DEF Outcome, Attempt

(* Only the request that moves has to be looked at.                           *)
LEMMA OneRequestMoves ==
  ASSUME RequestInv, NEW r \in Requests, OthersUnchanged(r), RequestTypeOK',
         Progress(r)', Distinct(r)'
  PROVE  RequestInv'
<1>1. ASSUME NEW q \in Requests, q # r
      PROVE  (Progress(q) /\ Distinct(q))'
  <2>1. pc'[q] = pc[q] /\ target'[q] = target[q] /\ attempts'[q] = attempts[q]
    BY <1>1 DEF OthersUnchanged
  <2> QED
    BY <2>1 DEF RequestInv, Progress, Distinct, Attempted
<1> QED
  BY <1>1 DEF RequestInv

-------------------------------------------------------------------------------
(* Before any request has come, nothing has been tried.                       *)
LEMMA RequestInit == Init => RequestInv
<1> SUFFICES ASSUME Init PROVE RequestInv
  OBVIOUS
<1>1. <<>> \in Seq(Attempt) /\ NotLogged \in Seq(Attempt)
  BY DEF NotLogged, Attempt
<1>2. RequestTypeOK
  BY <1>1 DEF Init, RequestTypeOK, Stages
<1>3. \A r \in Requests : pc[r] = "idle" /\ attempts[r] = <<>>
  BY DEF Init
<1>4. ASSUME NEW r \in Requests
      PROVE  Progress(r) /\ Distinct(r)
  <2>1. Len(attempts[r]) = 0 /\ 1..Len(attempts[r]) = {}
    BY <1>3
  <2> QED
    BY <1>3, <2>1, RequestsAssumption DEF Progress, Distinct, Attempted
<1> QED
  BY <1>2, <1>4 DEF RequestInv

(* A move that leaves the attempts as they are and neither starts nor ends a  *)
(* serving stage.                                                             *)
LEMMA AttemptsKept ==
  ASSUME RequestInv, NEW r \in Requests, attempts'[r] = attempts[r],
         pc[r] \notin {"serving", "served"}, pc'[r] \notin {"serving", "served"}
  PROVE  /\ Distinct(r)'
         /\ Attempted(r)' = Attempted(r)
BY DEF RequestInv, Distinct, Attempted

(* A failed dial adds an untried node; the loop goes on only below the limit. *)
LEMMA DialFailsInv ==
  ASSUME RequestInv, NEW r \in Requests, DialFails(r)
  PROVE  RequestInv'
<1> DEFINE s == attempts[r]
           t == Append(s, Outcome(target[r], FALSE))
<1>1. s \in Seq(Attempt) /\ target[r] \in Nodes \cup {NoNode} /\ pc[r] = "dialing"
  BY DEF RequestInv, RequestTypeOK, DialFails
<1>2. /\ Len(s) < MaxAttempts
      /\ \A i \in 1..Len(s) : s[i].node # target[r] /\ s[i].node # NoNode
      /\ target[r] = NoNode => s = <<>>
  BY <1>1 DEF RequestInv, Progress, Attempted
<1>3. /\ \A i \in 1..Len(s) : ~s[i].success
      /\ \A i, j \in 1..Len(s) : i # j => s[i].node # s[j].node
  BY <1>1 DEF RequestInv, Distinct
<1>4. /\ attempts' = [attempts EXCEPT ![r] = t]
      /\ target' = target /\ cancelled' = cancelled
      /\ events' = [events EXCEPT ![r] = Append(events[r], Outcome(target[r], FALSE))]
  BY DEF DialFails, Tried, Counted
<1>5. \/ /\ target[r] = NoNode \/ Len(s) + 1 >= MaxAttempts
         /\ pc' = [pc EXCEPT ![r] = "failed"]
         /\ log' \in {log, [log EXCEPT ![r] = t]}
      \/ /\ target[r] # NoNode /\ ~(Len(s) + 1 >= MaxAttempts)
         /\ pc' = [pc EXCEPT ![r] = "selecting"]
         /\ log' = log
  BY DEF DialFails, GiveUp, GoTo
<1> DEFINE e == Outcome(target[r], FALSE)
<1>6. e \in Attempt /\ e.node = target[r] /\ ~e.success
  BY <1>1, OutcomeIsAttempt
<1>7. /\ t \in Seq(Attempt)
      /\ Len(s) \in Nat /\ Len(t) = Len(s) + 1
      /\ \A i \in 1..Len(t) :
            \/ i \in 1..Len(s) /\ t[i] = s[i]
            \/ i = Len(t) /\ i \notin 1..Len(s) /\ t[i] = e
  <2>1. t = Append(s, e)
    OBVIOUS
  <2> HIDE DEF s, t, e
  <2> QED
    BY <1>1, <1>6, <2>1, AppendAttempt
<1> HIDE DEF t, e
<1>8. RequestTypeOK'
  <2>1. events[r] \in Seq(Attempt) /\ events' = [events EXCEPT ![r] = Append(events[r], e)]
    BY <1>4 DEF RequestInv, RequestTypeOK, e
  <2>2. Append(events[r], e) \in Seq(Attempt)
    BY <1>6, <2>1, AppendProperties
  <2>3. pc' \in [Requests -> Stages]
    BY <1>5 DEF RequestInv, RequestTypeOK, Stages
  <2>4. log' \in [Requests -> Seq(Attempt)]
    BY <1>5, <1>7 DEF RequestInv, RequestTypeOK
  <2>5. events' \in [Requests -> Seq(Attempt)]
    BY <2>1, <2>2 DEF RequestInv, RequestTypeOK
  <2>6. attempts' \in [Requests -> Seq(Attempt)]
    BY <1>4, <1>7 DEF RequestInv, RequestTypeOK
  <2> QED
    BY <1>4, <2>3, <2>4, <2>5, <2>6 DEF RequestInv, RequestTypeOK
<1>9. OthersUnchanged(r)
  BY <1>4, <1>5 DEF OthersUnchanged, RequestInv, RequestTypeOK
<1>10. /\ attempts'[r] = t /\ target'[r] = target[r]
       /\ \/ pc'[r] = "failed"
          \/ pc'[r] = "selecting" /\ target[r] # NoNode /\ ~(Len(s) + 1 >= MaxAttempts)
  BY <1>4, <1>5 DEF RequestInv, RequestTypeOK
<1> HIDE DEF s
<1>11. \A i \in 1..Len(t) : ~t[i].success
  BY <1>3, <1>6, <1>7
<1>12. \A i, j \in 1..Len(t) : i # j => t[i].node # t[j].node
  BY <1>2, <1>3, <1>6, <1>7
<1>13. target[r] # NoNode => \A i \in 1..Len(t) : t[i].node # NoNode
  BY <1>2, <1>6, <1>7
<1>14. target[r] = NoNode => Len(t) = 1
  BY <1>2, <1>7 DEF s
<1>15. Distinct(r)'
  BY <1>10, <1>11, <1>12, <1>13, <1>14 DEF Distinct, Attempted
<1>16. Len(t) <= MaxAttempts
  BY <1>2, <1>7, RequestsAssumption
<1>17. Progress(r)'
  BY <1>7, <1>10, <1>13, <1>16, RequestsAssumption DEF Progress, Attempted
<1> QED
  BY <1>8, <1>9, <1>15, <1>17, OneRequestMoves

(* A successful dial adds the one attempt that is marked as a success.        *)
LEMMA DialSucceedsInv ==
  ASSUME RequestInv, NEW r \in Requests, DialSucceeds(r)
  PROVE  RequestInv'
<1> DEFINE s == attempts[r]
           e == Outcome(target[r], TRUE)
           t == Append(s, e)
<1>1. s \in Seq(Attempt) /\ target[r] \in Nodes \cup {NoNode} /\ pc[r] = "dialing"
  BY DEF RequestInv, RequestTypeOK, DialSucceeds
<1>2. /\ Len(s) < MaxAttempts
      /\ \A i \in 1..Len(s) : s[i].node # target[r] /\ s[i].node # NoNode
      /\ target[r] = NoNode => s = <<>>
  BY <1>1 DEF RequestInv, Progress, Attempted
<1>3. /\ \A i \in 1..Len(s) : ~s[i].success
      /\ \A i, j \in 1..Len(s) : i # j => s[i].node # s[j].node
  BY <1>1 DEF RequestInv, Distinct
<1>4. /\ attempts' = [attempts EXCEPT ![r] = t] /\ pc' = [pc EXCEPT ![r] = "serving"]
      /\ UNCHANGED <<target, cancelled, events, log>>
  BY DEF DialSucceeds, Tried, GoTo
<1>5. e \in Attempt /\ e.node = target[r] /\ e.success
  BY <1>1, OutcomeIsAttempt
<1>6. /\ t \in Seq(Attempt)
      /\ Len(s) \in Nat /\ Len(t) = Len(s) + 1
      /\ \A i \in 1..Len(t) :
            \/ i \in 1..Len(s) /\ t[i] = s[i]
            \/ i = Len(t) /\ i \notin 1..Len(s) /\ t[i] = e
  <2>1. t = Append(s, e)
    OBVIOUS
  <2> HIDE DEF s, t, e
  <2> QED
    BY <1>1, <1>5, <2>1, AppendAttempt
<1> HIDE DEF t, e
<1>7. RequestTypeOK'
  <2>1. pc' \in [Requests -> Stages] /\ attempts' \in [Requests -> Seq(Attempt)]
    BY <1>4, <1>6 DEF RequestInv, RequestTypeOK, Stages
  <2> QED
    BY <1>4, <2>1 DEF RequestInv, RequestTypeOK
<1>8. /\ OthersUnchanged(r)
      /\ attempts'[r] = t /\ target'[r] = target[r] /\ pc'[r] = "serving"
  BY <1>4 DEF OthersUnchanged, RequestInv, RequestTypeOK
<1> HIDE DEF s
<1>9. \A i \in 1..Len(t) : t[i].success <=> i = Len(t)
  BY <1>3, <1>5, <1>6
<1>10. \A i, j \in 1..Len(t) : i # j => t[i].node # t[j].node
  BY <1>2, <1>3, <1>5, <1>6
<1>11. (\E i \in 1..Len(t) : t[i].node = NoNode) => Len(t) = 1
  <2>1. target[r] = NoNode => Len(t) = 1
    BY <1>2, <1>6 DEF s
  <2> QED
    BY <1>2, <1>5, <1>6, <2>1
<1>12. Distinct(r)'
  BY <1>8, <1>9, <1>10, <1>11 DEF Distinct, Attempted
<1>13. /\ Len(t) <= MaxAttempts /\ Len(t) \in 1..Len(t) /\ t # <<>>
       /\ t[Len(t)].node = target[r]
  BY <1>2, <1>5, <1>6, RequestsAssumption
<1>14. Progress(r)'
  BY <1>8, <1>13 DEF Progress
<1> QED
  BY <1>7, <1>8, <1>12, <1>14, OneRequestMoves

(* A failed exchange takes that mark back.                                    *)
LEMMA ServeFailsInv ==
  ASSUME RequestInv, NEW r \in Requests, ServeFails(r)
  PROVE  RequestInv'
<1> DEFINE s == attempts[r]
           e == Outcome(target[r], FALSE)
           t == [s EXCEPT ![Len(s)] = e]
<1>1. s \in Seq(Attempt) /\ target[r] \in Nodes \cup {NoNode} /\ pc[r] = "serving"
  BY DEF RequestInv, RequestTypeOK, ServeFails
<1>2. Len(s) <= MaxAttempts /\ s # <<>> /\ s[Len(s)].node = target[r]
  BY <1>1 DEF RequestInv, Progress
<1>3. /\ \A i \in 1..Len(s) : s[i].success <=> i = Len(s)
      /\ \A i, j \in 1..Len(s) : i # j => s[i].node # s[j].node
      /\ (\E i \in 1..Len(s) : s[i].node = NoNode) => Len(s) = 1
  <2>1. Distinct(r)
    BY DEF RequestInv
  <2>2. NoNode \in Attempted(r) => Len(s) = 1
    BY <2>1 DEF Distinct
  <2>3. (\E i \in 1..Len(s) : s[i].node = NoNode) => Len(s) = 1
    BY <2>2 DEF Attempted
  <2> QED
    BY <1>1, <2>1, <2>3 DEF Distinct
<1>4. /\ attempts' = [attempts EXCEPT ![r] = t]
      /\ pc' = [pc EXCEPT ![r] = "failed"]
      /\ log' \in {log, [log EXCEPT ![r] = t]}
      /\ events' = [events EXCEPT ![r] = Append(events[r], e)]
      /\ UNCHANGED <<target, cancelled>>
  BY DEF ServeFails, MarkLastAttemptFailed, GiveUp, GoTo, Counted
<1>5. e \in Attempt /\ e.node = target[r] /\ ~e.success
  BY <1>1, OutcomeIsAttempt
<1>6. /\ t \in Seq(Attempt)
      /\ Len(s) \in Nat \ {0} /\ Len(t) = Len(s)
      /\ \A i \in 1..Len(t) : t[i] = IF i = Len(s) THEN e ELSE s[i]
  <2>1. t = [s EXCEPT ![Len(s)] = e]
    OBVIOUS
  <2> HIDE DEF s, t, e
  <2> QED
    BY <1>1, <1>2, <1>5, <2>1, OverwriteLast
<1> HIDE DEF t, e
<1>7. RequestTypeOK'
  <2>1. events[r] \in Seq(Attempt)
    BY DEF RequestInv, RequestTypeOK
  <2>2. Append(events[r], e) \in Seq(Attempt)
    BY <1>5, <2>1, AppendProperties
  <2>3. /\ pc' \in [Requests -> Stages]
        /\ attempts' \in [Requests -> Seq(Attempt)]
        /\ log' \in [Requests -> Seq(Attempt)]
    BY <1>4, <1>6 DEF RequestInv, RequestTypeOK, Stages
  <2>4. events' \in [Requests -> Seq(Attempt)]
    BY <1>4, <2>2 DEF RequestInv, RequestTypeOK
  <2> QED
    BY <1>4, <2>3, <2>4 DEF RequestInv, RequestTypeOK
<1>8. /\ OthersUnchanged(r)
      /\ attempts'[r] = t /\ target'[r] = target[r] /\ pc'[r] = "failed"
  BY <1>4 DEF OthersUnchanged, RequestInv, RequestTypeOK
<1> HIDE DEF s
<1>9. \A i \in 1..Len(t) : ~t[i].success /\ t[i].node = s[i].node
  BY <1>2, <1>3, <1>5, <1>6
<1>10. Distinct(r)'
  <2>1. \A i, j \in 1..Len(t) : i # j => t[i].node # t[j].node
    BY <1>3, <1>6, <1>9
  <2>2. (\E i \in 1..Len(t) : t[i].node = NoNode) => Len(t) = 1
    BY <1>3, <1>6, <1>9
  <2> QED
    BY <1>8, <1>9, <2>1, <2>2 DEF Distinct, Attempted
<1>11. Progress(r)'
  BY <1>2, <1>6, <1>8 DEF Progress
<1> QED
  BY <1>7, <1>8, <1>10, <1>11, OneRequestMoves

-------------------------------------------------------------------------------
(* The steps of a handler that neither start nor end an attempt.              *)
LEMMA OtherStepsInv ==
  ASSUME CacheInv, RequestInv, NEW r \in Requests,
         \/ Authenticate(r) \/ Cancel(r) \/ NoCandidate(r) \/ CredentialGone(r)
         \/ SelectDirect(r) \/ StartDial(r) \/ ServeEnds(r)
         \/ \E n \in Nodes : SelectNode(r, n)
  PROVE  RequestInv'
<1> DEFINE Moves(st) == pc' = [pc EXCEPT ![r] = st]
<1>0. /\ CredentialOf[r] \in Credentials
      /\ attempts[r] \in Seq(Attempt) /\ events[r] \in Seq(Attempt)
      /\ target[r] \in Nodes \cup {NoNode}
  BY RequestsAssumption DEF RequestInv, RequestTypeOK
<1>1. CASE Authenticate(r)
  <2>1. /\ pc[r] = "idle" /\ pc' = [pc EXCEPT ![r] = IF credentials[CredentialOf[r]].enabled
                                                   THEN "selecting" ELSE "refused"]
        /\ UNCHANGED requestVars \/ UNCHANGED <<target, cancelled, attempts, events, log>>
    BY <1>1 DEF Authenticate, GoTo
  <2>2. attempts[r] = <<>> /\ Len(attempts[r]) = 0 /\ Attempted(r) = {}
    BY <2>1 DEF RequestInv, Progress, Attempted
  <2>3. RequestTypeOK' /\ OthersUnchanged(r) /\ attempts'[r] = attempts[r]
        /\ target'[r] = target[r] /\ pc'[r] \in {"selecting", "refused"}
    BY <1>1 DEF Authenticate, GoTo, RequestInv, RequestTypeOK, Stages, OthersUnchanged
  <2>4. Progress(r)' /\ Distinct(r)'
    BY <2>2, <2>3, RequestsAssumption DEF Progress, Distinct, Attempted
  <2> QED
    BY <2>3, <2>4, OneRequestMoves
<1>2. CASE Cancel(r)
  <2>1. UNCHANGED <<pc, target, attempts>> /\ RequestTypeOK'
    BY <1>2 DEF Cancel, RequestInv, RequestTypeOK
  <2>2. ASSUME NEW q \in Requests PROVE Progress(q)'
    BY <2>1 DEF RequestInv, Progress, Attempted
  <2>3. ASSUME NEW q \in Requests PROVE Distinct(q)'
    BY <2>1 DEF RequestInv, Distinct, Attempted
  <2> QED
    BY <2>1, <2>2, <2>3 DEF RequestInv
<1>3. CASE NoCandidate(r)
  <2>1. /\ RequestTypeOK' /\ OthersUnchanged(r) /\ attempts'[r] = attempts[r]
        /\ target'[r] = target[r] /\ pc[r] = "selecting"
        /\ \/ pc'[r] = "failed"
           \/ pc'[r] = "fallback" /\ attempts[r] = <<>>
    BY <1>0, <1>3 DEF NoCandidate, GiveUp, GoTo, RequestInv, RequestTypeOK, Stages, OthersUnchanged
  <2>2. Distinct(r)' /\ Attempted(r)' = Attempted(r)
    BY <2>1, AttemptsKept
  <2>3. Progress(r)'
    BY <2>1, <2>2 DEF Progress, RequestInv
  <2> QED
    BY <2>1, <2>2, <2>3, OneRequestMoves
<1>4. CASE CredentialGone(r)
  <2>1. /\ RequestTypeOK' /\ OthersUnchanged(r) /\ attempts'[r] = attempts[r]
        /\ target'[r] = target[r] /\ pc[r] \in {"selecting", "fallback"}
        /\ pc'[r] = "failed"
    BY <1>0, <1>4 DEF CredentialGone, GiveUp, GoTo, RequestInv, RequestTypeOK, Stages, OthersUnchanged
  <2>2. Distinct(r)' /\ Attempted(r)' = Attempted(r)
    BY <2>1, AttemptsKept
  <2>3. Progress(r)'
    BY <2>1, <2>2 DEF Progress, RequestInv
  <2> QED
    BY <2>1, <2>2, <2>3, OneRequestMoves
<1>5. CASE SelectDirect(r)
  <2>1. /\ RequestTypeOK' /\ OthersUnchanged(r) /\ attempts'[r] = attempts[r]
        /\ target'[r] = NoNode /\ pc[r] = "fallback" /\ pc'[r] = "selected"
    BY <1>5 DEF SelectDirect, GoTo, RequestInv, RequestTypeOK, Stages, OthersUnchanged
  <2>2. Distinct(r)' /\ Attempted(r)' = Attempted(r)
    BY <2>1, AttemptsKept
  <2>3. attempts[r] = <<>> /\ Len(attempts[r]) = 0 /\ Attempted(r) = {}
    BY <2>1 DEF RequestInv, Progress, Attempted
  <2>4. Progress(r)'
    BY <2>1, <2>2, <2>3, RequestsAssumption DEF Progress
  <2> QED
    BY <2>1, <2>2, <2>4, OneRequestMoves
<1>6. CASE ServeEnds(r)
  <2>1. PICK ok \in BOOLEAN : events' = [events EXCEPT ![r] = Append(events[r], Outcome(target[r], ok))]
    BY <1>6 DEF ServeEnds, Counted
  <2>2. Append(events[r], Outcome(target[r], ok)) \in Seq(Attempt)
    <3>1. Outcome(target[r], ok) \in Attempt
      BY <1>0 DEF Outcome, Attempt
    <3> HIDE DEF Outcome
    <3> QED
      BY <1>0, <3>1, AppendProperties
  <2>3. events' \in [Requests -> Seq(Attempt)]
    BY <2>1, <2>2 DEF RequestInv, RequestTypeOK
  <2>4. /\ RequestTypeOK' /\ OthersUnchanged(r) /\ attempts'[r] = attempts[r]
        /\ target'[r] = target[r] /\ pc[r] = "serving" /\ pc'[r] = "served"
    BY <1>6, <2>3 DEF ServeEnds, GoTo, RequestInv, RequestTypeOK, Stages, OthersUnchanged
  <2>5. Progress(r)' /\ Distinct(r)'
    BY <2>4 DEF Progress, Distinct, Attempted, RequestInv
  <2> QED
    BY <2>4, <2>5, OneRequestMoves
<1>7. ASSUME NEW n \in Nodes, SelectNode(r, n) PROVE RequestInv'
  <2>1. n \notin Attempted(r)
    BY <1>0, <1>7, SelectionIsLegal DEF SelectNode, CacheInv
  <2>2. n # NoNode
    BY ConstantsAssumption
  <2>3. /\ RequestTypeOK' /\ OthersUnchanged(r) /\ attempts'[r] = attempts[r]
        /\ target'[r] = n /\ pc[r] = "selecting" /\ pc'[r] = "selected"
    BY <1>7 DEF SelectNode, GoTo, RequestInv, RequestTypeOK, Stages, OthersUnchanged
  <2>4. Distinct(r)' /\ Attempted(r)' = Attempted(r)
    BY <2>3, AttemptsKept
  <2>5. Progress(r)'
    BY <2>1, <2>2, <2>3, <2>4 DEF Progress, RequestInv
  <2> QED
    BY <2>3, <2>4, <2>5, OneRequestMoves
<1>8. CASE StartDial(r)
  <2>1. /\ RequestTypeOK' /\ OthersUnchanged(r) /\ attempts'[r] = attempts[r]
        /\ target'[r] = target[r] /\ pc[r] = "selected" /\ pc'[r] = "dialing"
    BY <1>8 DEF StartDial, GoTo, RequestInv, RequestTypeOK, Stages, OthersUnchanged
  <2>2. Distinct(r)' /\ Attempted(r)' = Attempted(r)
    BY <2>1, AttemptsKept
  <2>3. Progress(r)'
    BY <2>1, <2>2 DEF Progress, RequestInv
  <2> QED
    BY <2>1, <2>2, <2>3, OneRequestMoves
<1> QED
  BY <1>1, <1>2, <1>3, <1>4, <1>5, <1>6, <1>7, <1>8

-------------------------------------------------------------------------------
(* Every step of the requests and of the rest of the process is a step of     *)
(* the cache or leaves it alone.                                              *)
LEMMA StepUsesCache ==
  ASSUME CacheInv, RequestInv, [Next]_vars
  PROVE  [CacheNext]_cacheVars
<1>1. ASSUME NEW r \in Requests, RequestStep(r)
      PROVE  [CacheNext]_cacheVars
  <2>0. CredentialOf[r] \in Credentials /\ target[r] \in Nodes \cup {NoNode}
    BY RequestsAssumption DEF RequestInv, RequestTypeOK
  <2>1. pc[r] = "selecting" => Attempted(r) \in SUBSET Nodes
    BY AttemptsTyped DEF RequestInv, Progress
  <2>2. ASSUME NEW n \in Nodes, SelectNode(r, n) PROVE CacheNext
    BY <2>0, <2>1, <2>2 DEF SelectNode, CacheNext
  <2>3. CASE NoCandidate(r)
    BY <2>0, <2>1, <2>3 DEF NoCandidate, CacheNext
  <2>4. CASE DialFails(r) \/ ServeFails(r)
    BY <2>0, <2>4 DEF DialFails, ServeFails, ReportSelectionFailure, CacheNext
  <2>5. CASE ServeEnds(r)
    BY <2>0, <2>5 DEF ServeEnds, ReportSelectionSuccess, CacheNext
  <2>6. CASE \/ Authenticate(r) \/ Cancel(r) \/ CredentialGone(r)
             \/ SelectDirect(r) \/ StartDial(r) \/ DialSucceeds(r)
    BY <2>6 DEF Authenticate, Cancel, CredentialGone, SelectDirect, StartDial, DialSucceeds
  <2> QED
    BY <1>1, <2>2, <2>3, <2>4, <2>5, <2>6 DEF RequestStep
<1>2. CASE Environment
  BY <1>2 DEF Environment, CacheNext
<1>3. CASE UNCHANGED vars
  BY <1>3 DEF vars
<1> QED
  BY <1>1, <1>2, <1>3 DEF Next

(* Both parts of the invariant are kept together: which node a selection      *)
(* returns takes the cache's, which selections are made the requests'.        *)
LEMMA StepKeepsInv ==
  CacheInv /\ RequestInv /\ [Next]_vars => (CacheInv /\ RequestInv)'
<1> SUFFICES ASSUME CacheInv, RequestInv, [Next]_vars
             PROVE  CacheInv' /\ RequestInv'
  OBVIOUS
<1>1. CacheInv'
  BY StepUsesCache, CacheStepInv
<1>2. ASSUME NEW r \in Requests, RequestStep(r) PROVE RequestInv'
  BY <1>2, DialFailsInv, DialSucceedsInv, ServeFailsInv, OtherStepsInv DEF RequestStep
<1>3. CASE UNCHANGED requestVars
  <2>1. UNCHANGED <<pc, target, cancelled>> /\ UNCHANGED <<attempts, events, log>>
    BY <1>3 DEF requestVars
  <2>2. RequestTypeOK'
    BY <2>1 DEF RequestInv, RequestTypeOK
  <2>3. ASSUME NEW r \in Requests PROVE (Progress(r) /\ Distinct(r))'
    BY <2>1 DEF RequestInv, Progress, Distinct, Attempted
  <2> QED
    BY <1>1, <2>2, <2>3 DEF RequestInv
<1> QED
  BY <1>1, <1>2, <1>3 DEF Next, vars

(* The strengthening that makes the claims on attempts inductive, together    *)
(* with the invariant of the cache the requests use.                          *)
THEOREM RequestInvariant == Spec => [](CacheInv /\ RequestInv)
<1>1. Init => CacheInv /\ RequestInv
  BY RequestInit, CacheInit_Inv DEF Init
<1> QED
  BY <1>1, StepKeepsInv, PTL DEF Spec

(* The requests, their handlers and the cache keep their types.               *)
THEOREM TypeCorrect == Spec => []TypeOK
<1>1. CacheInv /\ RequestInv => TypeOK
  BY DEF CacheInv, RequestInv, RequestTypeOK, TypeOK
<1> QED
  BY <1>1, RequestInvariant, PTL

(* The proxy uses the cache as RuntimeCache specifies: BagsAreCurrent and     *)
(* CircuitsAreEarned hold of the whole.                                       *)
THEOREM RequestsUseTheCache == Spec => CacheSpec
<1>1. Init => CacheInit
  BY DEF Init
<1>2. CacheInv /\ RequestInv /\ [Next]_vars => [CacheNext]_cacheVars
  BY StepUsesCache
<1> QED
  BY <1>1, <1>2, RequestInvariant, PTL DEF Spec, CacheSpec

(* A request never tries a node twice nor more nodes than configured, and     *)
(* never goes out directly after it has tried a node (dialWithRetries).       *)
THEOREM AttemptsAreDistinct == Spec => []AttemptsOK
<1>1. CacheInv /\ RequestInv => AttemptsOK
  <2> SUFFICES ASSUME RequestInv PROVE AttemptsOK
    OBVIOUS
  <2>1. ASSUME NEW r \in Requests PROVE Progress(r) /\ Distinct(r)
    BY DEF RequestInv
  <2> QED
    BY <2>1 DEF AttemptsOK, Progress, Distinct
<1> QED
  BY <1>1, RequestInvariant, PTL

(* Whatever bag, sticky choice or switch it comes from, what a request is     *)
(* about to dial was selected under an enabled credential, as a loaded,       *)
(* bound and untried node without an open circuit, or as the direct exit.     *)
THEOREM EverySelectionIsLegal == Spec => SelectionsAreLegal
<1> DEFINE Legal(r) ==
        pc[r] # "selected" /\ pc'[r] = "selected" =>
            /\ credentials[CredentialOf[r]].enabled
            /\ target'[r] # NoNode =>
                /\ target'[r] \in nodes \ Attempted(r)
                /\ Permitted(CredentialOf[r], target'[r])
                /\ ~(failures[target'[r]].tripped /\ failures[target'[r]].left > 0)
<1>1. ASSUME CacheInv, RequestInv, [Next]_vars
      PROVE  [\A r \in Requests : Legal(r)]_vars
  <2> SUFFICES ASSUME Next, NEW r \in Requests, pc[r] # "selected", pc'[r] = "selected"
               PROVE  Legal(r)
    BY <1>1
  <2>0. CredentialOf[r] \in Credentials /\ pc \in [Requests -> Stages]
    BY <1>1, RequestsAssumption DEF RequestInv, RequestTypeOK
  <2>1. RequestStep(r)
    <3>1. ASSUME NEW q \in Requests, RequestStep(q), q # r PROVE pc'[r] = pc[r]
      BY <2>0, <3>1 DEF RequestStep, Authenticate, Cancel, SelectNode, NoCandidate,
         CredentialGone, SelectDirect, StartDial, DialSucceeds, DialFails, ServeFails,
         ServeEnds, GiveUp, GoTo
    <3>2. UNCHANGED requestVars => pc'[r] = pc[r]
      BY DEF requestVars
    <3> QED
      BY <3>1, <3>2 DEF Next
  <2>2. ASSUME NEW n \in Nodes, SelectNode(r, n) PROVE Legal(r)
    <3>1. target'[r] = n
      BY <1>1, <2>2 DEF SelectNode, RequestInv, RequestTypeOK
    <3>2. SelectExcluding(CredentialOf[r], Attempted(r), n)
      BY <2>2 DEF SelectNode
    <3>3. /\ credentials[CredentialOf[r]].enabled
          /\ n \in Available(CredentialOf[r]) \ Attempted(r)
          /\ n \in nodes
          /\ Permitted(CredentialOf[r], n)
          /\ ~(failures[n].tripped /\ failures[n].left > 0)
      BY <1>1, <2>0, <3>2, SelectionIsLegal DEF CacheInv
    <3> QED
      BY <3>1, <3>3
  <2>3. CASE SelectDirect(r)
    BY <1>1, <2>3 DEF SelectDirect, RequestInv, RequestTypeOK
  <2>4. ~(\/ Authenticate(r) \/ Cancel(r) \/ NoCandidate(r) \/ CredentialGone(r)
          \/ StartDial(r) \/ DialSucceeds(r) \/ DialFails(r) \/ ServeFails(r)
          \/ ServeEnds(r))
    BY <2>0 DEF Authenticate, Cancel, NoCandidate, CredentialGone, StartDial,
       DialSucceeds, DialFails, ServeFails, ServeEnds, GiveUp, GoTo
  <2> QED
    BY <2>1, <2>2, <2>3, <2>4 DEF RequestStep
<1> QED
  BY <1>1, RequestInvariant, PTL DEF Spec, SelectionsAreLegal

-------------------------------------------------------------------------------
(* The accounting of one request: what the statistics and the log know of it. *)
Finished(r) == IF pc[r] = "serving" THEN Len(attempts[r]) - 1 ELSE Len(attempts[r])

Counts(r) ==
    /\ Len(events[r]) = Finished(r)
    /\ \A i \in 1..Finished(r) :
        /\ events[r][i].node = attempts[r][i].node
        /\ attempts[r][i].success \/ ~events[r][i].success

Logs(r) ==
    log[r] # NotLogged => pc[r] = "failed" /\ log[r] = attempts[r]

AccountInv == \A r \in Requests : Counts(r) /\ Logs(r)

(* A step that leaves a request's attempts and events as they are keeps its   *)
(* accounting, if it logs nothing but the attempts of a failed request.       *)
LEMMA AccountKept ==
  ASSUME AccountInv, NEW r \in Requests, pc[r] # "serving", pc'[r] # "serving",
         attempts'[r] = attempts[r], events'[r] = events[r],
         log'[r] # NotLogged => pc'[r] = "failed" /\ log'[r] = attempts[r]
  PROVE  (Counts(r) /\ Logs(r))'
BY DEF AccountInv, Counts, Logs, Finished

(* Nobody else's accounting changes.                                          *)
LEMMA OthersAccount ==
  ASSUME RequestInv, AccountInv, NEW r \in Requests, RequestStep(r),
         NEW q \in Requests, q # r
  PROVE  (Counts(q) /\ Logs(q))'
<1>1. /\ pc'[q] = pc[q] /\ attempts'[q] = attempts[q]
      /\ events'[q] = events[q] /\ log'[q] = log[q]
  <2>1. /\ \/ pc' = pc \/ \E st \in Stages : pc' = [pc EXCEPT ![r] = st]
        /\ \/ log' = log \/ \E v : log' = [log EXCEPT ![r] = v]
        /\ \/ attempts' = attempts \/ \E v : attempts' = [attempts EXCEPT ![r] = v]
        /\ \/ events' = events \/ \E v : events' = [events EXCEPT ![r] = v]
    BY DEF RequestStep, Authenticate, Cancel, SelectNode, NoCandidate, CredentialGone,
       SelectDirect, StartDial, DialSucceeds, DialFails, ServeFails, ServeEnds, GiveUp,
       GoTo, Tried, Counted, Stages
  <2> QED
    BY <2>1 DEF RequestInv, RequestTypeOK
<1> QED
  BY <1>1 DEF AccountInv, Counts, Logs, Finished

(* A failed dial is an attempt and an event.                                  *)
LEMMA DialFailsAccount ==
  ASSUME RequestInv, AccountInv, NEW r \in Requests, DialFails(r)
  PROVE  (Counts(r) /\ Logs(r))'
<1> DEFINE s == attempts[r]
           v == events[r]
           e == Outcome(target[r], FALSE)
           t == Append(s, e)
           w == Append(v, e)
<1>1. /\ s \in Seq(Attempt) /\ v \in Seq(Attempt)
      /\ target[r] \in Nodes \cup {NoNode} /\ pc[r] = "dialing"
  BY DEF RequestInv, RequestTypeOK, DialFails
<1>2. e \in Attempt /\ ~e.success
  BY <1>1, OutcomeIsAttempt
<1>3. /\ Len(v) = Len(s)
      /\ \A i \in 1..Len(s) : v[i].node = s[i].node /\ (s[i].success \/ ~v[i].success)
      /\ log[r] = NotLogged
  BY <1>1 DEF AccountInv, Counts, Logs, Finished
<1>4. /\ attempts'[r] = t /\ events'[r] = w
      /\ \/ pc'[r] = "failed" /\ log'[r] \in {log[r], t}
         \/ pc'[r] = "selecting" /\ log'[r] = log[r]
  BY DEF DialFails, Tried, Counted, GiveUp, GoTo, RequestInv, RequestTypeOK
<1>5. t = Append(s, e) /\ w = Append(v, e)
  OBVIOUS
<1> HIDE DEF s, v, e, t, w
<1>6. /\ Len(s) \in Nat /\ Len(t) = Len(s) + 1
      /\ \A i \in 1..Len(t) :
            \/ i \in 1..Len(s) /\ t[i] = s[i]
            \/ i = Len(t) /\ i \notin 1..Len(s) /\ t[i] = e
  BY <1>1, <1>2, <1>5, AppendAttempt
<1>7. /\ Len(w) = Len(v) + 1
      /\ \A i \in 1..Len(w) :
            \/ i \in 1..Len(v) /\ w[i] = v[i]
            \/ i = Len(w) /\ i \notin 1..Len(v) /\ w[i] = e
  BY <1>1, <1>2, <1>5, AppendAttempt
<1>8. /\ Len(w) = Len(t)
      /\ \A i \in 1..Len(t) : w[i].node = t[i].node /\ (t[i].success \/ ~w[i].success)
  BY <1>2, <1>3, <1>6, <1>7
<1> QED
  BY <1>3, <1>4, <1>8 DEF Counts, Logs, Finished

(* A successful one is an attempt whose event is still to come.               *)
LEMMA DialSucceedsAccount ==
  ASSUME RequestInv, AccountInv, NEW r \in Requests, DialSucceeds(r)
  PROVE  (Counts(r) /\ Logs(r))'
<1> DEFINE s == attempts[r]
           v == events[r]
           e == Outcome(target[r], TRUE)
           t == Append(s, e)
<1>1. /\ s \in Seq(Attempt) /\ target[r] \in Nodes \cup {NoNode} /\ pc[r] = "dialing"
  BY DEF RequestInv, RequestTypeOK, DialSucceeds
<1>2. e \in Attempt
  BY <1>1, OutcomeIsAttempt
<1>3. /\ Len(v) = Len(s)
      /\ \A i \in 1..Len(s) : v[i].node = s[i].node /\ (s[i].success \/ ~v[i].success)
      /\ log[r] = NotLogged
  BY <1>1 DEF AccountInv, Counts, Logs, Finished
<1>4. /\ attempts'[r] = t /\ events'[r] = v /\ pc'[r] = "serving" /\ log'[r] = log[r]
  BY DEF DialSucceeds, Tried, GoTo, RequestInv, RequestTypeOK
<1>5. t = Append(s, e)
  OBVIOUS
<1> HIDE DEF s, v, e, t
<1>6. /\ Len(s) \in Nat /\ Len(t) = Len(s) + 1
      /\ \A i \in 1..Len(t) :
            \/ i \in 1..Len(s) /\ t[i] = s[i]
            \/ i = Len(t) /\ i \notin 1..Len(s) /\ t[i] = e
  BY <1>1, <1>2, <1>5, AppendAttempt
<1>7. /\ Len(t) - 1 = Len(v)
      /\ \A i \in 1..Len(t) - 1 : v[i].node = t[i].node /\ (t[i].success \/ ~v[i].success)
  BY <1>3, <1>6
<1> QED
  BY <1>3, <1>4, <1>7 DEF Counts, Logs, Finished

(* The serving stage ends: its attempt is counted, with whatever outcome ok   *)
(* is recorded, and its success is kept or taken back.                        *)
LEMMA ServedAccount ==
  ASSUME RequestInv, AccountInv, NEW r \in Requests, pc[r] = "serving", NEW ok \in BOOLEAN,
         events'[r] = Append(events[r], Outcome(target[r], ok)),
         \/ /\ pc'[r] = "served" /\ attempts'[r] = attempts[r] /\ log'[r] = log[r]
         \/ /\ pc'[r] = "failed" /\ log'[r] \in {log[r], attempts'[r]} /\ ~ok
            /\ attempts'[r] = [attempts[r] EXCEPT ![Len(attempts[r])] = Outcome(target[r], FALSE)]
  PROVE  (Counts(r) /\ Logs(r))'
<1> DEFINE s == attempts[r]
           v == events[r]
           t == attempts'[r]
           w == events'[r]
           e == Outcome(target[r], ok)
           f == Outcome(target[r], FALSE)
<1>1. /\ s \in Seq(Attempt) /\ v \in Seq(Attempt) /\ target[r] \in Nodes \cup {NoNode}
      /\ s # <<>> /\ s[Len(s)].node = target[r]
      /\ \A i \in 1..Len(s) : s[i].success <=> i = Len(s)
  BY DEF RequestInv, RequestTypeOK, Progress, Distinct
<1>2. e \in Attempt /\ e.node = target[r] /\ (e.success <=> ok)
  BY <1>1 DEF Outcome, Attempt
<1>3. f \in Attempt /\ f.node = target[r] /\ ~f.success
  BY <1>1, OutcomeIsAttempt
<1>4. /\ Len(v) = Len(s) - 1
      /\ \A i \in 1..Len(s) - 1 : v[i].node = s[i].node /\ (s[i].success \/ ~v[i].success)
      /\ log[r] = NotLogged
  BY DEF AccountInv, Counts, Logs, Finished
<1>5. w = Append(v, e)
  OBVIOUS
<1>6. \/ pc'[r] = "served" /\ t = s /\ log'[r] = log[r]
      \/ pc'[r] = "failed" /\ t = [s EXCEPT ![Len(s)] = f] /\ log'[r] \in {log[r], t} /\ ~ok
  OBVIOUS
<1> HIDE DEF s, v, t, w, e, f
<1>7. /\ Len(w) = Len(v) + 1
      /\ \A i \in 1..Len(w) :
            \/ i \in 1..Len(v) /\ w[i] = v[i]
            \/ i = Len(w) /\ i \notin 1..Len(v) /\ w[i] = e
  BY <1>1, <1>2, <1>5, AppendAttempt
<1>8. Len(s) \in Nat \ {0}
  BY <1>1, EmptySeq
<1>9. CASE t = s /\ pc'[r] = "served" /\ log'[r] = log[r]
  <2>1. /\ Len(w) = Len(t)
        /\ \A i \in 1..Len(t) : w[i].node = t[i].node /\ (t[i].success \/ ~w[i].success)
    <3>1. Len(w) = Len(s) /\ t = s
      BY <1>4, <1>7, <1>8, <1>9
    <3>2. ASSUME NEW i \in 1..Len(s), i # Len(s)
          PROVE  w[i].node = s[i].node /\ (s[i].success \/ ~w[i].success)
      BY <1>4, <1>7, <1>8, <3>1, <3>2
    <3>3. w[Len(s)].node = s[Len(s)].node /\ s[Len(s)].success
      BY <1>1, <1>2, <1>4, <1>7, <1>8, <3>1
    <3> QED
      BY <3>1, <3>2, <3>3
  <2> QED
    BY <1>4, <1>9, <2>1 DEF Counts, Logs, Finished, w, t
<1>10. CASE pc'[r] = "failed" /\ t = [s EXCEPT ![Len(s)] = f] /\ log'[r] \in {log[r], t} /\ ~ok
  <2>1. /\ Len(t) = Len(s)
        /\ \A i \in 1..Len(t) : t[i] = IF i = Len(s) THEN f ELSE s[i]
    BY <1>1, <1>3, <1>10, OverwriteLast
  <2>2. /\ Len(w) = Len(t)
        /\ \A i \in 1..Len(t) : w[i].node = t[i].node /\ (t[i].success \/ ~w[i].success)
    BY <1>2, <1>3, <1>4, <1>7, <1>8, <1>10, <2>1
  <2> QED
    BY <1>4, <1>10, <2>2 DEF Counts, Logs, Finished, w, t
<1> QED
  BY <1>6, <1>9, <1>10

(* Every step keeps the accounting of every request.                          *)
LEMMA AccountStep ==
  ASSUME CacheInv, RequestInv, AccountInv, [Next]_vars
  PROVE  AccountInv'
<1>1. ASSUME NEW r \in Requests, RequestStep(r)
      PROVE  (Counts(r) /\ Logs(r))'
  <2>0. /\ pc \in [Requests -> Stages] /\ log \in [Requests -> Seq(Attempt)]
        /\ attempts \in [Requests -> Seq(Attempt)] /\ events \in [Requests -> Seq(Attempt)]
        /\ Logs(r)
    BY DEF RequestInv, RequestTypeOK, AccountInv
  <2>1. CASE \/ Authenticate(r) \/ NoCandidate(r) \/ CredentialGone(r)
             \/ SelectDirect(r) \/ StartDial(r) \/ \E n \in Nodes : SelectNode(r, n)
    <3>1. /\ pc[r] \notin {"serving", "failed"} /\ pc'[r] # "serving"
          /\ attempts'[r] = attempts[r] /\ events'[r] = events[r]
          /\ \/ log'[r] = log[r]
             \/ pc'[r] = "failed" /\ log'[r] = attempts[r]
      BY <2>0, <2>1 DEF Authenticate, NoCandidate, CredentialGone, SelectDirect, StartDial,
         SelectNode, GiveUp, GoTo
    <3>2. log[r] = NotLogged
      BY <2>0, <3>1 DEF Logs
    <3> QED
      BY <3>1, <3>2, AccountKept
  <2>2. CASE Cancel(r)
    BY <2>2 DEF Cancel, AccountInv, Counts, Logs, Finished
  <2>3. CASE DialFails(r)
    BY <2>3, DialFailsAccount
  <2>4. CASE DialSucceeds(r)
    BY <2>4, DialSucceedsAccount
  <2>5. CASE ServeFails(r)
    <3>1. /\ pc[r] = "serving" /\ pc'[r] = "failed" /\ log'[r] \in {log[r], attempts'[r]}
          /\ events'[r] = Append(events[r], Outcome(target[r], FALSE))
          /\ attempts'[r] = [attempts[r] EXCEPT ![Len(attempts[r])] = Outcome(target[r], FALSE)]
      BY <2>0, <2>5 DEF ServeFails, Counted, GiveUp, GoTo, MarkLastAttemptFailed
    <3> QED
      BY <3>1, ServedAccount
  <2>6. CASE ServeEnds(r)
    <3>1. PICK ok \in BOOLEAN : events'[r] = Append(events[r], Outcome(target[r], ok))
      BY <2>0, <2>6 DEF ServeEnds, Counted
    <3>2. /\ pc[r] = "serving" /\ pc'[r] = "served"
          /\ attempts'[r] = attempts[r] /\ log'[r] = log[r]
      BY <2>0, <2>6 DEF ServeEnds, GoTo
    <3> QED
      BY <3>1, <3>2, ServedAccount
  <2> QED
    BY <1>1, <2>1, <2>2, <2>3, <2>4, <2>5, <2>6 DEF RequestStep
<1>2. ASSUME NEW r \in Requests, RequestStep(r) PROVE AccountInv'
  BY <1>1, <1>2, OthersAccount DEF AccountInv
<1>3. CASE UNCHANGED requestVars
  <2>1. UNCHANGED <<pc, attempts, events, log>>
    BY <1>3 DEF requestVars
  <2> QED
    BY <2>1 DEF AccountInv, Counts, Logs, Finished
<1> QED
  BY <1>2, <1>3 DEF Next, vars

(* ... so it always holds.                                                    *)
LEMMA AccountInvariant == Spec => []AccountInv
<1>1. Init => AccountInv
  <2> SUFFICES ASSUME Init, NEW r \in Requests PROVE Counts(r) /\ Logs(r)
    BY DEF AccountInv
  <2>1. /\ pc[r] = "idle" /\ attempts[r] = <<>> /\ events[r] = <<>> /\ log[r] = NotLogged
    BY DEF Init
  <2>2. Finished(r) = 0 /\ 1..Finished(r) = {}
    BY <2>1 DEF Finished
  <2> QED
    BY <2>1, <2>2 DEF Counts, Logs
<1> QED
  BY <1>1, AccountStep, RequestInvariant, PTL DEF Spec

(* Whatever path a request takes, the statistics get each of its attempts     *)
(* once, on the node it went through, and never as better than it was.        *)
THEOREM AttemptsAreCountedOnce == Spec => []EachAttemptCountedOnce
<1>1. AccountInv => EachAttemptCountedOnce
  BY DEF AccountInv, Counts, Finished, EachAttemptCountedOnce
<1> QED
  BY <1>1, AccountInvariant, PTL

(* Whatever is in the log is a failed request, with all its attempts and none *)
(* of them as a success; whether a failed request gets there is not promised. *)
THEOREM LogEntriesAreOfFailures == Spec => []LoggedRequestsFailed
<1>1. RequestInv /\ AccountInv => LoggedRequestsFailed
  <2> SUFFICES ASSUME RequestInv, AccountInv, NEW r \in Requests, log[r] # NotLogged
               PROVE  /\ pc[r] = "failed"
                      /\ log[r] = attempts[r]
                      /\ \A i \in 1..Len(log[r]) : ~log[r][i].success
    BY DEF LoggedRequestsFailed
  <2>1. pc[r] = "failed" /\ log[r] = attempts[r]
    BY DEF AccountInv, Logs
  <2>2. \A i \in 1..Len(attempts[r]) : ~attempts[r][i].success
    BY <2>1 DEF RequestInv, Distinct
  <2> QED
    BY <2>1, <2>2
<1> QED
  BY <1>1, AccountInvariant, RequestInvariant, PTL

-------------------------------------------------------------------------------
(* The requests a node's failures can have come from.                         *)
Blamers(n) == {r \in Requests : Blamed(r, n)}

(* Each of them accounts for at most one.                                     *)
Outweighs(n) == Cardinality(Blamers(n)) >= failures[n].count

(* They are finitely many, so that they can be counted.                       *)
LEMMA BlamersAreFinite ==
  ASSUME NEW n \in Nodes
  PROVE  IsFiniteSet(Blamers(n)) /\ Cardinality(Blamers(n)) \in Nat
BY RequestsAssumption, FS_Subset, FS_CardinalityType DEF Blamers

(* Nobody is acquitted, and the count did not grow.                           *)
LEMMA NoNewFailure ==
  ASSUME CacheInv, CacheInv', NEW n \in Nodes, Outweighs(n),
         Blamers(n) \subseteq Blamers(n)', failures'[n].count <= failures[n].count
  PROVE  Outweighs(n)'
<1> DEFINE B == Blamers(n)
           C == Blamers(n)'
<1>1. IsFiniteSet(B) /\ Cardinality(B) \in Nat
  BY BlamersAreFinite
<1>2. IsFiniteSet(C) /\ Cardinality(C) \in Nat
  <2>1. C \in SUBSET Requests
    BY DEF Blamers
  <2> HIDE DEF C
  <2> QED
    BY <2>1, RequestsAssumption, FS_Subset, FS_CardinalityType
<1>3. failures[n].count \in Nat /\ failures'[n].count \in Nat
  BY ConstantsAssumption DEF CacheInv, CacheTypeOK, FailureState
<1>4. Cardinality(B) <= Cardinality(C)
  <2> B \subseteq C
    OBVIOUS
  <2> HIDE DEF B, C
  <2> QED
    BY <1>2, FS_Subset
<1>5. Cardinality(B) >= failures[n].count
  BY DEF Outweighs
<1> HIDE DEF B, C
<1>6. Cardinality(C) >= failures'[n].count
  BY <1>1, <1>2, <1>3, <1>4, <1>5
<1> QED
  BY <1>6 DEF Outweighs, C

(* One more failure came with one more request to blame.                      *)
LEMMA OneMoreFailure ==
  ASSUME CacheInv, CacheInv', NEW n \in Nodes, Outweighs(n),
         NEW r \in Blamers(n)', r \notin Blamers(n),
         Blamers(n) \subseteq Blamers(n)', failures'[n].count <= failures[n].count + 1
  PROVE  Outweighs(n)'
<1> DEFINE B == Blamers(n)
           C == Blamers(n)'
<1>1. IsFiniteSet(B) /\ Cardinality(B) \in Nat
  BY BlamersAreFinite
<1>2. IsFiniteSet(C) /\ Cardinality(C) \in Nat
  <2>1. C \in SUBSET Requests
    BY DEF Blamers
  <2> HIDE DEF C
  <2> QED
    BY <2>1, RequestsAssumption, FS_Subset, FS_CardinalityType
<1>3. failures[n].count \in Nat /\ failures'[n].count \in Nat
  BY ConstantsAssumption DEF CacheInv, CacheTypeOK, FailureState
<1>4. Cardinality(B) + 1 <= Cardinality(C)
  <2>1. B \subseteq C /\ r \in C /\ r \notin B
    OBVIOUS
  <2> HIDE DEF B, C
  <2>2. Cardinality(B \cup {r}) = Cardinality(B) + 1
    BY <1>1, <2>1, FS_AddElement
  <2>3. B \cup {r} \in SUBSET C
    BY <2>1
  <2> QED
    BY <1>2, <2>2, <2>3, FS_Subset
<1>5. Cardinality(B) >= failures[n].count
  BY DEF Outweighs
<1> HIDE DEF B, C
<1>6. Cardinality(C) >= failures'[n].count
  BY <1>1, <1>2, <1>3, <1>4, <1>5
<1> QED
  BY <1>6 DEF Outweighs, C

(* Looking for candidates only forgets failures.                              *)
LEMMA ForgettingLowersCounts ==
  ASSUME CacheInv, NEW n \in Nodes, NEW S, failures' = Forget(S)
  PROVE  failures'[n].count <= failures[n].count
<1>1. failures[n].count \in Nat
  BY ConstantsAssumption DEF CacheInv, CacheTypeOK, FailureState
<1>2. failures'[n] = failures[n] \/ failures'[n] = NoFailure
  BY DEF Forget
<1> QED
  BY <1>1, <1>2 DEF NoFailure

(* So do the admin API's calls; time shortens circuits, a reload keeps them.  *)
LEMMA EnvironmentLowersCounts ==
  ASSUME CacheInv, NEW n \in Nodes, Environment
  PROVE  failures'[n].count <= failures[n].count
<1>1. failures[n].count \in Nat /\ failures[n] \in FailureState
  BY ConstantsAssumption DEF CacheInv, CacheTypeOK, FailureState
<1>2. CASE \E s \in Snapshots : Load(s)
  BY <1>1, <1>2 DEF Load
<1>3. CASE \E c \in Credentials, m \in Nodes : SwitchStickyNode(c, m)
  BY <1>3, ForgettingLowersCounts DEF SwitchStickyNode
<1>4. CASE RuntimeNodeSnapshots
  BY <1>4, ForgettingLowersCounts DEF RuntimeNodeSnapshots
<1>5. CASE Tick
  <2>1. failures'[n] = IF failures[n].left > 0
                       THEN [failures[n] EXCEPT !.left = failures[n].left - 1]
                       ELSE failures[n]
    BY <1>5 DEF Tick
  <2> QED
    BY <1>1, <2>1 DEF FailureState
<1> QED
  BY <1>2, <1>3, <1>4, <1>5 DEF Environment

(* A report raises the count of the node it is about, by one at most.         *)
LEMMA ReportRaisesOneCount ==
  ASSUME CacheInv, NEW m \in Nodes, NEW n \in Nodes, ReportNodeFailure(m)
  PROVE  failures'[n].count <= failures[n].count + (IF n = m THEN 1 ELSE 0)
<1>1. failures[n].count \in 0..FailureThreshold /\ FailureThreshold \in Nat
  BY ConstantsAssumption DEF CacheInv, CacheTypeOK, FailureState
<1>2. CASE n # m
  BY <1>1, <1>2 DEF ReportNodeFailure, CacheInv, CacheTypeOK
<1>3. CASE n = m
  <2>1. failures'[n].count = IF failures[n].count < FailureThreshold
                             THEN failures[n].count + 1 ELSE FailureThreshold
    BY <1>3 DEF ReportNodeFailure, CacheInv, CacheTypeOK
  <2> QED
    BY <1>1, <1>3, <2>1
<1> QED
  BY <1>2, <1>3

-------------------------------------------------------------------------------
(* A step that keeps the attempts, or appends one, acquits nobody.            *)
LEMMA BlameIsKept ==
  ASSUME RequestInv, NEW r \in Requests, NEW n \in Nodes,
         NEW e \in Attempt, attempts' = [attempts EXCEPT ![r] = Append(attempts[r], e)]
  PROVE  Blamers(n) \subseteq Blamers(n)'
<1> SUFFICES ASSUME NEW q \in Requests, Blamed(q, n)
             PROVE  Blamed(q, n)'
  BY DEF Blamers
<1>0. attempts \in [Requests -> Seq(Attempt)]
  BY DEF RequestInv, RequestTypeOK
<1>1. CASE q # r
  BY <1>0, <1>1 DEF Blamed
<1>2. CASE q = r
  <2> DEFINE s == attempts[r]
             t == attempts'[r]
  <2>1. s \in Seq(Attempt) /\ t = Append(s, e)
    BY <1>0
  <2>2. PICK i \in 1..Len(s) : s[i] = Outcome(n, FALSE)
    BY <1>2 DEF Blamed
  <2> HIDE DEF s, t
  <2>3. i \in 1..Len(t) /\ t[i] = s[i]
    <3>1. Len(t) = Len(s) + 1 /\ Len(s) \in Nat /\ t[i] = s[i]
      BY <2>1, AppendProperties
    <3> QED
      BY <3>1
  <2> QED
    BY <1>2, <2>2, <2>3 DEF Blamed, t
<1> QED
  BY <1>1, <1>2

(* A dial is made to an untried node, so its failure adds a request.          *)
LEMMA DialFailsBlames ==
  ASSUME CacheInv, RequestInv, CacheInv', NEW r \in Requests, DialFails(r),
         NEW n \in Nodes, Outweighs(n)
  PROVE  Outweighs(n)'
<1> DEFINE e == Outcome(target[r], FALSE)
<1>0. /\ attempts \in [Requests -> Seq(Attempt)] /\ target[r] \in Nodes \cup {NoNode}
      /\ failures[n].count \in Nat
  BY ConstantsAssumption
     DEF RequestInv, RequestTypeOK, CacheInv, CacheTypeOK, FailureState
<1>1. e \in Attempt /\ attempts' = [attempts EXCEPT ![r] = Append(attempts[r], e)]
  BY <1>0, OutcomeIsAttempt DEF DialFails, Tried
<1>2. Blamers(n) \subseteq Blamers(n)'
  BY <1>1, BlameIsKept
<1>3. CASE target[r] = n
  <2>1. ReportNodeFailure(n)
    BY <1>3, ConstantsAssumption DEF DialFails, ReportSelectionFailure
  <2>2. failures'[n].count <= failures[n].count + 1
    BY <2>1, ReportRaisesOneCount
  <2>3. r \notin Blamers(n)
    <3>1. n \notin Attempted(r)
      BY <1>3 DEF DialFails, RequestInv, Progress
    <3>2. Outcome(n, FALSE).node = n
      BY DEF Outcome
    <3> QED
      BY <3>1, <3>2 DEF Blamers, Blamed, Attempted
  <2>4. r \in Blamers(n)'
    <3> DEFINE s == attempts[r]
               t == attempts'[r]
    <3>1. s \in Seq(Attempt) /\ t = Append(s, e)
      BY <1>0, <1>1
    <3> HIDE DEF s, t, e
    <3>2. Len(s) \in Nat /\ Len(t) = Len(s) + 1 /\ t[Len(s) + 1] = e
      BY <1>1, <3>1, AppendProperties, LenProperties
    <3>3. Len(t) \in 1..Len(t) /\ t[Len(t)] = Outcome(n, FALSE)
      BY <1>3, <3>2 DEF e
    <3> QED
      BY <3>3 DEF Blamers, Blamed, t
  <2> QED
    BY <1>2, <2>2, <2>3, <2>4, OneMoreFailure
<1>4. CASE target[r] # n
  <2>1. failures'[n].count <= failures[n].count
    <3>1. CASE target[r] = NoNode
      BY <1>0, <3>1 DEF DialFails, ReportSelectionFailure, cacheVars
    <3>2. CASE target[r] # NoNode
      <4>1. target[r] \in Nodes /\ ReportNodeFailure(target[r])
        BY <1>0, <3>2 DEF DialFails, ReportSelectionFailure
      <4>2. failures'[n].count <= failures[n].count + 0
        BY <1>4, <4>1, ReportRaisesOneCount
      <4>3. failures'[n].count \in Nat
        BY ConstantsAssumption DEF CacheInv, CacheTypeOK, FailureState
      <4> QED
        BY <1>0, <4>2, <4>3
    <3> QED
      BY <3>1, <3>2
  <2> QED
    BY <1>2, <2>1, NoNewFailure
<1> QED
  BY <1>3, <1>4

(* The attempt being served was the request's only one on its node, and a     *)
(* success until now: marking it failed adds a request, too.                  *)
LEMMA ServeFailsBlames ==
  ASSUME CacheInv, RequestInv, CacheInv', NEW r \in Requests, ServeFails(r),
         NEW n \in Nodes, Outweighs(n)
  PROVE  Outweighs(n)'
<1> DEFINE s == attempts[r]
           t == attempts'[r]
           e == Outcome(target[r], FALSE)
<1>0. /\ attempts \in [Requests -> Seq(Attempt)] /\ target[r] \in Nodes \cup {NoNode}
      /\ failures[n].count \in Nat /\ pc[r] = "serving"
  BY ConstantsAssumption
     DEF RequestInv, RequestTypeOK, CacheInv, CacheTypeOK, FailureState, ServeFails
<1>1. /\ s \in Seq(Attempt) /\ s # <<>> /\ s[Len(s)].node = target[r]
      /\ \A i \in 1..Len(s) : s[i].success <=> i = Len(s)
      /\ \A i, j \in 1..Len(s) : i # j => s[i].node # s[j].node
  BY <1>0 DEF RequestInv, Progress, Distinct
<1>2. /\ attempts' = [attempts EXCEPT ![r] = t]
      /\ t = [s EXCEPT ![Len(s)] = e]
  BY <1>0 DEF ServeFails, MarkLastAttemptFailed
<1>3. e \in Attempt /\ ~e.success /\ e.node = target[r]
  BY <1>0, OutcomeIsAttempt
<1> HIDE DEF s, t, e
<1>4. /\ Len(s) \in Nat \ {0} /\ Len(t) = Len(s)
      /\ \A i \in 1..Len(t) : t[i] = IF i = Len(s) THEN e ELSE s[i]
  BY <1>1, <1>2, <1>3, OverwriteLast
<1>5. /\ Outcome(n, FALSE).node = n /\ ~Outcome(n, FALSE).success
  BY DEF Outcome
<1> DEFINE last == Len(s)
<1>6. last \in Nat \ {0} /\ last \in 1..last
  <2>1. last \in Nat \ {0}
    BY <1>4
  <2> HIDE DEF last
  <2> QED
    BY <2>1
<1>7. t[last] = e
  BY <1>4, <1>6
<1> HIDE DEF last
<1>8. Blamers(n) \subseteq Blamers(n)'
  <2> SUFFICES ASSUME NEW q \in Requests, Blamed(q, n)
               PROVE  Blamed(q, n)'
    BY DEF Blamers
  <2>1. CASE q # r
    BY <1>0, <1>2, <2>1 DEF Blamed
  <2>2. CASE q = r
    <3>1. PICK i \in 1..Len(s) : s[i] = Outcome(n, FALSE)
      BY <2>2 DEF Blamed, s
    <3>2. i # Len(s)
      BY <1>1, <1>5, <3>1
    <3>3. i \in 1..Len(t) /\ t[i] = Outcome(n, FALSE)
      BY <1>4, <3>1, <3>2
    <3> QED
      BY <2>2, <3>3 DEF Blamed, t
  <2> QED
    BY <2>1, <2>2
<1>9. CASE target[r] = n
  <2>1. ReportNodeFailure(n)
    BY <1>9, ConstantsAssumption DEF ServeFails, ReportSelectionFailure
  <2>2. failures'[n].count <= failures[n].count + 1
    BY <2>1, ReportRaisesOneCount
  <2>3. r \notin Blamers(n)
    <3> SUFFICES ASSUME NEW i \in 1..Len(s), s[i] = Outcome(n, FALSE)
                 PROVE  FALSE
      BY DEF Blamers, Blamed, s
    <3>1. i # last /\ last \in 1..Len(s)
      BY <1>1, <1>5, <1>6 DEF last
    <3>2. s[i].node # s[last].node
      BY <1>1, <3>1
    <3> QED
      BY <1>1, <1>5, <1>9, <3>2 DEF last
  <2>4. r \in Blamers(n)'
    <3>1. last \in 1..Len(t) /\ t[last] = Outcome(n, FALSE)
      BY <1>4, <1>9, <1>6, <1>7 DEF e, last
    <3> QED
      BY <3>1 DEF Blamers, Blamed, t
  <2> QED
    BY <1>8, <2>2, <2>3, <2>4, OneMoreFailure
<1>10. CASE target[r] # n
  <2>1. failures'[n].count <= failures[n].count
    <3>1. CASE target[r] = NoNode
      BY <1>0, <3>1 DEF ServeFails, ReportSelectionFailure, cacheVars
    <3>2. CASE target[r] # NoNode
      <4>1. target[r] \in Nodes /\ ReportNodeFailure(target[r])
        BY <1>0, <3>2 DEF ServeFails, ReportSelectionFailure
      <4>2. failures'[n].count <= failures[n].count + 0
        BY <1>10, <4>1, ReportRaisesOneCount
      <4>3. failures'[n].count \in Nat
        BY ConstantsAssumption DEF CacheInv, CacheTypeOK, FailureState
      <4> QED
        BY <1>0, <4>2, <4>3
    <3> QED
      BY <3>1, <3>2
  <2> QED
    BY <1>8, <2>1, NoNewFailure
<1> QED
  BY <1>9, <1>10

(* The other steps charge nobody.                                             *)
LEMMA OtherStepsBlame ==
  ASSUME CacheInv, RequestInv, CacheInv', NEW r \in Requests, RequestStep(r),
         ~DialFails(r), ~ServeFails(r), NEW n \in Nodes, Outweighs(n)
  PROVE  Outweighs(n)'
<1>0. failures[n].count \in Nat /\ target[r] \in Nodes \cup {NoNode}
  BY ConstantsAssumption
     DEF RequestInv, RequestTypeOK, CacheInv, CacheTypeOK, FailureState
<1>1. ASSUME attempts' = attempts PROVE Blamers(n) \subseteq Blamers(n)'
  BY <1>1 DEF Blamers, Blamed
<1>2. CASE \E m \in Nodes : SelectNode(r, m)
  <2>1. attempts' = attempts /\ failures' = Forget(Scope(CredentialOf[r]))
    BY <1>2 DEF SelectNode, SelectExcluding
  <2> QED
    BY <1>1, <2>1, ForgettingLowersCounts, NoNewFailure
<1>3. CASE NoCandidate(r)
  <2>1. attempts' = attempts /\ failures' = Forget(Scope(CredentialOf[r]))
    BY <1>3 DEF NoCandidate, SelectNothing
  <2> QED
    BY <1>1, <2>1, ForgettingLowersCounts, NoNewFailure
<1>4. CASE \/ Authenticate(r) \/ Cancel(r) \/ CredentialGone(r)
           \/ SelectDirect(r) \/ StartDial(r)
  <2>1. attempts' = attempts /\ failures' = failures
    BY <1>4 DEF Authenticate, Cancel, CredentialGone, SelectDirect, StartDial, cacheVars
  <2> QED
    BY <1>0, <1>1, <2>1, NoNewFailure
<1>5. CASE DialSucceeds(r)
  <2>1. /\ attempts' = [attempts EXCEPT ![r] = Append(attempts[r], Outcome(target[r], TRUE))]
        /\ failures' = failures
    BY <1>5 DEF DialSucceeds, Tried, cacheVars
  <2>2. Outcome(target[r], TRUE) \in Attempt
    BY <1>0, OutcomeIsAttempt
  <2>3. Blamers(n) \subseteq Blamers(n)'
    BY <2>1, <2>2, BlameIsKept
  <2> QED
    BY <1>0, <2>1, <2>3, NoNewFailure
<1>6. CASE ServeEnds(r)
  <2>1. attempts' = attempts
    BY <1>6 DEF ServeEnds
  <2>2. failures'[n] = failures[n] \/ failures'[n] = NoFailure
    BY <1>6 DEF ServeEnds, ReportSelectionSuccess, ReportNodeSuccess, cacheVars,
       CacheInv, CacheTypeOK
  <2>3. failures'[n].count <= failures[n].count
    BY <1>0, <2>2 DEF NoFailure
  <2> QED
    BY <1>1, <2>1, <2>3, NoNewFailure
<1> QED
  BY <1>2, <1>3, <1>4, <1>5, <1>6 DEF RequestStep

(* However requests, reloads and the clock interleave, a circuit that opened  *)
(* took FailureThreshold different requests, each failing on the node once.   *)
THEOREM CircuitsTakeDistinctRequests == Spec => []CircuitNeedsDistinctRequests
<1> DEFINE Weighed == \A n \in Nodes : Outweighs(n)
<1>1. Init => Weighed
  <2> SUFFICES ASSUME Init, NEW n \in Nodes PROVE Outweighs(n)
    OBVIOUS
  <2>1. failures[n].count = 0
    BY DEF Init, CacheInit, NoFailure
  <2> QED
    BY <2>1, BlamersAreFinite DEF Outweighs
<1>2. CacheInv /\ RequestInv /\ CacheInv' /\ Weighed /\ [Next]_vars => Weighed'
  <2> SUFFICES ASSUME CacheInv, RequestInv, CacheInv', [Next]_vars,
                      NEW n \in Nodes, Outweighs(n)
               PROVE  Outweighs(n)'
    OBVIOUS
  <2>0. failures[n].count \in Nat
    BY ConstantsAssumption DEF CacheInv, CacheTypeOK, FailureState
  <2>1. ASSUME NEW r \in Requests, RequestStep(r) PROVE Outweighs(n)'
    BY <2>1, DialFailsBlames, ServeFailsBlames, OtherStepsBlame
  <2>2. ASSUME UNCHANGED requestVars PROVE Blamers(n) \subseteq Blamers(n)'
    BY <2>2 DEF requestVars, Blamers, Blamed
  <2>3. CASE Environment /\ UNCHANGED requestVars
    BY <2>2, <2>3, EnvironmentLowersCounts, NoNewFailure
  <2>4. CASE UNCHANGED vars
    <3>1. failures' = failures /\ UNCHANGED requestVars
      BY <2>4 DEF vars, cacheVars
    <3> QED
      BY <2>0, <2>2, <3>1, NoNewFailure
  <2> QED
    BY <2>1, <2>3, <2>4 DEF Next
<1>3. Weighed => CircuitNeedsDistinctRequests
  BY DEF Outweighs, Blamers, CircuitNeedsDistinctRequests
<1> HIDE DEF Weighed
<1> QED
  BY <1>1, <1>2, <1>3, RequestInvariant, PTL DEF Spec

===============================================================================
