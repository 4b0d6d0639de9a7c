----------------------------- MODULE ProxyRequest -----------------------------
(***************************************************************************)
(* Proxy requests in flight over the runtime cache: authentication, the     *)
(* retry loop of dialWithRetries, the direct fallback, and the accounting   *)
(* of each outcome in the circuit breaker, the traffic statistics and the   *)
(* request log (src/internal/proxy: http.go, socks5.go, retry.go,           *)
(* request_log.go).  The HTTP, CONNECT and SOCKS5 handlers share this        *)
(* control; where they differ the request's protocol decides.               *)
(*                                                                         *)
(* Every call into the cache is a step of its own, and so is the start of a *)
(* dial: other requests, reloads and the clock come in between a selection  *)
(* and the dial that is made on it.  A report to the cache and the          *)
(* statistics and log entries that follow it touch three unrelated stores   *)
(* no step reads together; they are one step here.                          *)
(***************************************************************************)
EXTENDS RuntimeCache

CONSTANTS
    Requests,       \* the requests of a behaviour, each made once
    CredentialOf,   \* the username each request authenticates as
    ProtocolOf,     \* the entry protocol of each request
    MaxAttempts     \* runtime.max_attempts_per_request, normalised

Protocols == {"CONNECT", "HTTP", "SOCKS5"}

ASSUME RequestsAssumption ==
    /\ IsFiniteSet(Requests)
    /\ CredentialOf \in [Requests -> Credentials]
    /\ ProtocolOf \in [Requests -> Protocols]
    /\ MaxAttempts \in Nat \ {0}

VARIABLES
    pc,         \* where each request's handler is
    target,     \* the node being dialed or served, NoNode for the direct exit
    cancelled,  \* the request's context has ended
    attempts,   \* the RequestAttempt slice
    events,     \* the stats events recorded by each request, in order
    log         \* the attempts in each request's log entry, if there is one

requestVars == <<pc, target, cancelled, attempts, events, log>>
vars        == <<cacheVars, requestVars>>

Attempt == [node : Nodes \cup {NoNode}, success : BOOLEAN]

NotLogged == <<[node |-> NoNode, success |-> TRUE]>>

Stages == {"idle", "selecting", "fallback", "selected", "dialing",
           "serving", "served", "failed", "refused"}

(* Mutant: the retries exclude nothing.                                     *)
MutantAttempted(r) == {}

Attempted(r) == {attempts[r][i].node : i \in 1..Len(attempts[r])}

Outcome(node, success) == [node |-> node, success |-> success]

GoTo(r, stage) == pc' = [pc EXCEPT ![r] = stage]

Tried(r, success) ==
    attempts' = [attempts EXCEPT ![r] = Append(attempts[r], Outcome(target[r], success))]

Counted(r, success) ==
    events' = [events EXCEPT ![r] = Append(events[r], Outcome(target[r], success))]

(* The direct exit is never reported to the circuit breaker.                *)
ReportSelectionFailure(r) ==
    IF target[r] = NoNode THEN UNCHANGED cacheVars ELSE ReportNodeFailure(target[r])

ReportSelectionSuccess(r) ==
    IF target[r] = NoNode THEN UNCHANGED cacheVars ELSE ReportNodeSuccess(target[r])

(* The handler gives up.  There is a logger only if failed requests are to  *)
(* be recorded, its write may time out, and its error is dropped.           *)
GiveUp(r, finalAttempts) ==
    /\ GoTo(r, "failed")
    /\ log' \in {log, [log EXCEPT ![r] = finalAttempts]}

(* Mutant: the attempt keeps the outcome of its dial.                       *)
MutantMarkLastAttemptFailed(r) == attempts[r]

(* markLastAttemptFailed, for the attempt that is being served: the last.   *)
MarkLastAttemptFailed(r) ==
    [attempts[r] EXCEPT ![Len(attempts[r])] = Outcome(target[r], FALSE)]

-------------------------------------------------------------------------------
(* The client presents a password that matches the cached hash.             *)
Authenticate(r) ==
    /\ pc[r] = "idle"
    /\ GoTo(r, IF credentials[CredentialOf[r]].enabled THEN "selecting" ELSE "refused")
    /\ UNCHANGED <<cacheVars, target, cancelled, attempts, events, log>>

(* The client goes away, or the 30 seconds a SOCKS5 request has are over.   *)
(* The handler only notices through the dialer.                             *)
Cancel(r) ==
    /\ pc[r] \in {"selecting", "fallback", "selected", "dialing"}
    /\ ~cancelled[r]
    /\ cancelled' = [cancelled EXCEPT ![r] = TRUE]
    /\ UNCHANGED <<cacheVars, pc, target, attempts, events, log>>

(* One turn of the retry loop: select a node not tried yet.                 *)
SelectNode(r, n) ==
    /\ pc[r] = "selecting"
    /\ SelectExcluding(CredentialOf[r], Attempted(r), n)
    /\ GoTo(r, "selected")
    /\ target' = [target EXCEPT ![r] = n]
    /\ UNCHANGED <<cancelled, attempts, events, log>>

(* No candidate left: the direct exit is an option for the first attempt    *)
(* only.                                                                    *)
NoCandidate(r) ==
    /\ pc[r] = "selecting"
    /\ SelectNothing(CredentialOf[r], Attempted(r))
    /\ IF attempts[r] = <<>>
       THEN GoTo(r, "fallback") /\ UNCHANGED log
       ELSE GiveUp(r, attempts[r])
    /\ UNCHANGED <<target, cancelled, attempts, events>>

(* ErrCredentialNotFound ends the request, whether the loop or the          *)
(* fallback meets it.                                                       *)
CredentialGone(r) ==
    /\ pc[r] \in {"selecting", "fallback"}
    /\ ~credentials[CredentialOf[r]].enabled
    /\ GiveUp(r, attempts[r])
    /\ UNCHANGED <<cacheVars, target, cancelled, attempts, events>>

(* Mutant: the fallback trusts the credential looked up before.             *)
MutantSelectDirect(r) ==
    /\ pc[r] = "fallback"
    /\ GoTo(r, "selected")
    /\ target' = [target EXCEPT ![r] = NoNode]
    /\ UNCHANGED <<cacheVars, cancelled, attempts, events, log>>

(* dialDirect looks the credential up again.                                *)
SelectDirect(r) ==
    /\ pc[r] = "fallback"
    /\ credentials[CredentialOf[r]].enabled
    /\ GoTo(r, "selected")
    /\ target' = [target EXCEPT ![r] = NoNode]
    /\ UNCHANGED <<cacheVars, cancelled, attempts, events, log>>

(* The dial goes to what was selected, whatever has happened since.         *)
StartDial(r) ==
    /\ pc[r] = "selected"
    /\ GoTo(r, "dialing")
    /\ UNCHANGED <<cacheVars, target, cancelled, attempts, events, log>>

(* Mutant: the connection is counted when it is made, too.                  *)
MutantDialSucceeds(r) ==
    /\ pc[r] = "dialing"
    /\ ~cancelled[r]
    /\ GoTo(r, "serving")
    /\ Tried(r, TRUE)
    /\ Counted(r, TRUE)
    /\ UNCHANGED <<cacheVars, target, cancelled, log>>

DialSucceeds(r) ==
    /\ pc[r] = "dialing"
    /\ ~cancelled[r]
    /\ GoTo(r, "serving")
    /\ Tried(r, TRUE)
    /\ UNCHANGED <<cacheVars, target, cancelled, events, log>>

(* A failed dial is charged to the node and counted, then the loop goes on  *)
(* while attempts remain; the direct exit is not retried.                   *)
DialFails(r) ==
    /\ pc[r] = "dialing"
    /\ ReportSelectionFailure(r)
    /\ Tried(r, FALSE)
    /\ Counted(r, FALSE)
    /\ IF target[r] = NoNode \/ Len(attempts[r]) + 1 >= MaxAttempts
       THEN GiveUp(r, Append(attempts[r], Outcome(target[r], FALSE)))
       ELSE GoTo(r, "selecting") /\ UNCHANGED log
    /\ UNCHANGED <<target, cancelled>>

(* The connection breaks before the handler is done: the answer to the      *)
(* client cannot be written, or the upstream request or response fails.     *)
ServeFails(r) ==
    /\ pc[r] = "serving"
    /\ ReportSelectionFailure(r)
    /\ Counted(r, FALSE)
    /\ attempts' = [attempts EXCEPT ![r] = MarkLastAttemptFailed(r)]
    /\ GiveUp(r, MarkLastAttemptFailed(r))
    /\ UNCHANGED <<target, cancelled>>

(* The exchange is over: only now is the node's success reported.  An HTTP  *)
(* response of 500 or more counts as failed traffic of a sound node.        *)
ServeEnds(r) ==
    /\ pc[r] = "serving"
    /\ ReportSelectionSuccess(r)
    /\ \E ok \in IF ProtocolOf[r] = "HTTP" THEN BOOLEAN ELSE {TRUE} : Counted(r, ok)
    /\ GoTo(r, "served")
    /\ UNCHANGED <<target, cancelled, attempts, log>>

-------------------------------------------------------------------------------
Init ==
    /\ CacheInit
    /\ pc = [r \in Requests |-> "idle"]
    /\ target = [r \in Requests |-> NoNode]
    /\ cancelled = [r \in Requests |-> FALSE]
    /\ attempts = [r \in Requests |-> <<>>]
    /\ events = [r \in Requests |-> <<>>]
    /\ log = [r \in Requests |-> NotLogged]

RequestStep(r) ==
    \/ Authenticate(r)
    \/ Cancel(r)
    \/ \E n \in Nodes : SelectNode(r, n)
    \/ NoCandidate(r)
    \/ CredentialGone(r)
    \/ SelectDirect(r)
    \/ StartDial(r)
    \/ DialSucceeds(r)
    \/ DialFails(r)
    \/ ServeFails(r)
    \/ ServeEnds(r)

(* The rest of the process, as far as the cache is concerned.               *)
Environment ==
    \/ \E s \in Snapshots : Load(s)
    \/ \E c \in Credentials, n \in Nodes : SwitchStickyNode(c, n)
    \/ RuntimeNodeSnapshots
    \/ Tick

Next ==
    \/ \E r \in Requests : RequestStep(r)
    \/ Environment /\ UNCHANGED requestVars

Spec == Init /\ [][Next]_vars

-------------------------------------------------------------------------------
TypeOK ==
    /\ CacheTypeOK
    /\ pc \in [Requests -> Stages]
    /\ target \in [Requests -> Nodes \cup {NoNode}]
    /\ cancelled \in [Requests -> BOOLEAN]
    /\ attempts \in [Requests -> Seq(Attempt)]
    /\ events \in [Requests -> Seq(Attempt)]
    /\ log \in [Requests -> Seq(Attempt)]

(* A request never tries a node twice nor more nodes than configured, and   *)
(* it leaves by the direct exit only when it has tried no node at all: a    *)
(* request that failed over a proxy is never sent from the host's address.  *)
AttemptsOK ==
    \A r \in Requests :
        /\ Len(attempts[r]) <= MaxAttempts
        /\ \A i, j \in 1..Len(attempts[r]) :
            i # j => attempts[r][i].node # attempts[r][j].node
        /\ NoNode \in Attempted(r) => Len(attempts[r]) = 1
        /\ \A i \in 1..Len(attempts[r]) :
            attempts[r][i].success <=> pc[r] \in {"serving", "served"} /\ i = Len(attempts[r])

(* The statistics count every attempt whose outcome is known exactly once,  *)
(* on the node it went through, and as failed if it failed.  (An HTTP       *)
(* request served with an error status counts as failed traffic.)           *)
EachAttemptCountedOnce ==
    \A r \in Requests :
        LET finished == IF pc[r] = "serving" THEN Len(attempts[r]) - 1 ELSE Len(attempts[r])
        IN  /\ Len(events[r]) = finished
            /\ \A i \in 1..finished :
                /\ events[r][i].node = attempts[r][i].node
                /\ attempts[r][i].success \/ ~events[r][i].success

(* Whatever is in the log is a failed request, listed with all of its       *)
(* attempts, and none of them is shown as successful, whichever way it      *)
(* failed.  That a failed request is in the log is not promised.            *)
LoggedRequestsFailed ==
    \A r \in Requests :
        log[r] # NotLogged =>
            /\ pc[r] = "failed"
            /\ log[r] = attempts[r]
            /\ \A i \in 1..Len(log[r]) : ~log[r][i].success

(* A node's circuit takes failures from FailureThreshold different          *)
(* requests: none can blame the same node twice, by dialing it again or by  *)
(* failing on it both while dialing and while serving.                      *)
Blamed(r, n) == \E i \in 1..Len(attempts[r]) : attempts[r][i] = Outcome(n, FALSE)

CircuitNeedsDistinctRequests ==
    \A n \in Nodes :
        Cardinality({r \in Requests : Blamed(r, n)}) >= failures[n].count

(* Whatever a request is about to dial was selected with its credential in  *)
(* force - revoking one stops the retries and the fallback of requests that *)
(* are already running - and a node was loaded, bound to the credential,    *)
(* untried and without an open circuit when it was selected, be it from a   *)
(* bag, as a stored sticky choice, or after a switch.  The dial itself      *)
(* begins later: a node that is dropped, a credential that is revoked or a  *)
(* circuit that opens in between does not stop it.                          *)
SelectionsAreLegal ==
    [][\A r \in Requests :
        pc[r] # "selected" /\ pc'[r] = "selected" =>
            /\ credentials[CredentialOf[r]].enabled
            /\ target'[r] # NoNode =>
                /\ target'[r] \in nodes \ Attempted(r)
                /\ Permitted(CredentialOf[r], target'[r])
                /\ ~(failures[target'[r]].tripped /\ failures[target'[r]].left > 0)]_vars

===============================================================================
