----------------------------- MODULE RpcClient -----------------------------
(***************************************************************************)
(* The keeper's RPC client (rpc-client.ts): a pool of endpoints with       *)
(* health tracking, calls that retry and rotate, and a background health   *)
(* check.  Several calls and a check interleave at their awaits; between   *)
(* two awaits the code runs without interruption, so that is one action.   *)
(*                                                                         *)
(* Times are kept as ages: sinceFailure is Date.now() - lastFailureAt, up  *)
(* to the first value beyond the cooldown, and a timer counts from or down *)
(* to its event.  Timers fire on time: Tick waits for what is due.         *)
(***************************************************************************)
EXTENDS Integers, FiniteSetsExt

CONSTANTS
    N,                \* number of endpoints
    Weight,           \* endpoint -> weight
    Callers,          \* calls of execute that may run at once
    AnswerPatterns,   \* networks: [endpoint -> what a request to it may end in]
    maxRetries, requestTimeout, baseRetryDelay, maxRetryDelay,
    UNHEALTHY_THRESHOLD, RECOVERY_COOLDOWN,
    HealthTimeout     \* the check's own time limit

\* Indices of the array of endpoints.
Endpoints == 0 .. N - 1

\* A request is answered, fails in a way that isNetworkError recognises (a
\* timeout, a 5xx, a refused connection), or fails otherwise.
Outcomes == {"ok", "network", "other"}

ASSUME ConfigAssumption ==
    /\ N \in Nat \ {0}
    /\ Weight \in [Endpoints -> Nat]
    /\ AnswerPatterns \subseteq [Endpoints -> SUBSET Outcomes \ {{}}]
    /\ maxRetries \in Nat \ {0}
    /\ requestTimeout \in Nat
    /\ baseRetryDelay \in Nat
    /\ maxRetryDelay \in Nat
    /\ UNHEALTHY_THRESHOLD \in Nat \ {0}
    /\ RECOVERY_COOLDOWN \in Nat
    /\ HealthTimeout \in 0 .. RECOVERY_COOLDOWN

VARIABLES
    answers,       \* the network of this behaviour, which never changes
    endpoints,     \* index -> [healthy, consecutiveFailures, sinceFailure]
    currentIndex,
    call,          \* caller -> [phase, attempt, ep, timer]
    check,         \* the run of runHealthChecks: [phase, ep, timer]
    seen           \* history: index -> age of the last failure not followed by a success

vars == <<answers, endpoints, currentIndex, call, check, seen>>

LongAgo == RECOVERY_COOLDOWN + 1

Older(age) == IF age < LongAgo THEN age + 1 ELSE LongAgo

Init ==
    /\ answers \in AnswerPatterns
    /\ endpoints = [e \in Endpoints |->
         [healthy |-> TRUE, consecutiveFailures |-> 0, sinceFailure |-> LongAgo]]
    /\ currentIndex = 0
    /\ call = [c \in Callers |-> [phase |-> "idle", attempt |-> 0, ep |-> 0, timer |-> 0]]
    /\ check = [phase |-> "idle", ep |-> 0, timer |-> 0]
    /\ seen = [e \in Endpoints |-> LongAgo]

----------------------------------------------------------------------------
(* Endpoint health *)

restored(ep) == [ep EXCEPT !.healthy = TRUE, !.consecutiveFailures = 0]

\* Mutant: an answered request does not clear the count.
recordSuccess_KeepsCount(e) ==
    /\ endpoints' = [endpoints EXCEPT ![e].healthy = TRUE]
    /\ seen' = [seen EXCEPT ![e] = LongAgo]

recordSuccess(e) ==
    /\ endpoints' = [endpoints EXCEPT ![e] = restored(@)]
    /\ seen' = [seen EXCEPT ![e] = LongAgo]

\* An endpoint after one more failure.
failed(ep) ==
    [ep EXCEPT !.consecutiveFailures = @ + 1,
               !.sinceFailure = 0,
               !.healthy = @ /\ ep.consecutiveFailures + 1 < UNHEALTHY_THRESHOLD]

\* Mutant: the time of the failure is not taken down.
recordFailure_KeepsTime(e) ==
    /\ endpoints' = [endpoints EXCEPT
         ![e] = [failed(@) EXCEPT !.sinceFailure = endpoints[e].sinceFailure]]
    /\ seen' = [seen EXCEPT ![e] = 0]

recordFailure(e) ==
    /\ endpoints' = [endpoints EXCEPT ![e] = failed(@)]
    /\ seen' = [seen EXCEPT ![e] = 0]

\* The endpoints after getBestEndpoint has returned the ones that cooled down.
recovered ==
    [e \in Endpoints |->
       IF ~endpoints[e].healthy /\ endpoints[e].sinceFailure > RECOVERY_COOLDOWN
       THEN restored(endpoints[e]) ELSE endpoints[e]]

\* Mutant: the current endpoint is used whatever its health.
firstHealthy_IgnoresHealth(eps) == currentIndex

firstHealthy(eps) ==
    (currentIndex + Min({i \in Endpoints : eps[(currentIndex + i) % N].healthy})) % N

heaviest == Min({e \in Endpoints : \A f \in Endpoints : Weight[e] >= Weight[f]})

\* Picks ep: the first healthy endpoint from currentIndex on, which does not move
\* currentIndex; or, when all are down, the heaviest one, whose health is reset.
getBestEndpoint(ep) ==
    /\ \/ /\ \E e \in Endpoints : recovered[e].healthy
          /\ ep = firstHealthy(recovered)
          /\ endpoints' = recovered
          /\ UNCHANGED currentIndex
       \/ /\ \A e \in Endpoints : ~recovered[e].healthy
          /\ ep = heaviest
          /\ endpoints' = [recovered EXCEPT ![ep] = restored(@)]
          /\ currentIndex' = ep
    /\ UNCHANGED seen

\* Mutant: the index runs past the last endpoint.
rotateEndpoint_NoWrap == currentIndex' = currentIndex + 1

rotateEndpoint == currentIndex' = (currentIndex + 1) % N

----------------------------------------------------------------------------
(* execute: one call of a caller *)

\* 2^n, for small n.
pow2[n \in Nat] == IF n = 0 THEN 1 ELSE 2 * pow2[n - 1]

\* The largest delay; the code waits for a random part of it.
calculateBackoff(attempt) ==
    LET exp == baseRetryDelay * pow2[attempt - 1]
    IN  IF exp < maxRetryDelay THEN exp ELSE maxRetryDelay

request(c, attempt) ==
    \E ep \in Endpoints :
        /\ getBestEndpoint(ep)
        /\ call' = [call EXCEPT ![c] =
             [phase |-> "waiting", attempt |-> attempt, ep |-> ep, timer |-> 0]]
        /\ UNCHANGED check

execute(c) ==
    /\ call[c].phase \in {"idle", "resolved", "rejected"}
    /\ request(c, 1)

\* Mutant: a failed attempt is counted twice.
retry_CountsTwice(c) ==
    /\ call[c].phase = "sleeping"
    /\ call[c].timer = 0
    /\ request(c, call[c].attempt + 2)

retry(c) ==
    /\ call[c].phase = "sleeping"
    /\ call[c].timer = 0
    /\ request(c, call[c].attempt + 1)

succeed(c) ==
    /\ call[c].phase = "waiting"
    /\ "ok" \in answers[call[c].ep]
    /\ recordSuccess(call[c].ep)
    /\ call' = [call EXCEPT ![c].phase = "resolved", ![c].timer = 0]
    /\ UNCHANGED <<currentIndex, check>>

after_failure(c) ==
    \/ /\ call[c].attempt < maxRetries
       /\ \E delay \in 0 .. calculateBackoff(call[c].attempt) :
            call' = [call EXCEPT ![c].phase = "sleeping", ![c].timer = delay]
    \/ /\ call[c].attempt = maxRetries
       /\ call' = [call EXCEPT ![c].phase = "rejected", ![c].timer = 0]

\* The catch branch.  A timeout (withTimeout) is one of the network failures; the
\* request goes on at the endpoint, and its late answer reaches nobody.
fail(c, outcome) ==
    /\ call[c].phase = "waiting"
    /\ outcome \in answers[call[c].ep]
    /\ recordFailure(call[c].ep)
    /\ IF outcome = "network" THEN rotateEndpoint ELSE UNCHANGED currentIndex
    /\ after_failure(c)
    /\ UNCHANGED check

\* The public getter: the choice of an endpoint, with its recoveries and resets.
getClient ==
    /\ \E ep \in Endpoints : getBestEndpoint(ep)
    /\ UNCHANGED <<call, check>>

----------------------------------------------------------------------------
(* runHealthChecks *)

\* Healthy endpoints and those that failed a short while ago are passed over.
to_check(eps, from) ==
    {e \in from .. N - 1 :
        ~eps[e].healthy /\ eps[e].sinceFailure >= RECOVERY_COOLDOWN}

\* The loop goes on to the next endpoint it has to await, or ends.
check_from(eps, from) ==
    \/ /\ to_check(eps, from) = {}
       /\ check' = [phase |-> "idle", ep |-> 0, timer |-> 0]
    \/ \E e \in to_check(eps, from) :
         /\ \A f \in to_check(eps, from) : e <= f
         /\ check' = [phase |-> "waiting", ep |-> e, timer |-> 0]

runHealthChecks ==
    /\ check.phase = "idle"
    /\ to_check(endpoints, 0) # {}
    /\ check_from(endpoints, 0)
    /\ UNCHANGED <<endpoints, currentIndex, call, seen>>

check_passes ==
    /\ check.phase = "waiting"
    /\ "ok" \in answers[check.ep]
    /\ recordSuccess(check.ep)
    /\ check_from(endpoints', check.ep + 1)
    /\ UNCHANGED <<currentIndex, call>>

\* lastFailureAt becomes the time at which this check started.
check_fails ==
    /\ check.phase = "waiting"
    /\ answers[check.ep] # {"ok"}
    /\ endpoints' = [endpoints EXCEPT ![check.ep] = [@ EXCEPT !.sinceFailure = check.timer]]
    /\ seen' = [seen EXCEPT ![check.ep] = 0]
    /\ check_from(endpoints', check.ep + 1)
    /\ UNCHANGED <<currentIndex, call>>

----------------------------------------------------------------------------
\* Time passes unless a timer is due.
Tick ==
    /\ \A c \in Callers :
         /\ call[c].phase = "waiting" => call[c].timer < requestTimeout
         /\ call[c].phase = "sleeping" => call[c].timer > 0
    /\ check.phase = "waiting" => check.timer < HealthTimeout
    /\ endpoints' = [e \in Endpoints |->
         [endpoints[e] EXCEPT !.sinceFailure = Older(@)]]
    /\ seen' = [e \in Endpoints |-> Older(seen[e])]
    /\ call' = [c \in Callers |->
         CASE call[c].phase = "waiting" -> [call[c] EXCEPT !.timer = @ + 1]
           [] call[c].phase = "sleeping" -> [call[c] EXCEPT !.timer = @ - 1]
           [] OTHER -> call[c]]
    /\ check' = IF check.phase = "waiting" THEN [check EXCEPT !.timer = @ + 1] ELSE check
    /\ UNCHANGED currentIndex

settle(c) == succeed(c) \/ \E outcome \in {"network", "other"} : fail(c, outcome)

Step ==
    \/ Tick
    \/ getClient
    \/ \E c \in Callers : execute(c) \/ retry(c) \/ settle(c)
    \/ runHealthChecks \/ check_passes \/ check_fails

Next == Step /\ UNCHANGED answers

Spec == Init /\ [][Next]_vars

\* Requests end by their time limit at the latest, timers fire, and time goes on
\* however often other calls hold it up with what is due at once.
FairSpec ==
    /\ Spec
    /\ SF_vars(Tick /\ UNCHANGED answers)
    /\ WF_vars((check_passes \/ check_fails) /\ UNCHANGED answers)
    /\ \A c \in Callers : /\ WF_vars(retry(c) /\ UNCHANGED answers)
                         /\ WF_vars(settle(c) /\ UNCHANGED answers)

----------------------------------------------------------------------------
(* Properties *)

TypeOK ==
    /\ endpoints \in [Endpoints -> [healthy : BOOLEAN, consecutiveFailures : Nat,
                                    sinceFailure : 0 .. LongAgo]]
    /\ currentIndex \in Endpoints
    /\ call \in [Callers -> [phase : {"idle", "waiting", "sleeping", "resolved", "rejected"},
                             attempt : 0 .. maxRetries, ep : Endpoints, timer : Nat]]
    /\ check \in [phase : {"idle", "waiting"}, ep : Endpoints, timer : Nat]
    /\ seen \in [Endpoints -> 0 .. LongAgo]

\* However calls and health checks interleave, an endpoint is in rotation exactly
\* while it has fewer than UNHEALTHY_THRESHOLD failures in a row: no path of
\* getBestEndpoint, recordSuccess or the health check leaves the two apart.
HealthFollowsFailures ==
    \A e \in Endpoints :
        endpoints[e].healthy <=> endpoints[e].consecutiveFailures < UNHEALTHY_THRESHOLD

\* An endpoint out of rotation comes back without an answered request only when all
\* are down, or when its last failure is a cooldown ago.  A failed health check
\* dates its failure back to its own start, so its time limit comes off the cooldown.
QuarantineHolds ==
    [][\A e \in Endpoints :
         ~endpoints[e].healthy /\ endpoints'[e].healthy
           => \/ seen'[e] > RECOVERY_COOLDOWN - HealthTimeout
              \/ \A f \in Endpoints : ~endpoints[f].healthy]_vars

\* Endpoint d never answers and all others always do.  A call has more attempts than
\* it takes to put d out of rotation, and neither a request nor a delay between such
\* attempts is so long that d could come back meanwhile.
Bypassable(d) ==
    /\ N > 1
    /\ "ok" \notin answers[d]
    /\ \A e \in Endpoints \ {d} : answers[e] = {"ok"}
    /\ maxRetries > UNHEALTHY_THRESHOLD
    /\ HealthTimeout + requestTimeout <= RECOVERY_COOLDOWN
    /\ \A attempt \in 1 .. UNHEALTHY_THRESHOLD :
         calculateBackoff(attempt) \in 0 .. RECOVERY_COOLDOWN - HealthTimeout

\* The README says that the client is never stuck on a dead endpoint: a pool with one
\* dead endpoint rejects no call, however many calls and health checks move the shared
\* index and the shared health of the endpoints between two attempts of a call.
NoCallIsLost ==
    (\E d \in Endpoints : Bypassable(d)) => \A c \in Callers : call[c].phase # "rejected"

\* A call keeps the promise of RpcCalls: bounded invocations, rejection only after
\* the last of them, and an end.
Calls ==
    INSTANCE RpcCalls WITH
        phase <- [c \in Callers |->
                    IF call[c].phase \in {"waiting", "sleeping"} THEN "pending"
                    ELSE call[c].phase],
        invoked <- [c \in Callers |-> call[c].attempt],
        MaxRetries <- maxRetries

CallsKeepPromise == Calls!Spec

=============================================================================
