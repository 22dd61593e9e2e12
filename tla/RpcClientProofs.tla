-------------------------- MODULE RpcClientProofs --------------------------
(***************************************************************************)
(* The health tracking of RpcClient for any number of endpoints, callers   *)
(* and any thresholds and delays.                                          *)
(***************************************************************************)
EXTENDS RpcClient, WellFoundedInduction, TLAPS

EndpointState == [healthy : BOOLEAN, consecutiveFailures : Nat, sinceFailure : 0 .. LongAgo]

EndpointsTyped ==
    /\ endpoints \in [Endpoints -> EndpointState]
    /\ seen \in [Endpoints -> 0 .. LongAgo]

\* The recorded time of a failure is at most one time limit of the check too early.
FailuresDated == \A e \in Endpoints : endpoints[e].sinceFailure <= seen[e] + HealthTimeout

EndpointInv == EndpointsTyped /\ HealthFollowsFailures /\ FailuresDated

CheckInTime == check.phase = "waiting" => check.timer \in 0 .. HealthTimeout

HealthInv == EndpointInv /\ CheckInTime

\* What QuarantineHolds says of one step.
Quarantined ==
    \A e \in Endpoints :
        ~endpoints[e].healthy /\ endpoints'[e].healthy
          => \/ seen'[e] > RECOVERY_COOLDOWN - HealthTimeout
             \/ \A f \in Endpoints : ~endpoints[f].healthy

\* Initially every endpoint is in rotation and has never failed.
LEMMA InitHealth == Init => HealthInv
BY ConfigAssumption
   DEF Init, HealthInv, EndpointInv, EndpointsTyped, EndpointState, FailuresDated,
       HealthFollowsFailures, CheckInTime, LongAgo

\* One endpoint changes: what has to be known of its new state.
LEMMA OneEndpoint ==
    ASSUME EndpointInv, NEW e, NEW new, NEW age \in 0 .. LongAgo,
           endpoints' = [endpoints EXCEPT ![e] = new],
           seen' = [seen EXCEPT ![e] = age],
           e \in Endpoints =>
             /\ new \in EndpointState
             /\ new.healthy <=> new.consecutiveFailures < UNHEALTHY_THRESHOLD
             /\ new.sinceFailure <= age + HealthTimeout
             /\ ~endpoints[e].healthy /\ new.healthy
                  => age > RECOVERY_COOLDOWN - HealthTimeout
    PROVE  EndpointInv' /\ Quarantined
<1>1. ASSUME NEW f \in Endpoints
      PROVE  /\ endpoints'[f] = IF f = e THEN new ELSE endpoints[f]
             /\ seen'[f] = IF f = e THEN age ELSE seen[f]
  BY Zenon DEF EndpointInv, EndpointsTyped
<1>2. EndpointsTyped'
  BY Zenon DEF EndpointInv, EndpointsTyped
<1>3. HealthFollowsFailures'
  BY <1>1 DEF EndpointInv, HealthFollowsFailures
<1>4. FailuresDated'
  BY <1>1, Zenon DEF EndpointInv, FailuresDated
<1>5. Quarantined
  BY <1>1 DEF Quarantined
<1> QED
  BY <1>2, <1>3, <1>4, <1>5, Zenon DEF EndpointInv

\* What restored makes of an endpoint.
LEMMA RestoredState ==
    ASSUME NEW ep \in EndpointState
    PROVE  /\ restored(ep) \in EndpointState
           /\ restored(ep).healthy = TRUE
           /\ restored(ep).consecutiveFailures = 0
           /\ restored(ep).sinceFailure = ep.sinceFailure
BY Zenon DEF restored, EndpointState

\* What failed makes of an endpoint.
LEMMA FailedState ==
    ASSUME NEW ep \in EndpointState
    PROVE  /\ failed(ep) \in EndpointState
           /\ failed(ep).healthy
                = (ep.healthy /\ ep.consecutiveFailures + 1 < UNHEALTHY_THRESHOLD)
           /\ failed(ep).consecutiveFailures = ep.consecutiveFailures + 1
           /\ failed(ep).sinceFailure = 0
<1> DEFINE healthy == ep.healthy /\ ep.consecutiveFailures + 1 < UNHEALTHY_THRESHOLD
<1>1. /\ ep.consecutiveFailures + 1 \in Nat
      /\ 0 \in 0 .. LongAgo
  BY ConfigAssumption DEF EndpointState, LongAgo
<1>2. healthy \in BOOLEAN
  BY Zenon
<1>3. failed(ep) = [ep EXCEPT !.consecutiveFailures = ep.consecutiveFailures + 1,
                              !.sinceFailure = 0, !.healthy = healthy]
  BY Zenon DEF failed
<1> HIDE DEF healthy
<1>4. /\ failed(ep) \in EndpointState
      /\ failed(ep).healthy = healthy
      /\ failed(ep).consecutiveFailures = ep.consecutiveFailures + 1
      /\ failed(ep).sinceFailure = 0
  BY <1>1, <1>2, <1>3, Zenon DEF EndpointState
<1> QED
  BY <1>4, Zenon DEF healthy

\* An answered request (recordSuccess) restores its endpoint and dates nothing.
LEMMA SuccessHealth ==
    ASSUME EndpointInv, NEW e, recordSuccess(e)
    PROVE  EndpointInv' /\ Quarantined
<1>1. e \in Endpoints => endpoints[e] \in EndpointState
  BY Zenon DEF EndpointInv, EndpointsTyped
<1>2. e \in Endpoints => endpoints[e].sinceFailure \in 0 .. LongAgo
  BY <1>1, Zenon DEF EndpointState
<1>3. LongAgo \in 0 .. LongAgo /\ LongAgo > RECOVERY_COOLDOWN - HealthTimeout
  BY ConfigAssumption DEF LongAgo
<1>4. e \in Endpoints =>
        /\ restored(endpoints[e]).healthy
             <=> restored(endpoints[e]).consecutiveFailures < UNHEALTHY_THRESHOLD
        /\ restored(endpoints[e]).sinceFailure <= LongAgo + HealthTimeout
  <2>1. 0 < UNHEALTHY_THRESHOLD
    BY ConfigAssumption
  <2>2. \A age \in 0 .. LongAgo : age <= LongAgo + HealthTimeout
    BY ConfigAssumption DEF LongAgo
  <2> QED
    BY <1>1, <1>2, <2>1, <2>2, RestoredState, Zenon
<1>5. /\ endpoints' = [endpoints EXCEPT ![e] = restored(endpoints[e])]
      /\ seen' = [seen EXCEPT ![e] = LongAgo]
  BY Zenon DEF recordSuccess
<1> QED
  BY <1>1, <1>3, <1>4, <1>5, RestoredState, OneEndpoint, Zenon

\* A failed request (recordFailure) can only take its endpoint out of rotation.
LEMMA FailureHealth ==
    ASSUME EndpointInv, NEW e, recordFailure(e)
    PROVE  EndpointInv' /\ Quarantined
<1>1. e \in Endpoints => endpoints[e] \in EndpointState
  BY Zenon DEF EndpointInv, EndpointsTyped
<1>2. e \in Endpoints =>
        (endpoints[e].consecutiveFailures + 1 < UNHEALTHY_THRESHOLD => endpoints[e].healthy)
  BY <1>1, ConfigAssumption DEF EndpointInv, HealthFollowsFailures, EndpointState
<1>3. 0 \in 0 .. LongAgo
  BY ConfigAssumption DEF LongAgo
<1>4. e \in Endpoints =>
        /\ failed(endpoints[e]).healthy
             <=> failed(endpoints[e]).consecutiveFailures < UNHEALTHY_THRESHOLD
        /\ failed(endpoints[e]).healthy => endpoints[e].healthy
  BY <1>1, <1>2, FailedState, Zenon
<1>5. e \in Endpoints => failed(endpoints[e]).sinceFailure <= 0 + HealthTimeout
  BY <1>1, FailedState, ConfigAssumption
<1>6. /\ endpoints' = [endpoints EXCEPT ![e] = failed(endpoints[e])]
      /\ seen' = [seen EXCEPT ![e] = 0]
  BY Zenon DEF recordFailure
<1> QED
  BY <1>1, <1>3, <1>4, <1>5, <1>6, FailedState, OneEndpoint, Zenon

\* The endpoints that getBestEndpoint returns to rotation have cooled down.
LEMMA RecoveredHealth ==
    ASSUME EndpointInv
    PROVE  /\ recovered \in [Endpoints -> EndpointState]
           /\ \A e \in Endpoints :
                /\ recovered[e].healthy
                     <=> recovered[e].consecutiveFailures < UNHEALTHY_THRESHOLD
                /\ recovered[e].sinceFailure = endpoints[e].sinceFailure
                /\ endpoints[e].healthy => recovered[e].healthy
                /\ recovered[e].healthy /\ ~endpoints[e].healthy
                     => endpoints[e].sinceFailure > RECOVERY_COOLDOWN
<1> SUFFICES ASSUME NEW e \in Endpoints
             PROVE  /\ recovered[e] \in EndpointState
                    /\ recovered[e].healthy
                         <=> recovered[e].consecutiveFailures < UNHEALTHY_THRESHOLD
                    /\ recovered[e].sinceFailure = endpoints[e].sinceFailure
                    /\ endpoints[e].healthy => recovered[e].healthy
                    /\ recovered[e].healthy /\ ~endpoints[e].healthy
                         => endpoints[e].sinceFailure > RECOVERY_COOLDOWN
  BY Zenon DEF recovered
<1>1. endpoints[e] \in EndpointState
  BY Zenon DEF EndpointInv, EndpointsTyped
<1>2. CASE ~endpoints[e].healthy /\ endpoints[e].sinceFailure > RECOVERY_COOLDOWN
  <2>1. recovered[e] = restored(endpoints[e])
    BY <1>2, Zenon DEF recovered
  <2>2. 0 < UNHEALTHY_THRESHOLD
    BY ConfigAssumption
  <2> QED
    BY <1>1, <1>2, <2>1, <2>2, RestoredState, Zenon
<1>3. CASE ~(~endpoints[e].healthy /\ endpoints[e].sinceFailure > RECOVERY_COOLDOWN)
  <2>1. recovered[e] = endpoints[e]
    BY <1>3, Zenon DEF recovered
  <2> QED
    BY <1>1, <2>1, Zenon DEF EndpointInv, HealthFollowsFailures
<1> QED
  BY <1>2, <1>3, Zenon

\* Choosing an endpoint (getBestEndpoint) restores cooled down ones, or one when
\* all are down.
LEMMA ChoiceHealth ==
    ASSUME EndpointInv, NEW ep \in Endpoints, getBestEndpoint(ep)
    PROVE  EndpointInv' /\ Quarantined
<1>0. UNCHANGED seen
  BY Zenon DEF getBestEndpoint
<1>a. \A e \in Endpoints : seen[e] \in 0 .. LongAgo /\ endpoints[e].sinceFailure \in Nat
  BY ConfigAssumption DEF EndpointInv, EndpointsTyped, EndpointState, LongAgo
<1>1. CASE endpoints' = recovered
  <2>1. EndpointsTyped' /\ HealthFollowsFailures' /\ FailuresDated'
    BY <1>0, <1>1, RecoveredHealth, Zenon
       DEF EndpointInv, EndpointsTyped, FailuresDated, HealthFollowsFailures
  <2>2. ASSUME NEW e \in Endpoints, ~endpoints[e].healthy, endpoints'[e].healthy
        PROVE  seen'[e] > RECOVERY_COOLDOWN - HealthTimeout
    <3>1. endpoints[e].sinceFailure > RECOVERY_COOLDOWN
      BY <1>1, <2>2, RecoveredHealth, Zenon
    <3>2. endpoints[e].sinceFailure <= seen[e] + HealthTimeout
      BY Zenon DEF EndpointInv, FailuresDated
    <3> QED
      BY <1>0, <1>a, <3>1, <3>2, ConfigAssumption DEF LongAgo
  <2> QED
    BY <2>1, <2>2, Zenon DEF EndpointInv, Quarantined
<1>2. CASE /\ \A e \in Endpoints : ~recovered[e].healthy
           /\ endpoints' = [recovered EXCEPT ![ep] = restored(@)]
  <2>1. EndpointInv'
    <3>1. recovered[ep] \in EndpointState
      BY RecoveredHealth, Zenon
    <3>2. /\ restored(recovered[ep]) \in EndpointState
          /\ restored(recovered[ep]).healthy = TRUE
          /\ restored(recovered[ep]).consecutiveFailures = 0
          /\ restored(recovered[ep]).sinceFailure = endpoints[ep].sinceFailure
      BY <3>1, RecoveredHealth, RestoredState, Zenon
    <3>3. endpoints' = [e \in Endpoints |->
                          IF e = ep THEN restored(recovered[ep]) ELSE recovered[e]]
      BY <1>2, RecoveredHealth, Zenon
    <3>4. EndpointsTyped'
      BY <1>0, <3>2, <3>3, RecoveredHealth, Zenon DEF EndpointInv, EndpointsTyped
    <3>5. HealthFollowsFailures'
      BY <3>2, <3>3, RecoveredHealth, ConfigAssumption DEF HealthFollowsFailures
    <3>6. FailuresDated'
      BY <1>0, <3>2, <3>3, RecoveredHealth, Zenon DEF EndpointInv, FailuresDated
    <3> QED
      BY <3>4, <3>5, <3>6, Zenon DEF EndpointInv
  <2>2. \A f \in Endpoints : ~endpoints[f].healthy
    BY <1>2, RecoveredHealth, Zenon
  <2> QED
    BY <2>1, <2>2, Zenon DEF Quarantined
<1> QED
  BY <1>1, <1>2, Zenon DEF getBestEndpoint

\* The loop of runHealthChecks starts the clock of each request anew.
LEMMA NextCheckInTime ==
    ASSUME NEW eps, NEW from, check_from(eps, from)
    PROVE  CheckInTime'
BY ConfigAssumption DEF check_from, CheckInTime

\* Steps that leave the endpoints alone.
LEMMA QuietHealth ==
    ASSUME EndpointInv, UNCHANGED <<endpoints, seen>>
    PROVE  EndpointInv' /\ Quarantined
BY Zenon DEF EndpointInv, EndpointsTyped, FailuresDated, HealthFollowsFailures, Quarantined

\* A failed health check leaves the endpoint out of rotation, with the start of the
\* check as the time of the failure.
LEMMA CheckFailsHealth ==
    ASSUME HealthInv, check_fails
    PROVE  EndpointInv' /\ Quarantined
<1> DEFINE e == check.ep
           new == [endpoints[e] EXCEPT !.sinceFailure = check.timer]
<1>1. check.timer \in 0 .. HealthTimeout /\ check.timer \in 0 .. LongAgo
  BY ConfigAssumption DEF check_fails, HealthInv, CheckInTime, LongAgo
<1>2. e \in Endpoints => endpoints[e] \in EndpointState
  BY Zenon DEF HealthInv, EndpointInv, EndpointsTyped
<1>3. e \in Endpoints =>
        /\ new \in EndpointState
        /\ new.healthy = endpoints[e].healthy
        /\ new.consecutiveFailures = endpoints[e].consecutiveFailures
        /\ new.sinceFailure = check.timer
  BY <1>1, <1>2, Zenon DEF EndpointState
<1>4. /\ endpoints' = [endpoints EXCEPT ![e] = new]
      /\ seen' = [seen EXCEPT ![e] = 0]
  BY Zenon DEF check_fails
<1>5. 0 \in 0 .. LongAgo
  BY ConfigAssumption DEF LongAgo
<1> HIDE DEF new, e
<1>6. e \in Endpoints =>
        (new.healthy <=> new.consecutiveFailures < UNHEALTHY_THRESHOLD)
  BY <1>3, Zenon DEF HealthInv, EndpointInv, HealthFollowsFailures
<1>7. e \in Endpoints => new.sinceFailure <= 0 + HealthTimeout
  BY <1>1, <1>3, ConfigAssumption
<1> QED
  BY <1>3, <1>4, <1>5, <1>6, <1>7, OneEndpoint, Zenon DEF HealthInv

\* Time passes for recorded and real failures alike.
LEMMA TickHealth ==
    ASSUME HealthInv, Tick
    PROVE  HealthInv' /\ Quarantined
<1> DEFINE aged(ep) == [ep EXCEPT !.sinceFailure = Older(@)]
<1>a. ASSUME NEW ep \in EndpointState
      PROVE  /\ aged(ep) \in EndpointState
             /\ aged(ep).healthy = ep.healthy
             /\ aged(ep).consecutiveFailures = ep.consecutiveFailures
             /\ aged(ep).sinceFailure = Older(ep.sinceFailure)
             /\ ep.sinceFailure \in 0 .. LongAgo
  BY ConfigAssumption DEF EndpointState, Older, LongAgo
<1>b. ASSUME NEW x \in 0 .. LongAgo, NEW y \in 0 .. LongAgo, x <= y + HealthTimeout
      PROVE  Older(x) <= Older(y) + HealthTimeout /\ Older(y) \in 0 .. LongAgo
  BY <1>b, ConfigAssumption DEF Older, LongAgo
<1>c. /\ endpoints' = [e \in Endpoints |-> aged(endpoints[e])]
      /\ seen' = [e \in Endpoints |-> Older(seen[e])]
  BY Zenon DEF Tick
<1>d. \A e \in Endpoints : endpoints[e] \in EndpointState /\ seen[e] \in 0 .. LongAgo
  BY Zenon DEF HealthInv, EndpointInv, EndpointsTyped
<1> HIDE DEF aged
<1>e. \A e \in Endpoints : endpoints[e].sinceFailure <= seen[e] + HealthTimeout
  BY Zenon DEF HealthInv, EndpointInv, FailuresDated
<1>f. EndpointsTyped'
  BY <1>a, <1>b, <1>c, <1>d, <1>e, Zenon DEF EndpointsTyped
<1>g. HealthFollowsFailures' /\ Quarantined
  BY <1>a, <1>c, <1>d, Zenon DEF HealthInv, EndpointInv, HealthFollowsFailures, Quarantined
<1>h. FailuresDated'
  BY <1>a, <1>b, <1>c, <1>d, <1>e, Zenon DEF FailuresDated
<1>1. EndpointInv' /\ Quarantined
  BY <1>f, <1>g, <1>h, Zenon DEF EndpointInv
<1>2. CheckInTime'
  BY ConfigAssumption DEF Tick, HealthInv, CheckInTime
<1> QED
  BY <1>1, <1>2, Zenon DEF HealthInv

\* Every step keeps the invariant and the quarantine.
LEMMA NextHealth ==
    ASSUME HealthInv, [Next]_vars
    PROVE  HealthInv' /\ Quarantined
<1> USE DEF HealthInv
<1>1. CASE Tick
  BY <1>1, TickHealth, Zenon
<1>2. CASE getClient
  <2>1. CheckInTime'
    BY <1>2, Zenon DEF getClient, CheckInTime
  <2> QED
    BY <1>2, <2>1, ChoiceHealth, Zenon DEF getClient
<1>3. ASSUME NEW c \in Callers, execute(c) \/ retry(c)
      PROVE  HealthInv' /\ Quarantined
  <2>1. PICK attempt : request(c, attempt)
    BY <1>3, Zenon DEF execute, retry
  <2>2. CheckInTime'
    BY <2>1, Zenon DEF request, CheckInTime
  <2> QED
    BY <2>1, <2>2, ChoiceHealth, Zenon DEF request
<1>4. ASSUME NEW c \in Callers, settle(c)
      PROVE  HealthInv' /\ Quarantined
  <2>1. CASE succeed(c)
    BY <2>1, SuccessHealth, Zenon DEF succeed, CheckInTime
  <2>2. ASSUME NEW outcome, fail(c, outcome)
        PROVE  HealthInv' /\ Quarantined
    BY <2>2, FailureHealth, Zenon DEF fail, CheckInTime
  <2> QED
    BY <1>4, <2>1, <2>2, Zenon DEF settle
<1>5. CASE runHealthChecks
  BY <1>5, QuietHealth, NextCheckInTime, Zenon DEF runHealthChecks
<1>6. CASE check_passes
  BY <1>6, SuccessHealth, NextCheckInTime, Zenon DEF check_passes
<1>7. CASE check_fails
  BY <1>7, CheckFailsHealth, NextCheckInTime, Zenon DEF check_fails
<1>8. CASE UNCHANGED vars
  BY <1>8, QuietHealth, Zenon DEF vars, CheckInTime
<1> QED
  BY <1>1, <1>2, <1>3, <1>4, <1>5, <1>6, <1>7, <1>8, Zenon DEF Next, Step

\* The inductive invariant of the health tracking.
THEOREM HealthInvariant == Spec => []HealthInv
<1>1. HealthInv /\ [Next]_vars => HealthInv'
  BY NextHealth, Zenon
<1> QED
  BY InitHealth, <1>1, PTL DEF Spec

\* An endpoint is in rotation exactly while it has fewer than UNHEALTHY_THRESHOLD
\* failures in a row, whatever interleaves.
THEOREM HealthIsCoherent == Spec => []HealthFollowsFailures
<1>1. HealthInv => HealthFollowsFailures
  BY Zenon DEF HealthInv, EndpointInv
<1> QED
  BY HealthInvariant, <1>1, PTL

\* getBestEndpoint does not return an endpoint to rotation before its cooldown, less
\* the time limit of one health check, unless all are down.
THEOREM QuarantineIsKept == Spec => QuarantineHolds
<1>1. HealthInv /\ [Next]_vars => [Quarantined]_vars
  BY NextHealth, Zenon
<1> QED
  BY HealthInvariant, <1>1, PTL DEF Spec, QuarantineHolds, Quarantined

----------------------------------------------------------------------------
(* Calls *)

CallType ==
    [phase : {"idle", "waiting", "sleeping", "resolved", "rejected"},
     attempt : 0 .. maxRetries, ep : Endpoints, timer : Nat]

\* A call that sleeps has an attempt left.
CallInv ==
    /\ currentIndex \in Endpoints
    /\ call \in [Callers -> CallType]
    /\ check \in [phase : {"idle", "waiting"}, ep : Endpoints, timer : Nat]
    /\ \A c \in Callers : call[c].phase = "sleeping" => call[c].attempt < maxRetries

\* No call and no check runs at the start.
LEMMA InitCalls == Init => CallInv
BY ConfigAssumption DEF Init, CallInv, CallType, Endpoints

\* The index of the next endpoint (rotateEndpoint) wraps around.
LEMMA RotateInRange ==
    ASSUME currentIndex \in Endpoints, rotateEndpoint
    PROVE  currentIndex' \in Endpoints
<1>1. (currentIndex + 1) % N \in 0 .. N - 1
  BY ConfigAssumption DEF Endpoints
<1> QED
  BY <1>1, Zenon DEF rotateEndpoint, Endpoints

\* The health check goes to an existing endpoint or ends.
LEMMA CheckInRange ==
    ASSUME NEW eps, NEW from \in Nat, check_from(eps, from)
    PROVE  check' \in [phase : {"idle", "waiting"}, ep : Endpoints, timer : Nat]
BY ConfigAssumption DEF check_from, to_check, Endpoints

\* One call changes.
LEMMA OneCall ==
    ASSUME CallInv, NEW c \in Callers, NEW new \in CallType,
           call' = [call EXCEPT ![c] = new],
           new.phase = "sleeping" => new.attempt < maxRetries,
           currentIndex' \in Endpoints, UNCHANGED check
    PROVE  CallInv'
BY Zenon DEF CallInv

\* An attempt starts.
LEMMA RequestCalls ==
    ASSUME CallInv, NEW c \in Callers, NEW attempt \in 0 .. maxRetries, request(c, attempt)
    PROVE  CallInv'
<1>1. PICK ep \in Endpoints :
        /\ getBestEndpoint(ep)
        /\ call' = [call EXCEPT ![c] =
             [phase |-> "waiting", attempt |-> attempt, ep |-> ep, timer |-> 0]]
        /\ UNCHANGED check
  BY Zenon DEF request
<1> DEFINE new == [phase |-> "waiting", attempt |-> attempt, ep |-> ep, timer |-> 0]
<1>2. new \in CallType /\ new.phase # "sleeping"
  BY Zenon DEF CallType
<1>3. currentIndex' \in Endpoints
  BY <1>1, Zenon DEF getBestEndpoint, CallInv
<1> HIDE DEF new
<1>4. call' = [call EXCEPT ![c] = new]
  BY <1>1, Zenon DEF new
<1> QED
  BY <1>1, <1>2, <1>3, <1>4, OneCall, Zenon

\* An attempt fails: the call sleeps if attempts are left, and is rejected if not.
LEMMA FailCalls ==
    ASSUME CallInv, NEW c \in Callers, NEW outcome, fail(c, outcome)
    PROVE  CallInv'
<1>0. call[c] \in CallType
  BY Zenon DEF CallInv
<1>1. currentIndex' \in Endpoints /\ UNCHANGED check
  BY RotateInRange, Zenon DEF fail, CallInv
<1>2. CASE /\ call[c].attempt < maxRetries
           /\ \E delay \in 0 .. calculateBackoff(call[c].attempt) :
                call' = [call EXCEPT ![c].phase = "sleeping", ![c].timer = delay]
  <2>1. PICK delay \in 0 .. calculateBackoff(call[c].attempt) :
          call' = [call EXCEPT ![c].phase = "sleeping", ![c].timer = delay]
    BY <1>2, Zenon
  <2> DEFINE new == [call[c] EXCEPT !.phase = "sleeping", !.timer = delay]
  <2>2. delay \in Nat
    OBVIOUS
  <2>3. new \in CallType /\ new.attempt = call[c].attempt
    BY <1>0, <2>2, Zenon DEF CallType
  <2>4. call' = [call EXCEPT ![c] = new]
    BY <2>1, Zenon DEF CallInv
  <2> HIDE DEF new
  <2> QED
    BY <1>1, <1>2, <2>3, <2>4, OneCall, Zenon
<1>3. CASE call' = [call EXCEPT ![c].phase = "rejected", ![c].timer = 0]
  <2> DEFINE new == [call[c] EXCEPT !.phase = "rejected", !.timer = 0]
  <2>1. new \in CallType /\ new.phase # "sleeping"
    BY <1>0, Zenon DEF CallType
  <2>2. call' = [call EXCEPT ![c] = new]
    BY <1>3, Zenon DEF CallInv
  <2> HIDE DEF new
  <2> QED
    BY <1>1, <2>1, <2>2, OneCall, Zenon
<1> QED
  BY <1>2, <1>3, Zenon DEF fail, after_failure

\* An attempt succeeds.
LEMMA SucceedCalls ==
    ASSUME CallInv, NEW c \in Callers, succeed(c)
    PROVE  CallInv'
<1> DEFINE new == [call[c] EXCEPT !.phase = "resolved", !.timer = 0]
<1>1. new \in CallType /\ new.phase # "sleeping"
  BY Zenon DEF CallType, CallInv
<1>2. call' = [call EXCEPT ![c] = new]
  BY Zenon DEF succeed, CallInv
<1> HIDE DEF new
<1> QED
  BY <1>1, <1>2, OneCall, Zenon DEF succeed, CallInv

\* What time does to a call.
LEMMA TickCalls ==
    ASSUME CallInv, Tick
    PROVE  /\ CallInv'
           /\ \A c \in Callers : /\ call'[c].phase = call[c].phase
                                 /\ call'[c].attempt = call[c].attempt
<1>1. ASSUME NEW c \in Callers
      PROVE  /\ call'[c] \in CallType
             /\ call'[c].phase = call[c].phase
             /\ call'[c].attempt = call[c].attempt
  <2>0. call[c] \in CallType
    BY Zenon DEF CallInv
  <2>1. CASE call[c].phase = "waiting"
    <3>1. call'[c] = [call[c] EXCEPT !.timer = call[c].timer + 1]
      BY <2>1, Zenon DEF Tick
    <3> QED
      BY <2>0, <3>1 DEF CallType
  <2>2. CASE call[c].phase = "sleeping"
    <3>1. call'[c] = [call[c] EXCEPT !.timer = call[c].timer - 1] /\ call[c].timer > 0
      BY <2>2, Zenon DEF Tick
    <3> QED
      BY <2>0, <3>1 DEF CallType
  <2>3. CASE call[c].phase \notin {"waiting", "sleeping"}
    <3>1. call'[c] = call[c]
      BY <2>3, Zenon DEF Tick
    <3> QED
      BY <2>0, <3>1, Zenon
  <2> QED
    BY <2>1, <2>2, <2>3, Zenon
<1>2. call' = [c \in Callers |-> call'[c]]
  BY Zenon DEF Tick
<1>3. check' \in [phase : {"idle", "waiting"}, ep : Endpoints, timer : Nat]
  BY DEF Tick, CallInv
<1>4. UNCHANGED currentIndex
  BY Zenon DEF Tick
<1> QED
  BY <1>1, <1>2, <1>3, <1>4, Zenon DEF CallInv

\* Every step keeps the invariant of the calls.
LEMMA NextCalls ==
    ASSUME CallInv, [Next]_vars
    PROVE  CallInv'
<1>1. CASE Tick
  BY <1>1, TickCalls, Zenon
<1>2. CASE getClient
  BY <1>2, Zenon DEF getClient, getBestEndpoint, CallInv
<1>3. ASSUME NEW c \in Callers, execute(c)
      PROVE  CallInv'
  BY <1>3, RequestCalls, ConfigAssumption DEF execute
<1>4. ASSUME NEW c \in Callers, retry(c)
      PROVE  CallInv'
  <2>1. call[c].attempt + 1 \in 0 .. maxRetries
    BY <1>4, ConfigAssumption DEF retry, CallInv, CallType
  <2> QED
    BY <1>4, <2>1, RequestCalls, Zenon DEF retry
<1>5. ASSUME NEW c \in Callers, settle(c)
      PROVE  CallInv'
  BY <1>5, SucceedCalls, FailCalls, Zenon DEF settle
<1>6. CASE runHealthChecks
  BY <1>6, CheckInRange, Zenon DEF runHealthChecks, CallInv
<1>7. CASE check_passes \/ check_fails
  <2>1. check.ep + 1 \in Nat
    BY ConfigAssumption DEF CallInv, Endpoints
  <2>2. check' \in [phase : {"idle", "waiting"}, ep : Endpoints, timer : Nat]
    BY <1>7, <2>1, CheckInRange, Zenon DEF check_passes, check_fails
  <2> QED
    BY <1>7, <2>2, Zenon DEF check_passes, check_fails, CallInv
<1>8. CASE UNCHANGED vars
  BY <1>8, Zenon DEF vars, CallInv
<1> QED
  BY <1>1, <1>2, <1>3, <1>4, <1>5, <1>6, <1>7, <1>8, Zenon DEF Next, Step

\* The inductive invariant of the calls.
THEOREM CallInvariant == Spec => []CallInv
<1>1. CallInv /\ [Next]_vars => CallInv'
  BY NextCalls, Zenon
<1> QED
  BY InitCalls, <1>1, PTL DEF Spec

\* The index of rotateEndpoint stays in the pool, no call makes more than maxRetries
\* attempts, and no timer runs below zero.
THEOREM ClientIsTyped == Spec => []TypeOK
<1>1. HealthInv /\ CallInv => TypeOK
  BY Zenon DEF HealthInv, EndpointInv, EndpointsTyped, EndpointState, CallInv, CallType, TypeOK
<1> QED
  BY HealthInvariant, CallInvariant, <1>1, PTL

----------------------------------------------------------------------------
(* Refinement of RpcCalls *)

Pending(c) == call[c].phase \in {"waiting", "sleeping"}

\* The refinement mapping of Calls, by name.
PhaseOf == [c \in Callers |-> IF Pending(c) THEN "pending" ELSE call[c].phase]

InvokedOf == [c \in Callers |-> call[c].attempt]

\* The actions of RpcCalls, spelt with PhaseOf and InvokedOf.
LEMMA MappingIs ==
    /\ Calls!Init <=> /\ PhaseOf = [c \in Callers |-> "idle"]
                      /\ InvokedOf = [c \in Callers |-> 0]
    /\ \A c \in Callers :
         /\ Calls!Begin(c) <=>
              /\ PhaseOf[c] # "pending"
              /\ PhaseOf' = [PhaseOf EXCEPT ![c] = "pending"]
              /\ InvokedOf' = [InvokedOf EXCEPT ![c] = 1]
         /\ Calls!InvokeAgain(c) <=>
              /\ PhaseOf[c] = "pending"
              /\ InvokedOf[c] < maxRetries
              /\ InvokedOf' = [InvokedOf EXCEPT ![c] = @ + 1]
              /\ PhaseOf' = PhaseOf
         /\ Calls!Resolve(c) <=>
              /\ PhaseOf[c] = "pending"
              /\ PhaseOf' = [PhaseOf EXCEPT ![c] = "resolved"]
              /\ InvokedOf' = InvokedOf
         /\ Calls!Reject(c) <=>
              /\ PhaseOf[c] = "pending"
              /\ InvokedOf[c] = maxRetries
              /\ PhaseOf' = [PhaseOf EXCEPT ![c] = "rejected"]
              /\ InvokedOf' = InvokedOf
    /\ (UNCHANGED Calls!callVars) <=> PhaseOf' = PhaseOf /\ InvokedOf' = InvokedOf
BY Zenon DEF PhaseOf, InvokedOf, Pending, Calls!Init, Calls!Begin, Calls!InvokeAgain, Calls!Resolve,
       Calls!Reject, Calls!callVars

\* What becomes of the mapping when one call changes.
LEMMA MappingChanges ==
    ASSUME CallInv, NEW c \in Callers, NEW new \in CallType, call' = [call EXCEPT ![c] = new]
    PROVE  LET p == IF new.phase \in {"waiting", "sleeping"} THEN "pending" ELSE new.phase
           IN  /\ PhaseOf' = [PhaseOf EXCEPT ![c] = p]
               /\ InvokedOf' = [InvokedOf EXCEPT ![c] = new.attempt]
<1>1. \A d \in Callers : call'[d] = IF d = c THEN new ELSE call[d]
  BY Zenon DEF CallInv
<1> DEFINE p == IF new.phase \in {"waiting", "sleeping"} THEN "pending" ELSE new.phase
<1>2. /\ PhaseOf' = [d \in Callers |-> PhaseOf'[d]]
      /\ \A d \in Callers : PhaseOf'[d] = IF d = c THEN p ELSE PhaseOf[d]
  BY <1>1 DEF PhaseOf, Pending
<1>3. /\ InvokedOf' = [d \in Callers |-> InvokedOf'[d]]
      /\ \A d \in Callers : InvokedOf'[d] = IF d = c THEN new.attempt ELSE InvokedOf[d]
  BY <1>1 DEF InvokedOf
<1>4. DOMAIN PhaseOf = Callers /\ DOMAIN InvokedOf = Callers
  BY Zenon DEF PhaseOf, InvokedOf
<1>5. PhaseOf' = [PhaseOf EXCEPT ![c] = p]
  BY <1>2, <1>4, Zenon
<1>6. InvokedOf' = [InvokedOf EXCEPT ![c] = new.attempt]
  BY <1>3, <1>4, Zenon
<1> QED
  BY <1>5, <1>6, Zenon

\* The client starts with no call made.
LEMMA InitRefines == Init => Calls!Init
<1> SUFFICES ASSUME Init PROVE Calls!Init
  BY Zenon
<1>1. \A c \in Callers : call[c].phase = "idle" /\ call[c].attempt = 0
  BY Zenon DEF Init
<1> QED
  BY <1>1, MappingIs, Zenon DEF PhaseOf, InvokedOf, Pending

\* The request of an attempt: the first begins a call, a later one invokes again.
LEMMA RequestRefines ==
    ASSUME CallInv, NEW c \in Callers, NEW attempt \in 0 .. maxRetries, request(c, attempt)
    PROVE  /\ PhaseOf' = [PhaseOf EXCEPT ![c] = "pending"]
           /\ InvokedOf' = [InvokedOf EXCEPT ![c] = attempt]
<1>1. PICK ep \in Endpoints : call' = [call EXCEPT ![c] =
        [phase |-> "waiting", attempt |-> attempt, ep |-> ep, timer |-> 0]]
  BY Zenon DEF request
<1> DEFINE new == [phase |-> "waiting", attempt |-> attempt, ep |-> ep, timer |-> 0]
<1>2. new \in CallType /\ new.phase = "waiting" /\ new.attempt = attempt
  BY Zenon DEF CallType
<1> HIDE DEF new
<1>3. call' = [call EXCEPT ![c] = new]
  BY <1>1, Zenon DEF new
<1> QED
  BY <1>2, <1>3, MappingChanges, Zenon

\* execute begins a call with its first attempt.
LEMMA ExecuteRefines ==
    ASSUME CallInv, NEW c \in Callers, execute(c)
    PROVE  Calls!Begin(c)
<1>1. 1 \in 0 .. maxRetries
  BY ConfigAssumption
<1>2. PhaseOf[c] # "pending"
  BY Zenon DEF execute, PhaseOf, Pending
<1> QED
  BY <1>1, <1>2, RequestRefines, MappingIs, Zenon DEF execute

\* A retry is one more attempt, within maxRetries.
LEMMA RetryRefines ==
    ASSUME CallInv, NEW c \in Callers, retry(c)
    PROVE  Calls!InvokeAgain(c)
<1>1. PhaseOf[c] = "pending" /\ InvokedOf[c] = call[c].attempt
  BY Zenon DEF retry, PhaseOf, InvokedOf, Pending
<1>2. call[c].attempt < maxRetries /\ call[c].attempt + 1 \in 0 .. maxRetries
  BY ConfigAssumption DEF retry, CallInv, CallType
<1>3. /\ PhaseOf' = [PhaseOf EXCEPT ![c] = "pending"]
      /\ InvokedOf' = [InvokedOf EXCEPT ![c] = call[c].attempt + 1]
  BY <1>2, RequestRefines, Zenon DEF retry
<1>4. [PhaseOf EXCEPT ![c] = "pending"] = PhaseOf
  BY <1>1, Zenon DEF PhaseOf
<1>5. InvokedOf' = [InvokedOf EXCEPT ![c] = @ + 1]
  BY <1>1, <1>3, Zenon
<1> QED
  BY <1>1, <1>2, <1>3, <1>4, <1>5, MappingIs, Zenon

\* An answer resolves the call; a failure rejects it after the last attempt only,
\* and is hidden before.
LEMMA SettleRefines ==
    ASSUME CallInv, NEW c \in Callers, settle(c)
    PROVE  Calls!Resolve(c) \/ Calls!Reject(c) \/ UNCHANGED Calls!callVars
<1>0. call[c] \in CallType /\ call[c].phase = "waiting"
  BY Zenon DEF CallInv, settle, succeed, fail
<1>1. /\ PhaseOf[c] = "pending"
      /\ InvokedOf[c] = call[c].attempt
      /\ [PhaseOf EXCEPT ![c] = "pending"] = PhaseOf
      /\ [InvokedOf EXCEPT ![c] = call[c].attempt] = InvokedOf
  BY <1>0, Zenon DEF PhaseOf, InvokedOf, Pending
<1>2. ASSUME NEW phase \in {"resolved", "rejected", "sleeping"}, NEW timer \in Nat,
             call' = [call EXCEPT ![c].phase = phase, ![c].timer = timer]
      PROVE  /\ InvokedOf' = InvokedOf
             /\ phase = "sleeping" => PhaseOf' = PhaseOf
             /\ phase # "sleeping" => PhaseOf' = [PhaseOf EXCEPT ![c] = phase]
  <2> DEFINE new == [call[c] EXCEPT !.phase = phase, !.timer = timer]
  <2>1. new \in CallType /\ new.phase = phase /\ new.attempt = call[c].attempt
    BY <1>0, Zenon DEF CallType
  <2>2. call' = [call EXCEPT ![c] = new]
    BY <1>2, Zenon DEF CallInv
  <2> HIDE DEF new
  <2> QED
    BY <1>1, <2>1, <2>2, MappingChanges, Zenon
<1>3. CASE succeed(c)
  <2>1. PhaseOf' = [PhaseOf EXCEPT ![c] = "resolved"] /\ InvokedOf' = InvokedOf
    BY <1>2, <1>3, Zenon DEF succeed
  <2> QED
    BY <1>1, <2>1, MappingIs, Zenon
<1>4. ASSUME NEW outcome, fail(c, outcome)
      PROVE  Calls!Reject(c) \/ UNCHANGED Calls!callVars
  <2>1. CASE \E delay \in 0 .. calculateBackoff(call[c].attempt) :
               call' = [call EXCEPT ![c].phase = "sleeping", ![c].timer = delay]
    <3> DEFINE max == calculateBackoff(call[c].attempt)
    <3> HIDE DEF max
    <3>1. PICK delay \in 0 .. max :
            call' = [call EXCEPT ![c].phase = "sleeping", ![c].timer = delay]
      BY <2>1, Zenon DEF max
    <3>2. delay \in Nat
      OBVIOUS
    <3>3. PhaseOf' = PhaseOf /\ InvokedOf' = InvokedOf
      BY <1>2, <3>1, <3>2, Zenon
    <3> QED
      BY <3>3, MappingIs, Zenon
  <2>2. CASE /\ call[c].attempt = maxRetries
             /\ call' = [call EXCEPT ![c].phase = "rejected", ![c].timer = 0]
    <3>1. PhaseOf' = [PhaseOf EXCEPT ![c] = "rejected"] /\ InvokedOf' = InvokedOf
      BY <1>2, <2>2, Zenon
    <3> QED
      BY <1>1, <2>2, <3>1, MappingIs, Zenon
  <2> QED
    BY <1>4, <2>1, <2>2, Zenon DEF fail, after_failure
<1> QED
  BY <1>3, <1>4, Zenon DEF settle

\* Steps that are not of a call leave the mapping alone.
LEMMA OthersRefine ==
    ASSUME CallInv,
           \/ Tick \/ getClient \/ runHealthChecks \/ check_passes \/ check_fails
           \/ UNCHANGED vars
    PROVE  UNCHANGED Calls!callVars
<1>1. CASE UNCHANGED call
  <2>1. PhaseOf' = PhaseOf /\ InvokedOf' = InvokedOf
    BY <1>1, Zenon DEF PhaseOf, InvokedOf, Pending
  <2> QED
    BY <2>1, MappingIs, Zenon
<1>2. CASE Tick
  <2>1. \A c \in Callers : call'[c].phase = call[c].phase /\ call'[c].attempt = call[c].attempt
    BY <1>2, TickCalls, Zenon
  <2>2. PhaseOf' = PhaseOf /\ InvokedOf' = InvokedOf
    BY <2>1, Zenon DEF PhaseOf, InvokedOf, Pending
  <2> QED
    BY <2>2, MappingIs, Zenon
<1> QED
  BY <1>1, <1>2, Zenon DEF getClient, runHealthChecks, check_passes, check_fails, vars

\* Every step of the client is a step of its calls or hidden from them.
LEMMA NextRefines ==
    ASSUME CallInv, [Next]_vars
    PROVE  [Calls!Next]_(Calls!callVars)
<1>1. ASSUME NEW c \in Callers, execute(c) \/ retry(c) \/ settle(c)
      PROVE  Calls!Next \/ UNCHANGED Calls!callVars
  BY <1>1, ExecuteRefines, RetryRefines, SettleRefines, Zenon DEF Calls!Next, Calls!Progress
<1> QED
  BY <1>1, OthersRefine, Zenon DEF Next, Step

\* Each call of execute invokes its operation at least once and at most maxRetries times,
\* one invocation after the other, and is rejected only after the last of them, however
\* calls, health checks and timers interleave: the safety part of CallsKeepPromise.
THEOREM CallsAreBounded == Spec => Calls!SpecSafety
<1>1. CallInv /\ [Next]_vars => [Calls!Next]_(Calls!callVars)
  BY NextRefines, Zenon
<1> QED
  BY InitRefines, CallInvariant, <1>1, PTL DEF Spec, Calls!SpecSafety

----------------------------------------------------------------------------
(* A dead endpoint *)

\* A call k has tried the dead endpoint, now in state ep, no more often than its
\* failures in a row say, so each attempt brings it closer to being out of rotation;
\* once out, it does not cool down while this call waits or sleeps.
CallOutlives(d, k, ep) ==
    /\ k.phase # "rejected"
    /\ k.phase = "waiting" /\ k.ep = d
         => /\ 1 <= k.attempt /\ k.attempt <= UNHEALTHY_THRESHOLD
            /\ k.attempt - 1 <= ep.consecutiveFailures
            /\ k.timer <= requestTimeout
            /\ ~ep.healthy => ep.sinceFailure <= HealthTimeout + k.timer
    /\ k.phase = "sleeping"
         => /\ k.attempt <= UNHEALTHY_THRESHOLD
            /\ k.attempt <= ep.consecutiveFailures
            /\ HealthTimeout + k.timer <= RECOVERY_COOLDOWN
            /\ ep.sinceFailure + k.timer <= RECOVERY_COOLDOWN

\* What holds of the pool and of all calls while d is its only dead endpoint.
Outlives(d) ==
    /\ \A e \in Endpoints \ {d} : endpoints[e].healthy
    /\ \A c \in Callers : CallOutlives(d, call[c], endpoints[d])

\* The strengthening that makes NoCallIsLost inductive.
PoolOutlives == \A d \in Endpoints : Bypassable(d) => Outlives(d)

\* A set of natural numbers that is not empty has a least element.
LEMMA LeastOf ==
    ASSUME NEW S \in SUBSET Nat, S # {}
    PROVE  Min(S) \in S
<1>1. PICK x \in S : \A y \in S : ~(<<y, x>> \in OpToRel(<, Nat))
  BY NatLessThanWellFounded, WFMin, Zenon
<1>2. ASSUME NEW y \in S PROVE x <= y
  <2>1. x \in Nat /\ y \in Nat
    BY Zenon
  <2>2. ~(y < x)
    BY <1>1, <2>1, Zenon DEF OpToRel
  <2> QED
    BY <2>1, <2>2
<1> QED
  BY <1>2, Zenon DEF Min

\* Going round the pool from any index reaches every endpoint.
LEMMA Reaches ==
    ASSUME NEW from \in Endpoints, NEW e \in Endpoints
    PROVE  \E i \in Endpoints : (from + i) % N = e
<1>1. N \in Nat /\ N > 0 /\ from \in 0 .. N - 1 /\ e \in 0 .. N - 1
  BY ConfigAssumption DEF Endpoints
<1>2. CASE e >= from
  <2>1. e - from \in Endpoints /\ from + (e - from) = e
    BY <1>1, <1>2 DEF Endpoints
  <2>2. e % N = e
    BY <1>1
  <2> QED
    BY <2>1, <2>2, Zenon
<1>3. CASE e < from
  <2>1. e - from + N \in Endpoints /\ from + (e - from + N) = e + N
    BY <1>1, <1>3 DEF Endpoints
  <2>2. (e + N) % N = e
    BY <1>1
  <2> QED
    BY <2>1, <2>2, Zenon
<1> QED
  BY <1>1, <1>2, <1>3

\* getBestEndpoint picks an endpoint in rotation when there is one.
LEMMA PicksHealthy ==
    ASSUME CallInv, NEW ep \in Endpoints, getBestEndpoint(ep),
           NEW e \in Endpoints, recovered[e].healthy
    PROVE  /\ recovered[ep].healthy
           /\ endpoints' = recovered
<1> DEFINE S == {i \in Endpoints : recovered[(currentIndex + i) % N].healthy}
<1>1. /\ ep = firstHealthy(recovered)
      /\ endpoints' = recovered
  BY Zenon DEF getBestEndpoint
<1>2. S \in SUBSET Nat /\ S # {}
  <2>1. S \in SUBSET Nat
    BY ConfigAssumption DEF Endpoints
  <2>2. PICK i \in Endpoints : (currentIndex + i) % N = e
    BY Reaches, Zenon DEF CallInv
  <2>3. i \in S
    BY <2>2, Zenon
  <2> QED
    BY <2>1, <2>3, Zenon
<1>3. Min(S) \in S
  BY <1>2, LeastOf, Zenon
<1>4. ep = (currentIndex + Min(S)) % N
  BY <1>1, Zenon DEF firstHealthy
<1> QED
  BY <1>1, <1>3, <1>4, Zenon

\* The numbers in the state of a call and of an endpoint, and those of the configuration.
LEMMA Numbers ==
    ASSUME NEW k \in CallType, NEW ep \in EndpointState
    PROVE  /\ k.attempt \in Nat /\ k.timer \in Nat
           /\ ep.consecutiveFailures \in Nat /\ ep.sinceFailure \in Nat
           /\ HealthTimeout \in Nat /\ requestTimeout \in Nat
           /\ RECOVERY_COOLDOWN \in Nat /\ UNHEALTHY_THRESHOLD \in Nat \ {0}
BY ConfigAssumption DEF CallType, EndpointState, LongAgo

\* A failure of the dead endpoint counts for every call that has tried it.
LEMMA OutlivesFailure ==
    ASSUME NEW d, NEW k \in CallType, NEW ep \in EndpointState, CallOutlives(d, k, ep)
    PROVE  CallOutlives(d, k, failed(ep))
<1>1. /\ failed(ep).consecutiveFailures = ep.consecutiveFailures + 1
      /\ failed(ep).sinceFailure = 0
  BY FailedState, Zenon
<1> QED
  BY <1>1, Numbers DEF CallOutlives

\* A failed health check dates the failure back by less than what the calls have left.
LEMMA OutlivesCheck ==
    ASSUME NEW d, NEW k \in CallType, NEW ep \in EndpointState, CallOutlives(d, k, ep),
           NEW new \in EndpointState, new.sinceFailure <= HealthTimeout,
           new.consecutiveFailures = ep.consecutiveFailures
    PROVE  CallOutlives(d, k, new)
<1>1. new.sinceFailure \in Nat
  BY Numbers, Zenon
<1> QED
  BY <1>1, Numbers DEF CallOutlives

\* The dead endpoint is not brought back while a call waits for it or sleeps.
LEMMA OutlivesRecovery ==
    ASSUME EndpointInv, NEW d \in Endpoints, Bypassable(d), NEW k \in CallType,
           CallOutlives(d, k, endpoints[d])
    PROVE  CallOutlives(d, k, recovered[d])
<1>1. endpoints[d] \in EndpointState
  BY Zenon DEF EndpointInv, EndpointsTyped
<1>2. CASE ~endpoints[d].healthy /\ endpoints[d].sinceFailure > RECOVERY_COOLDOWN
  <2>1. ~(k.phase = "waiting" /\ k.ep = d)
    BY <1>1, <1>2, Numbers DEF CallOutlives, Bypassable
  <2>2. k.phase # "sleeping"
    BY <1>1, <1>2, Numbers DEF CallOutlives
  <2> QED
    BY <2>1, <2>2, Zenon DEF CallOutlives
<1>3. CASE ~(~endpoints[d].healthy /\ endpoints[d].sinceFailure > RECOVERY_COOLDOWN)
  <2>1. recovered[d] = endpoints[d]
    BY <1>3, Zenon DEF recovered
  <2> QED
    BY <2>1, Zenon
<1> QED
  BY <1>2, <1>3, Zenon

\* One call changes and the dead endpoint changes: what is left to show.
LEMMA OneOutlives ==
    ASSUME CallInv, NEW d, NEW c \in Callers, NEW new, call' = [call EXCEPT ![c] = new],
           \A e \in Endpoints \ {d} : endpoints'[e].healthy,
           CallOutlives(d, new, endpoints'[d]),
           \A b \in Callers : CallOutlives(d, call[b], endpoints'[d])
    PROVE  Outlives(d)'
<1>1. \A b \in Callers : call'[b] = IF b = c THEN new ELSE call[b]
  BY Zenon DEF CallInv
<1>2. \A b \in Callers : CallOutlives(d, call'[b], endpoints'[d])
  BY <1>1, Zenon
<1> QED
  BY <1>2, Zenon DEF Outlives, CallOutlives

\* The choice of an endpoint in such a pool: the endpoints that answer stay in
\* rotation, and the one picked is in rotation.
LEMMA ChoiceOutlives ==
    ASSUME EndpointInv, CallInv, NEW d \in Endpoints, Bypassable(d), Outlives(d),
           NEW ep \in Endpoints, getBestEndpoint(ep)
    PROVE  /\ \A e \in Endpoints \ {d} : endpoints'[e].healthy
           /\ endpoints'[d] = recovered[d]
           /\ recovered[ep].healthy
           /\ \A b \in Callers : CallOutlives(d, call[b], endpoints'[d])
<1>1. PICK e \in Endpoints : e # d
  <2>1. 0 \in Endpoints /\ 1 \in Endpoints
    BY ConfigAssumption DEF Endpoints, Bypassable
  <2> QED
    BY <2>1
<1>2. \A f \in Endpoints \ {d} : recovered[f].healthy
  BY RecoveredHealth, Zenon DEF Outlives
<1>3. recovered[ep].healthy /\ endpoints' = recovered
  BY <1>1, <1>2, PicksHealthy, Zenon
<1>4. \A b \in Callers : CallOutlives(d, call[b], recovered[d])
  BY OutlivesRecovery, Zenon DEF Outlives, CallInv
<1> QED
  BY <1>2, <1>3, <1>4, Zenon

\* The first attempt of a call, and a retry.
LEMMA RequestOutlives ==
    ASSUME EndpointInv, CallInv, NEW d \in Endpoints, Bypassable(d), Outlives(d),
           NEW c \in Callers, execute(c) \/ retry(c)
    PROVE  Outlives(d)'
<1>1. PICK attempt :
        /\ request(c, attempt)
        /\ \/ attempt = 1
           \/ /\ call[c].phase = "sleeping" /\ call[c].timer = 0
              /\ attempt = call[c].attempt + 1
  BY Zenon DEF execute, retry
<1>2. PICK ep \in Endpoints :
        /\ getBestEndpoint(ep)
        /\ call' = [call EXCEPT ![c] =
             [phase |-> "waiting", attempt |-> attempt, ep |-> ep, timer |-> 0]]
  BY <1>1, Zenon DEF request
<1> DEFINE new == [phase |-> "waiting", attempt |-> attempt, ep |-> ep, timer |-> 0]
<1>3. /\ \A e \in Endpoints \ {d} : endpoints'[e].healthy
      /\ endpoints'[d] = recovered[d]
      /\ recovered[ep].healthy
      /\ \A b \in Callers : CallOutlives(d, call[b], endpoints'[d])
  BY <1>2, ChoiceOutlives, Zenon
<1>4. /\ new.phase = "waiting" /\ new.attempt = attempt /\ new.ep = ep /\ new.timer = 0
      /\ call' = [call EXCEPT ![c] = new]
  BY <1>2, Zenon
<1> HIDE DEF new
<1>5. call[c] \in CallType /\ recovered[d] \in EndpointState
  BY RecoveredHealth, Zenon DEF CallInv
<1>6. ep = d => /\ recovered[d].healthy
                /\ recovered[d].consecutiveFailures < UNHEALTHY_THRESHOLD
  BY <1>3, RecoveredHealth, Zenon
<1>7. ep = d => 1 <= attempt /\ attempt <= UNHEALTHY_THRESHOLD
                /\ attempt - 1 <= recovered[d].consecutiveFailures
  <2>1. CASE attempt = 1
    BY <1>5, <2>1, Numbers
  <2>2. CASE call[c].phase = "sleeping" /\ attempt = call[c].attempt + 1
    <3>1. call[c].attempt <= recovered[d].consecutiveFailures
      BY <1>3, <2>2, Zenon DEF CallOutlives
    <3> QED
      BY <1>5, <1>6, <2>2, <3>1, Numbers
  <2> QED
    BY <1>1, <2>1, <2>2, Zenon
<1>8. CallOutlives(d, new, endpoints'[d])
  <2>1. 0 <= requestTimeout
    BY ConfigAssumption
  <2> QED
    BY <1>3, <1>4, <1>6, <1>7, <2>1, Zenon DEF CallOutlives
<1> QED
  BY <1>3, <1>4, <1>8, OneOutlives, Zenon

\* An endpoint that answers is not the dead one, and stays in rotation.
LEMMA AnswerOutlives ==
    ASSUME EndpointInv, NEW d \in Endpoints, Bypassable(d), Outlives(d),
           NEW e \in Endpoints, "ok" \in answers[e], recordSuccess(e)
    PROVE  /\ \A f \in Endpoints \ {d} : endpoints'[f].healthy
           /\ endpoints'[d] = endpoints[d]
<1>1. e # d
  BY Zenon DEF Bypassable
<1>2. \A f \in Endpoints : endpoints'[f] = IF f = e THEN restored(endpoints[e]) ELSE endpoints[f]
  BY Zenon DEF recordSuccess, EndpointInv, EndpointsTyped
<1>3. restored(endpoints[e]).healthy
  BY RestoredState, Zenon DEF EndpointInv, EndpointsTyped
<1> QED
  BY <1>1, <1>2, <1>3, Zenon DEF Outlives

\* A call is answered.
LEMMA SucceedOutlives ==
    ASSUME EndpointInv, CallInv, NEW d \in Endpoints, Bypassable(d), Outlives(d),
           NEW c \in Callers, succeed(c)
    PROVE  Outlives(d)'
<1> DEFINE new == [call[c] EXCEPT !.phase = "resolved", !.timer = 0]
<1>1. call[c] \in CallType
  BY Zenon DEF CallInv
<1>2. /\ \A f \in Endpoints \ {d} : endpoints'[f].healthy
      /\ endpoints'[d] = endpoints[d]
  BY <1>1, AnswerOutlives, Zenon DEF succeed, CallType
<1>3. call' = [call EXCEPT ![c] = new]
  BY Zenon DEF succeed, CallInv
<1>4. new.phase = "resolved"
  BY <1>1, Zenon DEF CallType
<1> HIDE DEF new
<1>5. CallOutlives(d, new, endpoints'[d])
  BY <1>4, Zenon DEF CallOutlives
<1>6. \A b \in Callers : CallOutlives(d, call[b], endpoints'[d])
  BY <1>2, Zenon DEF Outlives
<1> QED
  BY <1>2, <1>3, <1>5, <1>6, OneOutlives, Zenon

\* A call fails: that was the dead endpoint, and the call has an attempt left.
LEMMA FailOutlives ==
    ASSUME EndpointInv, CallInv, NEW d \in Endpoints, Bypassable(d), Outlives(d),
           NEW c \in Callers, NEW outcome \in {"network", "other"}, fail(c, outcome)
    PROVE  Outlives(d)'
<1>1. call[c] \in CallType /\ endpoints[d] \in EndpointState
  BY Zenon DEF CallInv, EndpointInv, EndpointsTyped
<1>2. call[c].phase = "waiting" /\ call[c].ep = d
  BY <1>1, Zenon DEF fail, Bypassable, CallType
<1>3. /\ endpoints'[d] = failed(endpoints[d])
      /\ \A e \in Endpoints \ {d} : endpoints'[e].healthy
  BY <1>2, Zenon DEF fail, recordFailure, EndpointInv, EndpointsTyped, Outlives
<1>4. \A b \in Callers : CallOutlives(d, call[b], endpoints'[d])
  BY <1>1, <1>3, OutlivesFailure DEF Outlives, CallInv
<1>5. /\ call[c].attempt \in 1 .. UNHEALTHY_THRESHOLD
      /\ call[c].attempt - 1 <= endpoints[d].consecutiveFailures
  BY <1>1, <1>2, Numbers DEF Outlives, CallOutlives
<1>6. call[c].attempt < maxRetries
  BY <1>5, ConfigAssumption DEF Bypassable
<1>7. PICK delay \in 0 .. calculateBackoff(call[c].attempt) :
        call' = [call EXCEPT ![c].phase = "sleeping", ![c].timer = delay]
  BY <1>1, <1>6, ConfigAssumption DEF fail, after_failure, CallType
<1> DEFINE max == calculateBackoff(call[c].attempt)
<1>8. max \in 0 .. RECOVERY_COOLDOWN - HealthTimeout
  BY <1>5, Zenon DEF Bypassable
<1>9. delay \in Nat /\ HealthTimeout + delay <= RECOVERY_COOLDOWN
  <2>1. delay \in 0 .. max
    BY Zenon
  <2> HIDE DEF max
  <2> QED
    BY <1>8, <2>1, ConfigAssumption
<1> DEFINE new == [call[c] EXCEPT !.phase = "sleeping", !.timer = delay]
<1>10. /\ new.phase = "sleeping" /\ new.attempt = call[c].attempt /\ new.timer = delay
       /\ call' = [call EXCEPT ![c] = new]
  BY <1>1, <1>7, Zenon DEF CallType, CallInv
<1> HIDE DEF new, max
<1>11. /\ endpoints'[d].consecutiveFailures = endpoints[d].consecutiveFailures + 1
       /\ endpoints'[d].sinceFailure = 0
  BY <1>1, <1>3, FailedState, Zenon
<1>12. CallOutlives(d, new, endpoints'[d])
  BY <1>1, <1>5, <1>9, <1>10, <1>11, Numbers DEF CallOutlives
<1> QED
  BY <1>3, <1>4, <1>10, <1>12, OneOutlives, Zenon

\* A health check fails: that was the dead endpoint.
LEMMA CheckOutlives ==
    ASSUME HealthInv, CallInv, NEW d \in Endpoints, Bypassable(d), Outlives(d), check_fails
    PROVE  Outlives(d)'
<1> DEFINE new == [endpoints[d] EXCEPT !.sinceFailure = check.timer]
<1>1. check.ep = d /\ check.timer \in 0 .. HealthTimeout
  BY Zenon DEF check_fails, Bypassable, CallInv, HealthInv, CheckInTime
<1>2. endpoints[d] \in EndpointState /\ check.timer \in 0 .. LongAgo
  BY <1>1, ConfigAssumption DEF HealthInv, EndpointInv, EndpointsTyped, LongAgo
<1>3. /\ endpoints' = [endpoints EXCEPT ![d] = new]
      /\ call' = call
  BY <1>1, Zenon DEF check_fails
<1>4. /\ new \in EndpointState
      /\ new.sinceFailure <= HealthTimeout
      /\ new.consecutiveFailures = endpoints[d].consecutiveFailures
  BY <1>1, <1>2, ConfigAssumption DEF EndpointState
<1> HIDE DEF new
<1>5. \A e \in Endpoints : endpoints'[e] = IF e = d THEN new ELSE endpoints[e]
  BY <1>3, Zenon DEF HealthInv, EndpointInv, EndpointsTyped
<1>6. \A c \in Callers : CallOutlives(d, call[c], new)
  BY <1>2, <1>4, OutlivesCheck, Zenon DEF Outlives, CallInv
<1> QED
  BY <1>3, <1>5, <1>6, Zenon DEF Outlives, CallOutlives

\* What a call has left shrinks as fast as the age of the failure grows.
LEMMA OneTickOutlives ==
    ASSUME NEW d, NEW k \in CallType, NEW ep \in EndpointState, CallOutlives(d, k, ep),
           NEW new \in CallType, NEW aged \in EndpointState,
           new.phase = k.phase, new.attempt = k.attempt, new.ep = k.ep,
           k.phase = "waiting" => k.timer < requestTimeout /\ new.timer = k.timer + 1,
           k.phase = "sleeping" => k.timer > 0 /\ new.timer = k.timer - 1,
           aged.healthy = ep.healthy,
           aged.consecutiveFailures = ep.consecutiveFailures,
           aged.sinceFailure <= ep.sinceFailure + 1
    PROVE  CallOutlives(d, new, aged)
<1>1. aged.sinceFailure \in Nat /\ new.timer \in Nat
  BY Numbers, Zenon
<1>2. CASE k.phase = "waiting"
  BY <1>1, <1>2, Numbers DEF CallOutlives
<1>3. CASE k.phase = "sleeping"
  BY <1>1, <1>3, Numbers DEF CallOutlives
<1>4. CASE k.phase \notin {"waiting", "sleeping"}
  BY <1>4, Zenon DEF CallOutlives
<1> QED
  BY <1>2, <1>3, <1>4, Zenon

\* Time passes.
LEMMA TickOutlives ==
    ASSUME HealthInv, CallInv, NEW d \in Endpoints, Bypassable(d), Outlives(d), Tick
    PROVE  Outlives(d)'
<1>1. ASSUME NEW e \in Endpoints
      PROVE  /\ endpoints[e] \in EndpointState /\ endpoints'[e] \in EndpointState
             /\ endpoints'[e].healthy = endpoints[e].healthy
             /\ endpoints'[e].consecutiveFailures = endpoints[e].consecutiveFailures
             /\ endpoints'[e].sinceFailure <= endpoints[e].sinceFailure + 1
  <2>1. endpoints[e] \in EndpointState
    BY Zenon DEF HealthInv, EndpointInv, EndpointsTyped
  <2>2. endpoints'[e] = [endpoints[e] EXCEPT !.sinceFailure = Older(endpoints[e].sinceFailure)]
    BY Zenon DEF Tick
  <2>3. endpoints[e].sinceFailure \in 0 .. LongAgo
    BY <2>1, Zenon DEF EndpointState
  <2>4. /\ Older(endpoints[e].sinceFailure) \in 0 .. LongAgo
        /\ Older(endpoints[e].sinceFailure) <= endpoints[e].sinceFailure + 1
    BY <2>3, ConfigAssumption DEF Older, LongAgo
  <2> QED
    BY <2>1, <2>2, <2>4, Zenon DEF EndpointState
<1>2. ASSUME NEW c \in Callers
      PROVE  /\ call[c] \in CallType /\ call'[c] \in CallType
             /\ call'[c].phase = call[c].phase /\ call'[c].attempt = call[c].attempt
             /\ call'[c].ep = call[c].ep
             /\ call[c].phase = "waiting"
                  => call[c].timer < requestTimeout /\ call'[c].timer = call[c].timer + 1
             /\ call[c].phase = "sleeping"
                  => call[c].timer > 0 /\ call'[c].timer = call[c].timer - 1
  <2>0. call[c] \in CallType /\ call'[c] \in CallType
    BY TickCalls, Zenon DEF CallInv
  <2>1. CASE call[c].phase = "waiting"
    <3>1. /\ call'[c] = [call[c] EXCEPT !.timer = call[c].timer + 1]
          /\ call[c].timer < requestTimeout
      BY <2>1, Zenon DEF Tick
    <3> QED
      BY <2>0, <2>1, <3>1, Zenon DEF CallType
  <2>2. CASE call[c].phase = "sleeping"
    <3>1. call'[c] = [call[c] EXCEPT !.timer = call[c].timer - 1] /\ call[c].timer > 0
      BY <2>2, Zenon DEF Tick
    <3> QED
      BY <2>0, <2>2, <3>1, Zenon DEF CallType
  <2>3. CASE call[c].phase \notin {"waiting", "sleeping"}
    <3>1. call'[c] = call[c]
      BY <2>3, Zenon DEF Tick
    <3> QED
      BY <2>0, <2>3, <3>1, Zenon
  <2> QED
    BY <2>1, <2>2, <2>3, Zenon
<1>3. ASSUME NEW c \in Callers
      PROVE  CallOutlives(d, call'[c], endpoints'[d])
  <2>1. CallOutlives(d, call[c], endpoints[d])
    BY Zenon DEF Outlives
  <2> QED
    BY <1>1, <1>2, <2>1, OneTickOutlives, Zenon
<1>4. \A e \in Endpoints \ {d} : endpoints'[e].healthy
  BY <1>1, Zenon DEF Outlives
<1> QED
  BY <1>3, <1>4, Zenon DEF Outlives, CallOutlives

\* Every step of the client keeps the pool ahead of its dead endpoint.
LEMMA NextOutlives ==
    ASSUME HealthInv, CallInv, PoolOutlives, [Next]_vars
    PROVE  PoolOutlives'
<1>1. UNCHANGED answers
  BY Zenon DEF Next, vars
<1>2. UNCHANGED vars \/ Step
  BY Zenon DEF Next
<1> SUFFICES ASSUME NEW d \in Endpoints, Bypassable(d), Outlives(d)
             PROVE  Outlives(d)'
  BY <1>1, Zenon DEF PoolOutlives, Bypassable, Endpoints, calculateBackoff
<1>3. EndpointInv
  BY Zenon DEF HealthInv
<1>4. CASE Tick
  BY <1>4, TickOutlives, Zenon
<1>5. CASE getClient
  <2>1. UNCHANGED call
    BY <1>5, Zenon DEF getClient
  <2>2. /\ \A e \in Endpoints \ {d} : endpoints'[e].healthy
        /\ \A b \in Callers : CallOutlives(d, call[b], endpoints'[d])
    BY <1>3, <1>5, ChoiceOutlives, Zenon DEF getClient
  <2> QED
    BY <2>1, <2>2, Zenon DEF Outlives, CallOutlives
<1>6. ASSUME NEW c \in Callers, execute(c) \/ retry(c)
      PROVE  Outlives(d)'
  BY <1>3, <1>6, RequestOutlives, Zenon
<1>7. ASSUME NEW c \in Callers, settle(c)
      PROVE  Outlives(d)'
  BY <1>3, <1>7, SucceedOutlives, FailOutlives, Zenon DEF settle
<1>8. CASE runHealthChecks \/ UNCHANGED vars
  BY <1>8, Zenon DEF runHealthChecks, vars, Outlives, CallOutlives
<1>9. CASE check_passes
  <2>1. /\ \A e \in Endpoints \ {d} : endpoints'[e].healthy
        /\ endpoints'[d] = endpoints[d]
    BY <1>3, <1>9, AnswerOutlives, Zenon DEF check_passes, CallInv
  <2>2. UNCHANGED call
    BY <1>9, Zenon DEF check_passes
  <2> QED
    BY <2>1, <2>2, Zenon DEF Outlives, CallOutlives
<1>10. CASE check_fails
  BY <1>10, CheckOutlives, Zenon
<1> QED
  BY <1>2, <1>4, <1>5, <1>6, <1>7, <1>8, <1>9, <1>10, Zenon DEF Step

\* At the start every endpoint is in rotation and no call runs.
LEMMA InitOutlives == Init => PoolOutlives
BY DEF Init, PoolOutlives, Outlives, CallOutlives

\* The README's promise that a dead endpoint holds nobody up, for any number of
\* endpoints and calls: if one endpoint is dead and the others answer, a call with more
\* attempts than UNHEALTHY_THRESHOLD is never rejected, provided that a request and a
\* delay end before a failed endpoint may be back in rotation.
THEOREM NoCallIsEverLost == Spec => []NoCallIsLost
<1>1. HealthInv /\ CallInv /\ PoolOutlives /\ [Next]_vars => PoolOutlives'
  BY NextOutlives, Zenon
<1>2. PoolOutlives => NoCallIsLost
  BY Zenon DEF PoolOutlives, NoCallIsLost, Outlives, CallOutlives
<1> QED
  BY InitOutlives, HealthInvariant, CallInvariant, <1>1, <1>2, PTL DEF Spec

=============================================================================
