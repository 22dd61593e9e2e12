------------------------------- MODULE Keeper -------------------------------
(***************************************************************************)
(* The keeper's control loop (keeper.ts) and its transactions              *)
(* (tx-builder.ts), composed with the indexer and the chain.  The interval *)
(* starts a tick whether or not the last one has ended; a tick takes its   *)
(* list of breaches once, works through it one awaited transaction at a    *)
(* time, and then does the same with the matured streams.                  *)
(*                                                                         *)
(* A transaction may abort on chain for reasons outside this model (price, *)
(* freshness, pool).  One whose answer is lost may still be executed       *)
(* later; as anyone may hedge and claim, that is a ChainStep.              *)
(***************************************************************************)
EXTENDS Indexer

CONSTANT Ticks    \* ticks that may run at once

VARIABLES
    ticks,              \* tick -> [phase, todo, item, tx]
    autoClaimInFlight,  \* ids
    releasing           \* ids whose release timer runs

keeperVars == <<ticks, autoClaimInFlight, releasing>>

allVars == <<chainVars, indexerVars, keeperVars>>

\* An entry of a tick's list: the stream, what to do, and the cached object it
\* refers to, once that has left the map.
Item(s, action) == [s |-> s, action |-> action, detached |-> <<>>]

NoItem == Item("none", "none")

Resting == [phase |-> "idle", todo |-> <<>>, item |-> NoItem, tx |-> "none"]

InitKeeper ==
    /\ Init
    /\ ticks = [t \in Ticks |-> Resting]
    /\ autoClaimInFlight = {}
    /\ releasing = {}

----------------------------------------------------------------------------
(* What a tick finds *)

\* What the latest price asks for a cached stream; inBreach says for which streams
\* it is on the wrong side.
action_for(s, inBreach) ==
    LET st == streams[s]
    IN  CASE ~st.hedged \/ s \notin inBreach -> "none"
          [] st.status = "HEALTHY" -> "initiate"
          [] /\ st.status = "TWAP_ACTIVE"
             /\ clock >= st.last_tranche_timestamp + st.twap_interval_ms
             /\ st.tranches_executed < st.twap_tranches -> "execute_tranche"
          [] OTHER -> "none"

\* One item per stream to act on, in the order of the map.
detectBreaches(inBreach) ==
    {[k \in DOMAIN q |-> Item(q[k], action_for(q[k], inBreach))] :
       q \in InOrder(order, {s \in tracked : action_for(s, inBreach) # "none"})}

is_matured(st) == clock >= st.end_time /\ (st.sui \/ st.usdc)

\* The list is made after the hedges, from the map they left.
getMaturedStreams ==
    {[k \in DOMAIN q |-> Item(q[k], "claim")] :
       q \in InOrder(order', {s \in DOMAIN streams' : is_matured(streams'[s])})}

----------------------------------------------------------------------------
(* The two loops of a tick.  Both operators run to the next await: they set   *)
(* the tick and the in-flight marks, given those left by the code before.     *)

Working(phase, item, todo) ==
    [phase |-> phase, todo |-> todo, item |-> item, tx |-> "building"]

\* Mutant: the mark is set after the transaction instead of before it.
mark_in_flight_Late(inFlight, s) == inFlight

mark_in_flight(inFlight, s) == inFlight \cup {s}

\* Streams in flight are passed over.
claim_next(t, todo, inFlight) ==
    LET free == {k \in DOMAIN todo : todo[k].s \notin inFlight}
    IN  \/ /\ free = {}
           /\ ticks' = [ticks EXCEPT ![t] = Resting]
           /\ autoClaimInFlight' = inFlight
        \/ \E k \in free :
             /\ \A j \in free : k <= j
             /\ ticks' = [ticks EXCEPT ![t] =
                  Working("claiming", todo[k], SubSeq(todo, k + 1, Len(todo)))]
             /\ autoClaimInFlight' = mark_in_flight(inFlight, todo[k].s)

hedge_next(t, todo) ==
    \/ /\ todo # <<>>
       /\ ticks' = [ticks EXCEPT ![t] = Working("hedging", Head(todo), Tail(todo))]
       /\ UNCHANGED autoClaimInFlight
    \/ /\ todo = <<>>
       /\ \E list \in getMaturedStreams : claim_next(t, list, autoClaimInFlight)

tick(t, inBreach) ==
    /\ proc = "running"
    /\ ticks[t].phase = "idle"
    /\ UNCHANGED <<chainVars, indexerVars, releasing>>
    /\ \E list \in detectBreaches(inBreach) : hedge_next(t, list)

----------------------------------------------------------------------------
(* buildSignExecute *)

tx_signed(t) ==
    /\ ticks[t].tx = "building"
    /\ ticks' = [ticks EXCEPT ![t].tx = "submitted"]
    /\ UNCHANGED <<chainVars, indexerVars, autoClaimInFlight, releasing>>

\* The signed bytes take effect, once however often they are sent.
tx_executes(t) ==
    LET i == ticks[t].item
    IN  /\ ticks[t].tx = "submitted"
        /\ \/ i.action = "initiate" /\ Initiate(i.s)
           \/ i.action = "execute_tranche" /\ NextTranche(i.s)
           \/ i.action = "claim" /\ Claim(i.s)
        /\ ticks' = [ticks EXCEPT ![t].tx = "executed"]
        /\ UNCHANGED <<indexerVars, autoClaimInFlight, releasing>>

----------------------------------------------------------------------------
(* What a tick does with the digest *)

updateStreamState(s, state) ==
    IF s \in tracked THEN [streams EXCEPT ![s] = state] ELSE streams

\* The cached object the item refers to, in the map or not.
referenced(i) == IF i.detached = <<>> THEN streams[i.s] ELSE i.detached[1]

hedge_recorded(i) ==
    LET newTranches == IF i.action = "initiate" THEN 1
                       ELSE referenced(i).tranches_executed + 1
        newStatus == IF /\ i.action = "execute_tranche"
                        /\ newTranches >= referenced(i).twap_tranches
                     THEN "FULLY_HEDGED" ELSE "TWAP_ACTIVE"
    IN  IF i.s \notin tracked THEN streams
        ELSE updateStreamState(i.s, [streams[i.s] EXCEPT
               !.status = newStatus,
               !.tranches_executed = newTranches,
               !.last_tranche_timestamp = clock])

claim_recorded(i) ==
    IF i.s \notin tracked THEN streams
    ELSE updateStreamState(i.s, [streams[i.s] EXCEPT !.sui = FALSE, !.usdc = FALSE])

others_unchanged ==
    UNCHANGED <<chainVars, proc, order, file, refresh, registering, crashes>>

tx_answered(t) ==
    LET i == ticks[t].item
    IN  /\ ticks[t].tx = "executed"
        /\ others_unchanged
        /\ \/ /\ ticks[t].phase = "hedging"
              /\ streams' = hedge_recorded(i)
              /\ hedge_next(t, ticks[t].todo)
           \/ /\ ticks[t].phase = "claiming"
              /\ streams' = claim_recorded(i)
              /\ claim_next(t, ticks[t].todo, autoClaimInFlight \ {i.s})
        /\ UNCHANGED releasing

\* Mutant: a failed claim leaves its mark without a timer.
release_later_Never(s) == UNCHANGED releasing

\* The mark of a failed claim goes when its timer fires.
release_later(s) == releasing' = releasing \cup {s}

\* No digest: the build or every submission failed, the transaction aborted, or it
\* was executed and the answer was lost.
tx_failed(t) ==
    LET i == ticks[t].item
    IN  /\ ticks[t].tx # "none"
        /\ others_unchanged
        /\ \/ /\ ticks[t].phase = "hedging"
              /\ UNCHANGED <<streams, releasing>>
              /\ hedge_next(t, ticks[t].todo)
           \/ /\ ticks[t].phase = "claiming"
              /\ UNCHANGED streams
              /\ release_later(i.s)
              /\ claim_next(t, ticks[t].todo, autoClaimInFlight)

\* Mutant: an interval instead of a timeout, which fires again and again.
release_Repeats(s) ==
    /\ s \in releasing
    /\ UNCHANGED releasing
    /\ autoClaimInFlight' = autoClaimInFlight \ {s}
    /\ UNCHANGED <<chainVars, indexerVars, ticks>>

release(s) ==
    /\ s \in releasing
    /\ releasing' = releasing \ {s}
    /\ autoClaimInFlight' = autoClaimInFlight \ {s}
    /\ UNCHANGED <<chainVars, indexerVars, ticks>>

----------------------------------------------------------------------------
(* Composition *)

\* Lists of ticks keep the objects that a step of the indexer takes off the map.
detach(i) ==
    IF i.detached = <<>> /\ i.s \in tracked /\ i.s \notin tracked'
    THEN [i EXCEPT !.detached = <<streams[i.s]>>] ELSE i

ticks_keep_objects ==
    ticks' = [t \in Ticks |-> IF ticks[t].phase = "hedging"
                              THEN [ticks[t] EXCEPT !.item = detach(@),
                                                    !.todo = [k \in DOMAIN @ |-> detach(@[k])]]
                              ELSE ticks[t]]

\* A crash or a shutdown ends the ticks and timers; submitted transactions may
\* still be executed.
KeeperCrash ==
    /\ Crash
    /\ ticks' = [t \in Ticks |-> Resting]
    /\ autoClaimInFlight' = {}
    /\ releasing' = {}
    /\ UNCHANGED chainVars

tick_step(t) ==
    \/ \E inBreach \in SUBSET tracked : tick(t, inBreach)
    \/ tx_signed(t) \/ tx_executes(t) \/ tx_answered(t) \/ tx_failed(t)

NextKeeper ==
    \/ NextChain /\ UNCHANGED <<indexerVars, keeperVars>>
    \/ /\ IndexerStep
       /\ ticks_keep_objects
       /\ UNCHANGED <<chainVars, autoClaimInFlight, releasing>>
    \/ KeeperCrash
    \/ \E t \in Ticks : tick_step(t)
    \/ \E s \in Streams : release(s)

SpecKeeper == InitKeeper /\ [][NextKeeper]_allVars

----------------------------------------------------------------------------
(* Fairness: as for the indexer; intervals and timers fire, and requests end.  *)
(* A price in breach is seen by some ticks.  From some time on, a transaction   *)
(* that the chain accepts gets through.                                         *)

accepted(i) ==
    /\ IsOpen(i.s)
    /\ CASE i.action = "initiate" -> object[i.s].hedged /\ object[i.s].status = "HEALTHY"
         [] i.action = "execute_tranche" -> TrancheDue(i.s)
         [] i.action = "claim" -> ~object[i.s].settled

\* The transaction of this tick fails, and not because the chain refuses it.
disturbed(t) ==
    /\ tx_failed(t) /\ ~tx_answered(t)
    /\ ticks[t].tx = "submitted" => accepted(ticks[t].item)

TickFairness(t) ==
    /\ SF_allVars(tick(t, tracked))
    /\ WF_allVars(tx_signed(t))
    /\ WF_allVars(tx_executes(t))
    /\ WF_allVars(tx_answered(t))
    /\ WF_allVars(tx_failed(t) /\ ~disturbed(t))

FairSpecKeeper ==
    /\ SpecKeeper
    /\ WF_allVars(TickChain /\ UNCHANGED <<indexerVars, keeperVars>>)
    /\ \A r \in Refreshers : RefreshFairness(r)
    /\ \A t \in Ticks : TickFairness(t)
    /\ \A s \in Streams : WF_allVars(release(s))
    /\ <>[][\A t \in Ticks : ~disturbed(t)]_allVars

----------------------------------------------------------------------------
(* Properties *)

TypeOKKeeper ==
    /\ TypeOK
    /\ \A t \in Ticks :
         /\ ticks[t].phase \in {"idle", "hedging", "claiming"}
         /\ ticks[t].tx \in {"none", "building", "submitted", "executed"}
         /\ ticks[t].phase = "idle" <=> ticks[t].tx = "none"
    /\ autoClaimInFlight \subseteq Streams
    /\ releasing \subseteq autoClaimInFlight

claims(t, s) == ticks[t].phase = "claiming" /\ ticks[t].item.s = s

\* Overlapping ticks never have two auto-claims of one stream under way, and a
\* stream under way, or waiting for its release timer, is marked.
OneClaimAtATime ==
    \A s \in Streams :
        /\ Cardinality({t \in Ticks : claims(t, s)}) <= 1
        /\ (\E t \in Ticks : claims(t, s)) => s \in autoClaimInFlight /\ s \notin releasing

\* Every mark in autoClaimInFlight goes away: no lost answer, failed build or
\* overlap of ticks leaves a stream that is never tried again.
MarksAreReleased ==
    \A s \in Streams : (s \in autoClaimInFlight) ~> (s \notin autoClaimInFlight)

\* A stream with coins whose schedule has ended is claimed, cancelled or drained,
\* although the keeper works from a cache that others outrun.
MaturedIsClaimed ==
    \A s \in Streams :
        (HoldsCoins(s) /\ clock >= object[s].end_time)
          ~> (object[s].settled \/ ~HoldsCoins(s))

\* The bounded clock stops before the next tranche is due.
OutOfTime(o) == o.last_tranche_timestamp + o.twap_interval_ms > MaxClock

\* A liquidation that stays in breach is finished, although hedge_recorded counts
\* on a cached number that a refresh may already have moved, and can take the
\* stream for FULLY_HEDGED a tranche too early: a later refresh puts it right.
LiquidationFinishes ==
    \A s \in Streams :
        (HoldsCoins(s) /\ object[s].status = "TWAP_ACTIVE")
          ~> \/ ~HoldsCoins(s)
             \/ object[s].status = "FULLY_HEDGED"
             \/ OutOfTime(object[s])

=============================================================================
