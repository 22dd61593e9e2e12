--------------------------- MODULE HedgeLifecycle ---------------------------
(***************************************************************************)
(* What anyone outside the contracts may rely on about a stream: the life  *)
(* cycle of its object, without amounts, prices and pools.  A balance is   *)
(* only empty or not.  PeachStream implements this specification, and the  *)
(* keeper's modules use it as their chain.                                 *)
(***************************************************************************)
EXTENDS Integers

CONSTANTS
    Streams,
    Terms,      \* the [hedged, twap_tranches, twap_interval_ms, end_time] of new streams
    MaxClock    \* bound on the clock

VARIABLES
    clock,
    object      \* id -> the stream object, or what stands for its absence

chainVars == <<clock, object>>

Statuses == {"HEALTHY", "TWAP_ACTIVE", "FULLY_HEDGED"}

\* An id without object.
NoObject ==
    [state |-> "absent", hedged |-> FALSE, status |-> "HEALTHY",
     tranches_executed |-> 0, twap_tranches |-> 0, twap_interval_ms |-> 0,
     last_tranche_timestamp |-> 0, end_time |-> 0,
     settled |-> FALSE, sui |-> FALSE, usdc |-> FALSE]

Deleted == [NoObject EXCEPT !.state = "deleted"]

InitChain ==
    /\ clock = 0
    /\ object = [s \in Streams |-> NoObject]

TickChain ==
    /\ clock < MaxClock
    /\ clock' = clock + 1
    /\ UNCHANGED object

IsOpen(s) == object[s].state = "open"

\* The object holds coins of either kind.
Funded(s) == object[s].sui \/ object[s].usdc

Create(s) ==
    /\ object[s].state = "absent"
    /\ \E t \in Terms :
         object' = [object EXCEPT ![s] =
           [NoObject EXCEPT !.state = "open", !.sui = TRUE, !.hedged = t.hedged,
                            !.twap_tranches = t.twap_tranches,
                            !.twap_interval_ms = t.twap_interval_ms,
                            !.end_time = t.end_time]]
    /\ UNCHANGED clock

\* One tranche: the escrow may run empty, the USDC pool only fills.
AfterTranche(o, sui, usdc) ==
    [o EXCEPT !.tranches_executed = @ + 1,
              !.last_tranche_timestamp = clock,
              !.sui = sui,
              !.usdc = usdc,
              !.status = IF o.tranches_executed + 1 >= o.twap_tranches \/ ~sui
                         THEN "FULLY_HEDGED" ELSE "TWAP_ACTIVE"]

SellTranche(s) ==
    /\ IsOpen(s)
    /\ object[s].hedged
    /\ \E sui, usdc \in BOOLEAN :
         /\ sui => object[s].sui
         /\ object[s].usdc => usdc
         /\ usdc => Funded(s)
         /\ object' = [object EXCEPT ![s] = AfterTranche(@, sui, usdc)]
    /\ UNCHANGED clock

Initiate(s) == object[s].status = "HEALTHY" /\ SellTranche(s)

TrancheDue(s) ==
    /\ object[s].status = "TWAP_ACTIVE"
    /\ clock - object[s].last_tranche_timestamp >= object[s].twap_interval_ms

NextTranche(s) == TrancheDue(s) /\ SellTranche(s)

\* A claim withdraws all that has vested, so one after the end is the last one; it
\* empties a stream without protection and may leave coins in any other.
Claim(s) ==
    LET last == clock >= object[s].end_time
    IN  /\ IsOpen(s)
        /\ ~object[s].settled
        /\ \E sui, usdc \in BOOLEAN :
             /\ sui => object[s].sui
             /\ usdc => object[s].usdc
             /\ ~object[s].hedged => sui = ~last
             /\ object' = [object EXCEPT ![s] =
                             [@ EXCEPT !.settled = last, !.sui = sui, !.usdc = usdc]]
        /\ UNCHANGED clock

Cancel(s) ==
    /\ IsOpen(s)
    /\ object' = [object EXCEPT ![s] = Deleted]
    /\ UNCHANGED clock

ChainStep(s) == Create(s) \/ Initiate(s) \/ NextTranche(s) \/ Claim(s) \/ Cancel(s)

NextChain == TickChain \/ \E s \in Streams : ChainStep(s)

SpecChain == InitChain /\ [][NextChain]_chainVars

=============================================================================
