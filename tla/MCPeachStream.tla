--------------------------- MODULE MCPeachStream ---------------------------
(***************************************************************************)
(* Instances of PeachStream for TLC, the liveness specification, and what  *)
(* comments and tests of the contract say that the code does not do.       *)
(***************************************************************************)
EXTENDS PeachLifecycle, PeachRegistry, TLC

----------------------------------------------------------------------------
(* Constants.  A clock step stands for some minutes of chain time.  Deposits  *)
(* are a few hundred units: enough for a non-zero fee and for sub-lot claims. *)

MCPresets ==
    [p \in 0 .. 1 |-> IF p = 0 THEN [tranches |-> 2, interval_ms |-> 1]
                      ELSE [tranches |-> 3, interval_ms |-> 2]]

Prices(values) == {[price |-> p, expo |-> -8] : p \in values}

\* Strikes are 100: one price on each side of it.
BothSides == Prices({90, 120})

\* In breach of every floor of 100, healthy for every ceiling of 100.
Crashed == Prices({90})

Offer(deposit, end, strike, direction, preset, lot) ==
    [deposit |-> deposit, start_time |-> 0, end_time |-> end, strike_price |-> strike,
     hedge_direction |-> direction, twap_preset |-> preset, min_lot_size |-> lot]

\* Lot 0 selects DEFAULT_MIN_LOT_SIZE, above a quarter of the deposit and below
\* half of it; lot 1 makes every claim in breach a swap.
FloorOffers ==
    {Offer(400, 4, 100, HEDGE_FLOOR, 0, 0), Offer(400, 4, 100, HEDGE_FLOOR, 0, 1),
     Offer(400, 4, 100, HEDGE_FLOOR, 1, 1)}

\* Without protection in each of the three ways the contract knows, and a ceiling.
PayrollOffers ==
    {Offer(400, 2, 0, HEDGE_CEILING, 0, 1), Offer(300, 3, 100, HEDGE_NONE, 9, 0),
     Offer(200, 2, 100, HEDGE_CEILING, 1, 0)}

\* One stream of each kind, and arguments that create_stream refuses.
LiveOffers ==
    {Offer(400, 3, 100, HEDGE_FLOOR, 0, 1), Offer(300, 2, 0, HEDGE_FLOOR, 0, 0),
     Offer(300, 2, 100, HEDGE_CEILING, 1, 1),
     Offer(0, 3, 100, HEDGE_FLOOR, 0, 1), Offer(400, 0, 100, HEDGE_FLOOR, 0, 1),
     Offer(400, 3, 100, 3, 0, 1), Offer(400, 3, 100, HEDGE_FLOOR, 2, 1)}

\* Streams are interchangeable: no definition picks one of them.
StreamSymmetry == Permutations(Streams)

----------------------------------------------------------------------------
(* Liveness.  The chain clock advances; the keeper's tick claims matured      *)
(* streams and sells due tranches again and again, each in one transaction    *)
(* block with a price update.                                                 *)

Fairness ==
    /\ WF_vars(Tick)
    /\ \A s \in Streams :
         /\ WF_vars(claim_stream(s) /\ clock >= stream[s].end_time)
         /\ WF_vars(\E guard \in MinOutputGuards : execute_tranche(s, guard))

FairSpec == Spec /\ Fairness

\* A stream without protection that is not cancelled is paid out and recorded as
\* COMPLETED, however claims of others interleave with the keeper's.
UnhedgedCompletes ==
    \A s \in Streams :
        (s \in live /\ Unhedged(stream[s]))
          ~> (record[s].status \in {STATUS_COMPLETED, STATUS_CANCELED})

\* Whatever its protection, a stream whose claims reach the lot size is withdrawn
\* to the last unit or cancelled: no state of a liquidation blocks claim_stream.
EveryStreamIsWithdrawn ==
    \A s \in Streams :
        (s \in live) ~> (s \notin live \/ stream[s].withdrawn = stream[s].total_amount)

\* The bounded clock stops before the next tranche is due.
OutOfTime(st) == st.last_tranche_timestamp + st.twap_interval_ms > MaxClock

\* A liquidation that stays in breach ends in FULLY_HEDGED, unless the stream is
\* cancelled first.
LiquidationEnds ==
    \A s \in Streams :
        (s \in live /\ stream[s].liquidation_status = STATUS_TWAP_ACTIVE)
          ~> \/ s \notin live
             \/ stream[s].liquidation_status = STATUS_FULLY_HEDGED
             \/ OutOfTime(stream[s])

----------------------------------------------------------------------------
(* What the repository says and the code does not do *)

\* The comments of PeachStream call balance the live escrow of what is unvested and
\* accumulated_hedge_debt a sub-lot buffer, that is, SUI still held for the
\* receiver.  So a HEALTHY stream would hold at least what is not yet withdrawn.
EscrowCoversUnwithdrawn ==
    \A s \in live :
        stream[s].liquidation_status = STATUS_HEALTHY
          => stream[s].balance >= stream[s].total_amount - stream[s].withdrawn

\* A comment of execute_tranche_internal says that the last tranche sweeps
\* everything, and the end-to-end test asserts that FULLY_HEDGED leaves no SUI.
FullyHedgedHoldsNoSui ==
    \A s \in live :
        stream[s].liquidation_status = STATUS_FULLY_HEDGED => stream[s].balance = 0

\* The comment on withdrawn calls it units already settled to the receiver.  Once
\* all units of a fully liquidated stream are withdrawn, its USDC would have been
\* paid, up to the fee (2% at most) and rounding: a tenth is allowed for both.
WithdrawnIsSettled ==
    \A s \in live :
        /\ stream[s].liquidation_status = STATUS_FULLY_HEDGED
        /\ stream[s].withdrawn = stream[s].total_amount
        => stream[s].usdc_balance * 10 <= ledger[s].usdc_bought

=============================================================================
