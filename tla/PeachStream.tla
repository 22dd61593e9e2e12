---------------------------- MODULE PeachStream ----------------------------
(***************************************************************************)
(* The Peach contracts: the shared PeachStream objects, the SalvageVaults  *)
(* that cancelled streams leave behind, and the PeachRegistry with its     *)
(* records and fee treasury.  One action per entry function; an assert! or *)
(* any other abort of the Move code is a conjunct of the action's guard    *)
(* (an aborted transaction changes nothing).  The Sui clock, the Pyth      *)
(* price object and the DeepBook pool are the environment.                 *)
(***************************************************************************)
EXTENDS PeachMath

CONSTANTS
    Streams,         \* object ids that create_stream may return
    Accounts,        \* addresses that send transactions
    Offers,          \* argument records create_stream is called with
    MAX_PRICE_AGE_SECS, FALLBACK_MAX_PRICE_AGE_SECS, FALLBACK_DELAY_MS,
    DEFAULT_MIN_LOT_SIZE,
    MS_PER_SEC,      \* 1000 on chain
    PythPrices,      \* [price, expo] pairs Pyth may publish
    PublishSkew,     \* seconds a publish time may lead the chain clock
    PoolLot,         \* DeepBook fills whole multiples of this
    PoolDepths,      \* how much SUI the book may absorb in one swap
    PoolRates,       \* USDC units paid per PoolRateScale units of SUI
    PoolRateScale,
    MinOutputGuards, \* values callers pass as min_output_guard
    WithdrawAmounts, \* values the admin passes to withdraw_fees
    MaxClock         \* bound on the clock

ASSUME EnvironmentAssumption ==
    /\ Accounts # {}
    /\ MS_PER_SEC \in Nat \ {0}
    /\ PoolLot \in Nat \ {0}
    /\ PoolDepths \subseteq Nat
    /\ PoolRates \subseteq Nat
    /\ PoolRateScale \in Nat \ {0}
    /\ MinOutputGuards \subseteq Nat
    /\ WithdrawAmounts \subseteq Nat
    /\ MaxClock \in Nat
    /\ DEFAULT_MIN_LOT_SIZE \in Nat

\* Arguments are u64 (u8 for direction and preset); create_stream checks the rest.
ASSUME OfferAssumption ==
    \A o \in Offers :
        /\ o.deposit \in Nat
        /\ o.start_time \in Nat
        /\ o.end_time \in Nat
        /\ o.strike_price \in Nat
        /\ o.hedge_direction \in Nat
        /\ o.twap_preset \in Nat
        /\ o.min_lot_size \in Nat

VARIABLES
    clock,      \* sui::clock, in milliseconds
    priceInfo,  \* the Pyth PriceInfoObject: [price, expo, timestamp in seconds]
    live,       \* ids of the PeachStream objects that exist
    stream,     \* id -> the object's fields
    vault,      \* id -> the SalvageVault of that stream
    record,     \* id -> its StreamRecord in the registry table
    registry,   \* the registry's own fields
    ledger      \* id -> coins that have left the stream, by destination

vars == <<clock, priceInfo, live, stream, vault, record, registry, ledger>>

\* record.status; RECORD_NONE is "not in the table".
RECORD_NONE      == "none"
STATUS_ACTIVE    == "active"
STATUS_CANCELED  == "canceled"
STATUS_COMPLETED == "completed"

\* The fields of an id that holds no object, no vault or no record.
NoStream ==
    [sender |-> CHOOSE a \in Accounts : TRUE,
     total_amount |-> 0, withdrawn |-> 0, balance |-> 0, usdc_balance |-> 0,
     start_time |-> 0, end_time |-> 0, strike_price |-> 0,
     hedge_direction |-> HEDGE_NONE, accumulated_hedge_debt |-> 0,
     min_lot_size |-> 0, hedge_triggered |-> FALSE, total_hedged_amount |-> 0,
     liquidation_status |-> STATUS_HEALTHY, twap_tranches |-> 1,
     twap_interval_ms |-> 0, tranches_executed |-> 0,
     last_tranche_timestamp |-> 0, total_sui_at_hedge_start |-> 0]

NoVault ==
    [exists |-> FALSE, owner |-> CHOOSE a \in Accounts : TRUE,
     sui_balance |-> 0, usdc_balance |-> 0, pending_hedge_debt |-> 0]

NoRecord ==
    [status |-> RECORD_NONE, total_amount |-> 0, start_time |-> 0, end_time |-> 0,
     finalized_at |-> 0, receiver_settled |-> 0, sender_refunded |-> 0]

EmptyLedger ==
    [sui_receiver |-> 0, usdc_receiver |-> 0, sui_fees |-> 0, sui_sold |-> 0,
     usdc_bought |-> 0, usdc_bounty |-> 0, sui_refunded |-> 0,
     usdc_refunded |-> 0, hedge_started_at |-> 0]

Init ==
    /\ clock = 0
    /\ \E p \in PythPrices :
         priceInfo = [price |-> p.price, expo |-> p.expo, timestamp |-> 0]
    /\ live = {}
    /\ stream = [s \in Streams |-> NoStream]
    /\ vault = [s \in Streams |-> NoVault]
    /\ record = [s \in Streams |-> NoRecord]
    /\ registry = [total_streams |-> 0, total_volume |-> 0, fee_treasury |-> 0,
                   fees_withdrawn |-> 0]
    /\ ledger = [s \in Streams |-> EmptyLedger]

----------------------------------------------------------------------------
(* Environment: the clock, Pyth and DeepBook *)

Tick ==
    /\ clock < MaxClock
    /\ clock' = clock + 1
    /\ UNCHANGED <<priceInfo, live, stream, vault, record, registry, ledger>>

ClockSecs == clock \div MS_PER_SEC

\* Pyth replaces a stored price only by one with a later publish time.
update_price_feeds ==
    \E p \in PythPrices, t \in priceInfo.timestamp + 1 .. ClockSecs + PublishSkew :
        priceInfo' = [price |-> p.price, expo |-> p.expo, timestamp |-> t]

\* Callers put the price update and the Peach call in one transaction block, so
\* every action below may start with an update and reads priceInfo'.
MaybeUpdatePrice == update_price_feeds \/ UNCHANGED priceInfo

get_price_no_older_than(max_age_secs) ==
    /\ ClockSecs - priceInfo'.timestamp < max_age_secs
    /\ priceInfo'.timestamp - ClockSecs < max_age_secs
    /\ PriceFits(priceInfo')

spot_price == normalize_price(priceInfo')

in_breach(st) == should_hedge(st.strike_price, st.hedge_direction, spot_price)

\* What the pool may do with sui_in: it sells what the book absorbs, in whole
\* lots, returns the rest as dust, rounds the proceeds down, and fails when they
\* are below min_output_guard.
swap_sui_to_usdc_guarded(sui_in, min_output_guard) ==
    {swap \in {LET fill == AtMost(sui_in, depth)
                   sold == fill - (fill % PoolLot)
               IN  [sold |-> sold, usdc_out |-> (sold * rate) \div PoolRateScale]
               : depth \in PoolDepths, rate \in PoolRates} :
        swap.usdc_out >= min_output_guard}

NoSwap == [sold |-> 0, usdc_out |-> 0]

----------------------------------------------------------------------------
(* create_stream *)

new_stream(o, sender) ==
    LET twap == resolve_twap_preset(o.twap_preset, o.hedge_direction)
    IN  [NoStream EXCEPT
           !.sender = sender,
           !.total_amount = o.deposit,
           !.balance = o.deposit,
           !.start_time = o.start_time,
           !.end_time = o.end_time,
           !.strike_price = o.strike_price,
           !.hedge_direction = o.hedge_direction,
           !.min_lot_size = IF o.min_lot_size = 0 THEN DEFAULT_MIN_LOT_SIZE
                            ELSE o.min_lot_size,
           !.twap_tranches = twap.tranches,
           !.twap_interval_ms = twap.interval_ms]

register_stream(s, o) ==
    /\ record[s].status = RECORD_NONE
    /\ record' = [record EXCEPT ![s] =
         [NoRecord EXCEPT !.status = STATUS_ACTIVE, !.total_amount = o.deposit,
                          !.start_time = o.start_time, !.end_time = o.end_time]]
    /\ registry' = [registry EXCEPT !.total_streams = @ + 1,
                                    !.total_volume = @ + o.deposit]

create_stream(s, o, sender) ==
    /\ o.deposit > 0
    /\ o.end_time > o.start_time
    /\ o.hedge_direction \in {HEDGE_FLOOR, HEDGE_CEILING, HEDGE_NONE}
    /\ o.hedge_direction # HEDGE_NONE => o.twap_preset \in DOMAIN TWAP_PRESETS
    /\ register_stream(s, o)
    /\ live' = live \cup {s}
    /\ stream' = [stream EXCEPT ![s] = new_stream(o, sender)]
    /\ UNCHANGED <<clock, priceInfo, vault, ledger>>

----------------------------------------------------------------------------
(* Hedging: the TWAP state machine *)

\* Mutant: the dust of the swap is not joined back to the escrow.
after_tranche_LosesDust(st, size, swap, bounty) ==
    [st EXCEPT
       !.balance = @ - size,
       !.usdc_balance = @ + (swap.usdc_out - bounty),
       !.total_hedged_amount = @ + size,
       !.tranches_executed = @ + 1,
       !.last_tranche_timestamp = clock,
       !.liquidation_status =
           IF \/ st.tranches_executed + 1 >= st.twap_tranches
              \/ st.balance - size = 0
           THEN STATUS_FULLY_HEDGED ELSE @]

\* Mutant: the last tranche does not end the liquidation.
after_tranche_OneTrancheLate(st, size, swap, bounty) ==
    [st EXCEPT
       !.balance = @ - swap.sold,
       !.usdc_balance = @ + (swap.usdc_out - bounty),
       !.total_hedged_amount = @ + size,
       !.tranches_executed = @ + 1,
       !.last_tranche_timestamp = clock,
       !.liquidation_status =
           IF \/ st.tranches_executed >= st.twap_tranches
              \/ st.balance - swap.sold = 0
           THEN STATUS_FULLY_HEDGED ELSE @]

\* Mutant: the time of the tranche is not taken down.
after_tranche_KeepsTime(st, size, swap, bounty) ==
    [st EXCEPT
       !.balance = @ - swap.sold,
       !.usdc_balance = @ + (swap.usdc_out - bounty),
       !.total_hedged_amount = @ + size,
       !.tranches_executed = @ + 1,
       !.liquidation_status =
           IF \/ st.tranches_executed + 1 >= st.twap_tranches
              \/ st.balance - swap.sold = 0
           THEN STATUS_FULLY_HEDGED ELSE @]

\* The stream and its ledger after a tranche of the given size.
after_tranche(st, size, swap, bounty) ==
    [st EXCEPT
       !.balance = @ - swap.sold,
       !.usdc_balance = @ + (swap.usdc_out - bounty),
       !.total_hedged_amount = @ + size,
       !.tranches_executed = @ + 1,
       !.last_tranche_timestamp = clock,
       !.liquidation_status =
           IF \/ st.tranches_executed + 1 >= st.twap_tranches
              \/ st.balance - swap.sold = 0
           THEN STATUS_FULLY_HEDGED ELSE @]

pay_tranche(l, st, swap, bounty) ==
    [l EXCEPT
       !.sui_sold = @ + swap.sold,
       !.usdc_bought = @ + swap.usdc_out,
       !.usdc_bounty = @ + bounty,
       !.hedge_started_at = IF st.tranches_executed = 0 THEN clock ELSE @]

\* A fallback caller's part of the proceeds.
fallback_bounty(is_fallback, usdc_amount) ==
    IF is_fallback THEN (usdc_amount * FALLBACK_BOUNTY_BPS) \div 10000 ELSE 0

\* Sells one tranche of st (already marked TWAP_ACTIVE).
execute_tranche_internal(s, st, min_output_guard, is_fallback) ==
    LET size == tranche_size(st)
        swaps == IF size > 0 THEN swap_sui_to_usdc_guarded(size, min_output_guard)
                 ELSE {NoSwap}
    IN  \E swap \in swaps :
          LET bounty == fallback_bounty(is_fallback, swap.usdc_out)
          IN  /\ is_fallback => FitsU64(swap.usdc_out * FALLBACK_BOUNTY_BPS)
              /\ stream' = [stream EXCEPT ![s] = after_tranche(st, size, swap, bounty)]
              /\ ledger' = [ledger EXCEPT ![s] = pay_tranche(@, st, swap, bounty)]
              /\ UNCHANGED <<clock, live, vault, record, registry>>

\* HEALTHY -> TWAP_ACTIVE, with the escrow at this moment as the baseline.
start_hedge(st) ==
    [st EXCEPT !.liquidation_status = STATUS_TWAP_ACTIVE,
               !.total_sui_at_hedge_start = st.balance,
               !.hedge_triggered = TRUE]

initiate_hedge(s, min_output_guard) ==
    /\ s \in live
    /\ stream[s].liquidation_status = STATUS_HEALTHY
    /\ MaybeUpdatePrice
    /\ get_price_no_older_than(MAX_PRICE_AGE_SECS)
    /\ in_breach(stream[s])
    /\ execute_tranche_internal(s, start_hedge(stream[s]), min_output_guard, FALSE)

\* Mutant: tranches may follow each other at once.
next_tranche_due_NoInterval(st) ==
    /\ st.liquidation_status = STATUS_TWAP_ACTIVE
    /\ st.tranches_executed < st.twap_tranches

\* Mutant: the last tranche never comes.
next_tranche_due_SkipsLast(st) ==
    /\ st.liquidation_status = STATUS_TWAP_ACTIVE
    /\ st.tranches_executed + 1 < st.twap_tranches
    /\ clock - st.last_tranche_timestamp >= st.twap_interval_ms

next_tranche_due(st) ==
    /\ st.liquidation_status = STATUS_TWAP_ACTIVE
    /\ st.tranches_executed < st.twap_tranches
    /\ clock - st.last_tranche_timestamp >= st.twap_interval_ms

\* Mutant: every tranche takes the baseline anew.
execute_tranche_Rebaselines(s, min_output_guard) ==
    /\ s \in live
    /\ next_tranche_due(stream[s])
    /\ MaybeUpdatePrice
    /\ get_price_no_older_than(MAX_PRICE_AGE_SECS)
    /\ in_breach(stream[s])
    /\ execute_tranche_internal(s, start_hedge(stream[s]), min_output_guard, FALSE)

execute_tranche(s, min_output_guard) ==
    /\ s \in live
    /\ next_tranche_due(stream[s])
    /\ MaybeUpdatePrice
    /\ get_price_no_older_than(MAX_PRICE_AGE_SECS)
    /\ in_breach(stream[s])
    /\ execute_tranche_internal(s, stream[s], min_output_guard, FALSE)

fallback_hedge_trigger(s, min_output_guard) ==
    /\ s \in live
    /\ MaybeUpdatePrice
    /\ get_price_no_older_than(FALLBACK_MAX_PRICE_AGE_SECS)
    /\ in_breach(stream[s])
    /\ clock - priceInfo'.timestamp * MS_PER_SEC >= FALLBACK_DELAY_MS
    /\ \/ /\ stream[s].liquidation_status = STATUS_HEALTHY
          /\ execute_tranche_internal(s, start_hedge(stream[s]), min_output_guard, TRUE)
       \/ /\ next_tranche_due(stream[s])
          /\ execute_tranche_internal(s, stream[s], min_output_guard, TRUE)

----------------------------------------------------------------------------
(* claim_stream *)

record_completion(r, total_amount) ==
    [r EXCEPT !.status = STATUS_COMPLETED, !.finalized_at = clock,
              !.receiver_settled = total_amount, !.sender_refunded = 0]

\* Mutant: the new fee replaces the treasury.
deposit_fee_Overwrites(fee) == [registry EXCEPT !.fee_treasury = fee]

deposit_fee(fee) == [registry EXCEPT !.fee_treasury = @ + fee]

\* Coins leaving a stream in a claim or a cancellation.
pay(l, fee, sui, usdc, swap) ==
    [l EXCEPT !.sui_receiver = @ + sui,
              !.usdc_receiver = @ + usdc,
              !.sui_fees = @ + fee,
              !.sui_sold = @ + swap.sold,
              !.usdc_bought = @ + swap.usdc_out]

\* Mutant: USDC left in the stream is overlooked.
settled_IgnoresUsdc(st) == st.withdrawn >= st.total_amount /\ st.balance = 0

\* Mutant: completion needs more than the deposit.
settled_Strictly(st) ==
    st.withdrawn > st.total_amount /\ st.balance = 0 /\ st.usdc_balance = 0

settled(st) == st.withdrawn >= st.total_amount /\ st.balance = 0 /\ st.usdc_balance = 0

\* The end of every claim: st is the stream after the payout of sui and usdc to
\* the receiver, fee went to the treasury, swap says what the pool was sold.
finish_claim(s, st, fee, sui, usdc, swap) ==
    /\ stream' = [stream EXCEPT ![s] = st]
    /\ registry' = deposit_fee(fee)
    /\ ledger' = [ledger EXCEPT ![s] = pay(@, fee, sui, usdc, swap)]
    /\ record' = [record EXCEPT ![s] =
         IF settled(st) THEN record_completion(@, st.total_amount) ELSE @]
    /\ UNCHANGED <<clock, live, vault>>

\* In breach, the claim and the buffered debt are swapped once they reach a lot;
\* below a lot the claim joins the debt and is paid in SUI.
claim_healthy(s, st, fee, net) ==
    LET total_to_hedge == net + st.accumulated_hedge_debt
    IN  \/ /\ in_breach(st)
           /\ total_to_hedge >= st.min_lot_size
           /\ total_to_hedge <= st.balance
           /\ \E swap \in swap_sui_to_usdc_guarded(total_to_hedge, 0) :
                finish_claim(s, [st EXCEPT
                    !.accumulated_hedge_debt = 0,
                    !.hedge_triggered = TRUE,
                    !.balance = @ - swap.sold,
                    !.total_hedged_amount = @ + total_to_hedge],
                  fee, 0, swap.usdc_out, swap)
        \/ /\ in_breach(st)
           /\ total_to_hedge < st.min_lot_size
           /\ net <= st.balance
           /\ finish_claim(s, [st EXCEPT !.accumulated_hedge_debt = total_to_hedge,
                                         !.balance = @ - net],
                           fee, net, 0, NoSwap)
        \/ /\ ~in_breach(st)
           /\ net <= st.balance
           /\ finish_claim(s, [st EXCEPT !.accumulated_hedge_debt = 0,
                                         !.balance = @ - net],
                           fee, net, 0, NoSwap)

claim_fully_hedged(s, st, fee, net) ==
    LET usdc_share == compute_usdc_share(st, net)
    IN  finish_claim(s, [st EXCEPT !.usdc_balance = @ - usdc_share],
                     fee, 0, usdc_share, NoSwap)

claim_twap_active(s, st, fee, net) ==
    LET share == compute_mixed_shares(st, net)
    IN  /\ share.sui <= st.balance
        /\ finish_claim(s, [st EXCEPT !.balance = @ - share.sui,
                                      !.usdc_balance = @ - share.usdc],
                        fee, share.sui, share.usdc, NoSwap)

\* The fee is charged on every claim, and collected only if the SUI escrow holds it.
claim_stream(s) ==
    /\ s \in live
    /\ newly_vested(stream[s], clock) > 0
    /\ MaybeUpdatePrice
    /\ get_price_no_older_than(MAX_PRICE_AGE_SECS)
    /\ LET claimable == newly_vested(stream[s], clock)
           terms == stream[s]
           charged == calculate_fee(claimable, terms.total_amount, spot_price,
                                    terms.strike_price, terms.hedge_direction)
           net == claimable - charged
           fee == IF terms.balance >= charged THEN charged ELSE 0
           st == [terms EXCEPT !.withdrawn = @ + claimable, !.balance = @ - fee]
       IN  /\ FeeFits(claimable, terms.total_amount, spot_price,
                      terms.strike_price, terms.hedge_direction)
           /\ SharesFit(st, net)
           /\ \/ /\ st.liquidation_status = STATUS_HEALTHY
                 /\ claim_healthy(s, st, fee, net)
              \/ /\ st.liquidation_status = STATUS_FULLY_HEDGED
                 /\ claim_fully_hedged(s, st, fee, net)
              \/ /\ st.liquidation_status = STATUS_TWAP_ACTIVE
                 /\ claim_twap_active(s, st, fee, net)

----------------------------------------------------------------------------
(* cancel_stream and what follows it *)

record_cancellation(r, receiver_settled, sender_refunded) ==
    [r EXCEPT !.status = STATUS_CANCELED, !.finalized_at = clock,
              !.receiver_settled = receiver_settled,
              !.sender_refunded = sender_refunded]

\* The end of every cancellation: sui and usdc went to the receiver, sold to the
\* pool; the rest of both balances becomes the sender's vault; the object is deleted.
finish_cancel(s, sui, usdc, swap) ==
    LET st == stream[s]
        refund_sui == st.balance - sui - swap.sold
        refund_usdc == st.usdc_balance + swap.usdc_out - usdc
    IN  /\ FitsU64(sui + usdc) /\ FitsU64(refund_sui + refund_usdc)
        /\ vault' = [vault EXCEPT ![s] =
             [exists |-> TRUE, owner |-> st.sender, sui_balance |-> refund_sui,
              usdc_balance |-> refund_usdc,
              pending_hedge_debt |-> st.accumulated_hedge_debt]]
        /\ record' = [record EXCEPT ![s] =
             record_cancellation(@, sui + usdc, refund_sui + refund_usdc)]
        /\ ledger' = [ledger EXCEPT ![s] = pay(@, 0, sui, usdc, swap)]
        /\ live' = live \ {s}
        /\ stream' = [stream EXCEPT ![s] = NoStream]
        /\ UNCHANGED <<clock, registry>>

\* Mutant: the share is paid without looking at the pool.
PaidIfCovered_Unchecked(share, pool) == share

\* A share larger than its pool is not paid at all.
PaidIfCovered(share, pool) == IF share <= pool THEN share ELSE 0

cancel_stream(s, caller) ==
    LET st == stream[s]
        earned == newly_vested(st, clock)
        settle == AtMost(earned, st.balance)
        healthy == st.liquidation_status = STATUS_HEALTHY
        baseline == IF st.total_sui_at_hedge_start > 0
                    THEN st.total_sui_at_hedge_start ELSE st.total_amount
        sui_share == proportional(earned, st.balance, baseline)
        usdc_share == proportional(earned, st.usdc_balance, baseline)
    IN  /\ s \in live
        /\ caller = st.sender
        /\ MaybeUpdatePrice
        /\ \/ /\ earned = 0 \/ (healthy /\ settle = 0)
              /\ finish_cancel(s, 0, 0, NoSwap)
           \/ /\ healthy /\ settle > 0
              /\ get_price_no_older_than(MAX_PRICE_AGE_SECS)
              /\ \/ /\ in_breach(st)
                    /\ \E swap \in swap_sui_to_usdc_guarded(settle, 0) :
                         finish_cancel(s, 0, swap.usdc_out, swap)
                 \/ /\ ~in_breach(st)
                    /\ finish_cancel(s, settle, 0, NoSwap)
           \/ /\ ~healthy /\ earned > 0
              /\ FitsU64(sui_share) /\ FitsU64(usdc_share)
              /\ finish_cancel(s, PaidIfCovered(sui_share, st.balance),
                               PaidIfCovered(usdc_share, st.usdc_balance), NoSwap)

refund(l, v) ==
    [l EXCEPT !.sui_refunded = @ + v.sui_balance, !.usdc_refunded = @ + v.usdc_balance]

dissolve_salvage_vault(s, caller) ==
    /\ vault[s].exists
    /\ caller = vault[s].owner
    /\ vault' = [vault EXCEPT ![s] = NoVault]
    /\ ledger' = [ledger EXCEPT ![s] = refund(@, vault[s])]
    /\ UNCHANGED <<clock, priceInfo, live, stream, record, registry>>

withdraw_fees(amount) ==
    LET treasury == registry.fee_treasury
        withdraw_amount == IF amount = 0 \/ amount > treasury THEN treasury ELSE amount
    IN  /\ registry' = [registry EXCEPT !.fee_treasury = @ - withdraw_amount,
                                        !.fees_withdrawn = @ + withdraw_amount]
        /\ UNCHANGED <<clock, priceInfo, live, stream, vault, record, ledger>>

----------------------------------------------------------------------------
UpdatePriceOnly ==
    /\ update_price_feeds
    /\ UNCHANGED <<clock, live, stream, vault, record, registry, ledger>>

StreamStep(s) ==
    \/ \E o \in Offers, sender \in Accounts : create_stream(s, o, sender)
    \/ \E guard \in MinOutputGuards : initiate_hedge(s, guard)
    \/ \E guard \in MinOutputGuards : execute_tranche(s, guard)
    \/ \E guard \in MinOutputGuards : fallback_hedge_trigger(s, guard)
    \/ claim_stream(s)
    \/ \E caller \in Accounts : cancel_stream(s, caller)
    \/ \E caller \in Accounts : dissolve_salvage_vault(s, caller)

Next ==
    \/ Tick
    \/ UpdatePriceOnly
    \/ \E s \in Streams : StreamStep(s)
    \/ \E amount \in WithdrawAmounts : withdraw_fees(amount)

Spec == Init /\ [][Next]_vars

----------------------------------------------------------------------------
(* Types *)

StreamType ==
    [sender : Accounts, total_amount : Nat, withdrawn : Nat, balance : Nat,
     usdc_balance : Nat, start_time : Nat, end_time : Nat, strike_price : Nat,
     hedge_direction : {HEDGE_FLOOR, HEDGE_CEILING, HEDGE_NONE},
     accumulated_hedge_debt : Nat, min_lot_size : Nat, hedge_triggered : BOOLEAN,
     total_hedged_amount : Nat,
     liquidation_status : {STATUS_HEALTHY, STATUS_TWAP_ACTIVE, STATUS_FULLY_HEDGED},
     twap_tranches : Nat \ {0}, twap_interval_ms : Nat, tranches_executed : Nat,
     last_tranche_timestamp : Nat, total_sui_at_hedge_start : Nat]

VaultType ==
    [exists : BOOLEAN, owner : Accounts, sui_balance : Nat, usdc_balance : Nat,
     pending_hedge_debt : Nat]

RecordType ==
    [status : {RECORD_NONE, STATUS_ACTIVE, STATUS_CANCELED, STATUS_COMPLETED},
     total_amount : Nat, start_time : Nat, end_time : Nat, finalized_at : Nat,
     receiver_settled : Nat, sender_refunded : Nat]

RegistryType ==
    [total_streams : Nat, total_volume : Nat, fee_treasury : Nat, fees_withdrawn : Nat]

LedgerType ==
    [sui_receiver : Nat, usdc_receiver : Nat, sui_fees : Nat, sui_sold : Nat,
     usdc_bought : Nat, usdc_bounty : Nat, sui_refunded : Nat, usdc_refunded : Nat,
     hedge_started_at : Nat]

\* Every u64 of the contracts stays a natural number: no balance, counter or
\* difference of peach_stream.move or peach_registry.move can go below zero in a
\* transaction that does not abort.
TypeOK ==
    /\ clock \in Nat
    /\ live \subseteq Streams
    /\ stream \in [Streams -> StreamType]
    /\ vault \in [Streams -> VaultType]
    /\ record \in [Streams -> RecordType]
    /\ registry \in RegistryType
    /\ ledger \in [Streams -> LedgerType]

----------------------------------------------------------------------------
(* Safety.  Each predicate is about one stream: st its object, v its vault,   *)
(* r its record, l its ledger; the invariant says it of every stream.         *)

Conserved(st, v, r, l) ==
    /\ r.total_amount = st.balance + v.sui_balance + l.sui_receiver
                        + l.sui_fees + l.sui_sold + l.sui_refunded
    /\ l.usdc_bought = st.usdc_balance + v.usdc_balance + l.usdc_receiver
                       + l.usdc_bounty + l.usdc_refunded

\* Every coin is accounted for: the deposit is what the stream or its vault still
\* holds plus what went to the receiver, the treasury, the pool or back to the
\* sender, and the USDC bought is what is held plus what was paid out.
CoinsConserved ==
    \A s \in Streams : Conserved(stream[s], vault[s], record[s], ledger[s])

vested_by(r, now) == vested_total(r.total_amount, r.start_time, r.end_time, now)

\* The SUI that reached the receiver or was taken as fee never exceeds what has
\* vested by now, whatever mix of claims, tranches and cancellation produced it:
\* the proportional shares of a hedged stream never run ahead of the schedule.
PaidWithinVesting ==
    \A s \in Streams :
        ledger[s].sui_receiver + ledger[s].sui_fees <= vested_by(record[s], clock)

HedgeCoherent(st) ==
    /\ st.liquidation_status = STATUS_HEALTHY
         => st.tranches_executed = 0 /\ st.usdc_balance = 0
    /\ st.liquidation_status = STATUS_TWAP_ACTIVE
         => /\ st.tranches_executed > 0
            /\ st.tranches_executed < st.twap_tranches
            /\ st.total_sui_at_hedge_start > 0
    /\ st.liquidation_status = STATUS_FULLY_HEDGED
         => /\ st.tranches_executed > 0
            /\ st.tranches_executed <= st.twap_tranches
    /\ st.liquidation_status # STATUS_HEALTHY
         => st.balance <= st.total_sui_at_hedge_start /\ st.hedge_triggered

\* The liquidation status and the TWAP counters of a stream tell the same story
\* after any sequence of keeper tranches, fallback tranches and claims.  In
\* particular a TWAP_ACTIVE stream has a baseline, so compute_mixed_shares never
\* takes its unclamped branch, and the escrow never grows past the baseline.
HedgeStateCoherent == \A s \in Streams : HedgeCoherent(stream[s])

Spread(st, l, now) ==
    st.tranches_executed > 0
      => /\ st.last_tranche_timestamp <= now
         /\ st.last_tranche_timestamp - l.hedge_started_at
              >= (st.tranches_executed - 1) * st.twap_interval_ms

\* A liquidation is spread over time: its k-th tranche comes at least k-1
\* intervals after the first one, whether keeper or fallback callers sent them.
TwapIsSpread == \A s \in Streams : Spread(stream[s], ledger[s], clock)

RecordMatches(exists, st, v, r, l) ==
    /\ exists <=> r.status \in {STATUS_ACTIVE, STATUS_COMPLETED}
    /\ r.status = STATUS_COMPLETED
         => st.withdrawn = st.total_amount /\ st.balance = 0 /\ st.usdc_balance = 0
    /\ r.status = STATUS_CANCELED
         => r.sender_refunded = v.sui_balance + v.usdc_balance
                                + l.sui_refunded + l.usdc_refunded
    /\ v.exists => r.status = STATUS_CANCELED

\* A record says COMPLETED only while the object exists with everything withdrawn
\* and both pools empty; it says CANCELED exactly when the object is gone, and the
\* refund it reports is what the vault holds or has returned.
RecordMatchesObject ==
    \A s \in Streams :
        RecordMatches(s \in live, stream[s], vault[s], record[s], ledger[s])

Unhedged(st) == st.hedge_direction = HEDGE_NONE \/ st.strike_price = 0

FullyBacked(exists, st, r, l) ==
    exists /\ Unhedged(st)
      => /\ st.balance = st.total_amount - st.withdrawn
         /\ l.sui_sold = 0
         /\ st.withdrawn = st.total_amount => r.status = STATUS_COMPLETED

\* A stream without protection never touches the pool, always holds exactly the
\* part not yet withdrawn (so no claim can fail for lack of escrow), and is
\* recorded as COMPLETED as soon as everything is withdrawn.
UnhedgedIsFullyBacked ==
    \A s \in Streams : FullyBacked(s \in live, stream[s], record[s], ledger[s])

\* A stream is within u64 when 200 basis points of its deposit (the dearest base fee
\* with the risk premium) and 105% of its strike are.
WithinFeeRange(st) == FitsU64(200 * st.total_amount) /\ FitsU64(105 * st.strike_price)

\* calculate_fee multiplies in u64, and an overflow would abort the claim and every
\* later one, which is larger.  For a stream within u64 it never does: whenever the
\* receiver claims, after any claims and tranches, and whatever Pyth publishes.
FeesNeverOverflow ==
    \A s \in live, p \in PythPrices :
        WithinFeeRange(stream[s])
          => FeeFits(newly_vested(stream[s], clock), stream[s].total_amount,
                     normalize_price(p), stream[s].strike_price, stream[s].hedge_direction)

\* What no transaction may undo: a liquidation never goes back a status or a
\* tranche, its baseline is fixed once taken, withdrawals only grow, and a
\* CANCELED record is final.
NothingIsUndone ==
    [][\A s \in Streams :
         /\ s \in live /\ s \in live'
              => /\ stream'[s].liquidation_status >= stream[s].liquidation_status
                 /\ stream'[s].tranches_executed >= stream[s].tranches_executed
                 /\ stream'[s].withdrawn >= stream[s].withdrawn
                 /\ stream[s].liquidation_status # STATUS_HEALTHY
                      => stream'[s].total_sui_at_hedge_start
                           = stream[s].total_sui_at_hedge_start
         /\ record[s].status = STATUS_CANCELED => record'[s] = record[s]]_vars

----------------------------------------------------------------------------
(* The strengthening that makes the invariants above inductive. *)

Bookkept(exists, st, v, r, l, now) ==
    /\ exists => /\ st.total_amount = r.total_amount
                 /\ st.start_time = r.start_time
                 /\ st.end_time = r.end_time
                 /\ r.total_amount > 0
                 /\ st.withdrawn <= vested_by(r, now)
                 /\ l.sui_receiver + l.sui_fees <= st.withdrawn
                 /\ l.sui_refunded = 0 /\ l.usdc_refunded = 0
                 /\ Unhedged(st) => st.liquidation_status = STATUS_HEALTHY
    /\ ~exists => st = NoStream
    /\ r.status = RECORD_NONE => r = NoRecord /\ l = EmptyLedger
    /\ r.status # RECORD_NONE => r.start_time < r.end_time
    /\ ~v.exists => v = NoVault

\* An absent object, vault or record has its empty value; an existing object
\* agrees with its record on the schedule, has withdrawn no more than has vested,
\* and has paid out no more SUI than was withdrawn.
StateBookkept ==
    \A s \in Streams :
        Bookkept(s \in live, stream[s], vault[s], record[s], ledger[s], clock)

IndInv ==
    /\ TypeOK
    /\ CoinsConserved
    /\ PaidWithinVesting
    /\ HedgeStateCoherent
    /\ TwapIsSpread
    /\ RecordMatchesObject
    /\ UnhedgedIsFullyBacked
    /\ StateBookkept

=============================================================================
