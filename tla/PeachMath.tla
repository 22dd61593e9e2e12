----------------------------- MODULE PeachMath -----------------------------
(***************************************************************************)
(* The pure functions of peach_stream.move: vesting, strike test, oracle   *)
(* normalisation, protocol fee, pool shares, TWAP preset and tranche size. *)
(* They keep the Move names.  Move integers are naturals here; where a u64 *)
(* product or cast can overflow, Move aborts, and the caller's guard says  *)
(* so with FitsU64.  Products the code computes in u128 need no guard.     *)
(***************************************************************************)
EXTENDS Integers

CONSTANTS
    MAX_U64,         \* 2^64 - 1 on chain
    ONE_SUI,         \* MIST per SUI: 10^9 on chain
    PRICE_DECIMALS,  \* 8 on chain
    TWAP_PRESETS     \* preset number -> [tranches, interval_ms]

HEDGE_FLOOR   == 0
HEDGE_CEILING == 1
HEDGE_NONE    == 2

STATUS_HEALTHY      == 0
STATUS_TWAP_ACTIVE  == 1
STATUS_FULLY_HEDGED == 2

PRESET_CORPORATE == 1

FALLBACK_BOUNTY_BPS == 5

\* The presets are shared by every proof and run: at least one tranche each,
\* and the one that unhedged streams fall back to exists.
ASSUME PresetAssumption ==
    /\ PRESET_CORPORATE \in DOMAIN TWAP_PRESETS
    /\ \A p \in DOMAIN TWAP_PRESETS :
         /\ TWAP_PRESETS[p].tranches \in Nat \ {0}
         /\ TWAP_PRESETS[p].interval_ms \in Nat

ASSUME UnitAssumption ==
    /\ MAX_U64 \in Nat
    /\ ONE_SUI \in Nat \ {0}
    /\ PRICE_DECIMALS \in Nat

FitsU64(x) == x <= MAX_U64

AtMost(x, cap) == IF x > cap THEN cap ELSE x

----------------------------------------------------------------------------
(* Vesting *)

\* Mutant: the last unit never vests.
vested_total_NeverFull(total_amount, start_time, end_time, now) ==
    IF now <= start_time THEN 0
    ELSE IF now >= end_time THEN total_amount - 1
    ELSE ((now - start_time) * total_amount) \div (end_time - start_time)

\* Mutant: vesting does not stop at the end of the stream.
vested_total_NeverStops(total_amount, start_time, end_time, now) ==
    IF now <= start_time \/ end_time = start_time THEN 0
    ELSE ((now - start_time) * total_amount) \div (end_time - start_time)

vested_total(total_amount, start_time, end_time, now) ==
    IF now <= start_time THEN 0
    ELSE IF now >= end_time THEN total_amount
    ELSE ((now - start_time) * total_amount) \div (end_time - start_time)

\* Mutant: what was withdrawn before is paid again.
newly_vested_ForgetsWithdrawn(st, now) ==
    vested_total(st.total_amount, st.start_time, st.end_time, now)

\* Mutant: one unit of what has vested is kept back.
newly_vested_KeepsOneBack(st, now) ==
    LET vested == vested_total(st.total_amount, st.start_time, st.end_time, now)
    IN  IF vested > st.withdrawn + 1 THEN vested - st.withdrawn - 1 ELSE 0

newly_vested(st, now) ==
    LET vested == vested_total(st.total_amount, st.start_time, st.end_time, now)
    IN  IF vested > st.withdrawn THEN vested - st.withdrawn ELSE 0

----------------------------------------------------------------------------
(* Oracle *)

should_hedge(strike_price, hedge_direction, spot_price) ==
    /\ strike_price # 0
    /\ \/ hedge_direction = HEDGE_FLOOR /\ spot_price < strike_price
       \/ hedge_direction = HEDGE_CEILING /\ spot_price > strike_price

pow10[exponent \in Nat] == IF exponent = 0 THEN 1 ELSE 10 * pow10[exponent - 1]

\* p is a Pyth price: p.price * 10^p.expo.  The result has PRICE_DECIMALS.
normalize_price(p) ==
    IF p.price < 0 THEN 0
    ELSE IF -p.expo <= PRICE_DECIMALS
    THEN p.price * pow10[PRICE_DECIMALS + p.expo]
    ELSE p.price \div pow10[-p.expo - PRICE_DECIMALS]

\* normalize_price aborts when its power of ten or its product overflows u64.
PriceFits(p) ==
    p.price >= 0 =>
        /\ FitsU64(pow10[IF -p.expo <= PRICE_DECIMALS THEN PRICE_DECIMALS + p.expo
                         ELSE -p.expo - PRICE_DECIMALS])
        /\ FitsU64(normalize_price(p))

----------------------------------------------------------------------------
(* Protocol fee, in basis points of the claim *)

base_bps(total_amount) ==
    IF total_amount >= 10000 * ONE_SUI THEN 10
    ELSE IF total_amount >= 5000 * ONE_SUI THEN 20
    ELSE IF total_amount >= 1000 * ONE_SUI THEN 30
    ELSE 50

\* The strike with the 5% danger margin, before the division by 100.
danger_margin(strike_price, hedge_direction) ==
    strike_price * (IF hedge_direction = HEDGE_FLOOR THEN 105 ELSE 95)

risk_bps(spot_price, strike_price, hedge_direction) ==
    LET danger_threshold == danger_margin(strike_price, hedge_direction) \div 100
    IN  IF /\ strike_price > 0
           /\ \/ hedge_direction = HEDGE_FLOOR /\ spot_price < danger_threshold
              \/ hedge_direction = HEDGE_CEILING /\ spot_price > danger_threshold
        THEN 150 ELSE 0

total_bps(total_amount, spot_price, strike_price, hedge_direction) ==
    base_bps(total_amount) + risk_bps(spot_price, strike_price, hedge_direction)

calculate_fee(claimable, total_amount, spot_price, strike_price, hedge_direction) ==
    (claimable * total_bps(total_amount, spot_price, strike_price, hedge_direction))
        \div 10000

\* calculate_fee aborts on u64 overflow of either of its two products.
FeeFits(claimable, total_amount, spot_price, strike_price, hedge_direction) ==
    /\ hedge_direction # HEDGE_NONE
         => FitsU64(danger_margin(strike_price, hedge_direction))
    /\ FitsU64(claimable
         * total_bps(total_amount, spot_price, strike_price, hedge_direction))

----------------------------------------------------------------------------
(* Shares of the two pools of a hedged stream *)

proportional(units, pool, baseline) == (units * pool) \div baseline

compute_usdc_share(st, claimable) ==
    IF st.total_sui_at_hedge_start = 0 \/ st.usdc_balance = 0 THEN 0
    ELSE AtMost(proportional(claimable, st.usdc_balance, st.total_sui_at_hedge_start),
                st.usdc_balance)

compute_mixed_shares(st, claimable) ==
    IF st.total_sui_at_hedge_start = 0 THEN [sui |-> claimable, usdc |-> 0]
    ELSE [sui  |-> AtMost(proportional(claimable, st.balance,
                                       st.total_sui_at_hedge_start), st.balance),
          usdc |-> AtMost(proportional(claimable, st.usdc_balance,
                                       st.total_sui_at_hedge_start), st.usdc_balance)]

\* A share that does not fit in u64 aborts the claim, before it is clamped.
SharesFit(st, claimable) ==
    st.total_sui_at_hedge_start > 0 =>
        /\ FitsU64(proportional(claimable, st.usdc_balance, st.total_sui_at_hedge_start))
        /\ st.liquidation_status = STATUS_TWAP_ACTIVE =>
             FitsU64(proportional(claimable, st.balance, st.total_sui_at_hedge_start))

----------------------------------------------------------------------------
(* TWAP *)

resolve_twap_preset(preset, hedge_direction) ==
    IF hedge_direction = HEDGE_NONE THEN TWAP_PRESETS[PRESET_CORPORATE]
    ELSE TWAP_PRESETS[preset]

\* The last tranche sweeps the escrow; an earlier one takes an even part of it.
tranche_size(st) ==
    IF st.tranches_executed + 1 = st.twap_tranches THEN st.balance
    ELSE st.balance \div (st.twap_tranches - st.tranches_executed)

=============================================================================
