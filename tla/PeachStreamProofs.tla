-------------------------- MODULE PeachStreamProofs --------------------------
(***************************************************************************)
(* The invariants of PeachStream hold for all streams, offers, prices,     *)
(* pools and clocks.  IndInv is inductive.  Every action changes one       *)
(* stream, so its step is proved on the values of that stream (StreamInv)  *)
(* and lifted to all streams by StreamUpdate.  The claims come first, one  *)
(* branch for each state of a liquidation, then cancellation and creation. *)
(***************************************************************************)
EXTENDS PeachStreamFacts

----------------------------------------------------------------------------
(* The branches of a claim *)

\* new is st with both balances set.
Edited(st, new, balance, usdc_balance) ==
    /\ new \in StreamType
    /\ SameTerms(st, new)
    /\ new.withdrawn = st.withdrawn
    /\ new.balance = balance
    /\ new.usdc_balance = usdc_balance
    /\ st.hedge_triggered => new.hedge_triggered

\* The edits the branches of a claim make.
LEMMA ClaimEdits ==
    ASSUME NEW st \in StreamType, NEW b \in Nat, NEW u \in Nat, NEW d \in Nat, NEW t \in Nat
    PROVE  /\ Edited(st, [st EXCEPT !.accumulated_hedge_debt = d, !.hedge_triggered = TRUE,
                                    !.balance = b, !.total_hedged_amount = t],
                     b, st.usdc_balance)
           /\ Edited(st, [st EXCEPT !.accumulated_hedge_debt = d, !.balance = b],
                     b, st.usdc_balance)
           /\ Edited(st, [st EXCEPT !.usdc_balance = u], st.balance, u)
           /\ Edited(st, [st EXCEPT !.balance = b, !.usdc_balance = u], b, u)
  BY Zenon DEF Edited, StreamType, SameTerms

\* Charging and then editing a stream has the effect of a claim, provided the coins
\* add up and the SUI paid is covered by the claim.
LEMMA BranchInv ==
    ASSUME IndInv, NEW s \in Streams, s \in live, newly_vested(stream[s], clock) > 0,
           NEW st, NEW new, NEW b \in Nat, NEW u \in Nat,
           NEW fee \in Nat, NEW sui \in Nat, NEW usdc \in Nat,
           NEW swap, swap.sold \in Nat, swap.usdc_out \in Nat,
           Charged(stream[s], st, newly_vested(stream[s], clock), fee),
           Edited(st, new, b, u),
           b + sui + swap.sold = st.balance,
           u + usdc = st.usdc_balance + swap.usdc_out,
           sui + fee <= newly_vested(stream[s], clock),
           swap.usdc_out <= usdc,
           st.liquidation_status = STATUS_HEALTHY => usdc = swap.usdc_out,
           Unhedged(stream[s])
             => swap.sold = 0 /\ sui + fee = newly_vested(stream[s], clock),
           finish_claim(s, new, fee, sui, usdc, swap)
    PROVE  IndInv' /\ Claimed(s)
<1>. DEFINE old == stream[s]
            claimable == newly_vested(stream[s], clock)
<1>1. old \in StreamType
  BY LiveStream, Zenon
<1>2. /\ SameTerms(old, new) /\ new.withdrawn = old.withdrawn + claimable
      /\ new.balance = b /\ new.usdc_balance = u /\ st.balance + fee = old.balance
      /\ st.usdc_balance = old.usdc_balance /\ st.balance \in Nat /\ old.balance \in Nat
      /\ old.hedge_triggered => new.hedge_triggered
      /\ old.liquidation_status = st.liquidation_status
  BY <1>1, ZenonT(40) DEF Charged, Edited, SameTerms, StreamType
<1>3. new.balance + fee + sui + swap.sold = old.balance
  <2>1. b + sui + swap.sold = st.balance /\ swap.sold \in Nat
    BY Zenon
  <2>2. (b + sui + swap.sold) + fee = old.balance
    BY <1>2, <2>1, Zenon
  <2>3. (b + sui + swap.sold) + fee = b + fee + sui + swap.sold
    BY <2>1, SMT
  <2>. QED  BY <1>2, <2>2, <2>3, Zenon
<1>4. ClaimEffect(old, new, claimable, fee, sui, usdc, swap)
  BY <1>2, <1>3, Zenon DEF ClaimEffect
<1>. QED  BY <1>4, FinishClaimInv, Zenon DEF Edited

\* A clamped proportional share is a natural number within its pool.
LEMMA ClampedShare ==
    ASSUME NEW units \in Nat, NEW pool \in Nat, NEW baseline \in Nat \ {0}
    PROVE  /\ AtMost(proportional(units, pool, baseline), pool) \in Nat
           /\ AtMost(proportional(units, pool, baseline), pool) <= pool
<1>. DEFINE q == proportional(units, pool, baseline)
<1>1. q \in Nat
  <2>1. units * pool \in Nat
    BY SMT
  <2>. QED  BY <2>1, DivBounds, Zenon DEF proportional
<1>. HIDE DEF q
<1>2. AtMost(q, pool) \in Nat /\ AtMost(q, pool) <= pool
  BY <1>1 DEF AtMost
<1>. QED  BY <1>2, Zenon DEF q

\* compute_usdc_share never promises more USDC than the stream holds.
LEMMA UsdcShareBound ==
    ASSUME NEW st \in StreamType, NEW units \in Nat
    PROVE  /\ compute_usdc_share(st, units) \in Nat
           /\ compute_usdc_share(st, units) <= st.usdc_balance
<1>. DEFINE pool == st.usdc_balance  baseline == st.total_sui_at_hedge_start
<1>1. pool \in Nat /\ baseline \in Nat
  BY Zenon DEF StreamType
<1>2. compute_usdc_share(st, units) = IF baseline = 0 \/ pool = 0 THEN 0
                                      ELSE AtMost(proportional(units, pool, baseline), pool)
  BY Zenon DEF compute_usdc_share
<1>. HIDE DEF pool, baseline
<1>3. CASE baseline = 0 \/ pool = 0
  BY <1>1, <1>2, <1>3 DEF pool
<1>4. CASE ~(baseline = 0 \/ pool = 0)
  BY <1>1, <1>2, <1>4, ClampedShare, Zenon DEF pool
<1>. QED  BY <1>3, <1>4, Zenon

\* Only a stream that asked for protection leaves HEALTHY.
LEMMA OnlyProtectedAreHedged ==
    ASSUME IndInv, NEW s \in Streams, s \in live, Unhedged(stream[s])
    PROVE  stream[s].liquidation_status = STATUS_HEALTHY
<1>1. StreamInv(TRUE, stream[s], vault[s], record[s], ledger[s], clock)
  BY LiveStream, Zenon
<1>2. Bookkept(TRUE, stream[s], vault[s], record[s], ledger[s], clock)
  BY <1>1, Zenon DEF StreamInv
<1>. QED  BY <1>2, Zenon DEF Bookkept

\* A HEALTHY claim pays in SUI, or in the USDC it just bought.
LEMMA HealthyClaimInv ==
    ASSUME IndInv, NEW s \in Streams, s \in live, newly_vested(stream[s], clock) > 0,
           NEW st, NEW fee \in Nat, NEW net \in Nat,
           Charged(stream[s], st, newly_vested(stream[s], clock), fee),
           fee + net <= newly_vested(stream[s], clock),
           Unhedged(stream[s]) => fee + net = newly_vested(stream[s], clock),
           st.liquidation_status = STATUS_HEALTHY,
           claim_healthy(s, st, fee, net)
    PROVE  IndInv' /\ Claimed(s)
<1>. DEFINE total_to_hedge == net + st.accumulated_hedge_debt
            claimable == newly_vested(stream[s], clock)
            u == st.usdc_balance
<1>1. /\ st \in StreamType /\ st.balance \in Nat /\ u \in Nat /\ total_to_hedge \in Nat
      /\ st.total_hedged_amount \in Nat /\ claimable \in Nat
      /\ Unhedged(st) <=> Unhedged(stream[s])
  <2>1. st \in StreamType /\ SameTerms(stream[s], st)
    BY Zenon DEF Charged
  <2>2. /\ st.balance \in Nat /\ u \in Nat /\ st.accumulated_hedge_debt \in Nat
        /\ st.total_hedged_amount \in Nat
    BY <2>1, Zenon DEF StreamType
  <2>3. total_to_hedge \in Nat
    BY <2>2, SMT
  <2>4. claimable \in Nat
    BY Claimable, Zenon
  <2>5. Unhedged(st) <=> Unhedged(stream[s])
    BY <2>1, Zenon DEF SameTerms, Unhedged
  <2>. QED  BY <2>1, <2>2, <2>3, <2>4, <2>5, Zenon
<1>2. ASSUME in_breach(st), total_to_hedge <= st.balance,
             NEW swap \in swap_sui_to_usdc_guarded(total_to_hedge, 0),
             finish_claim(s, [st EXCEPT !.accumulated_hedge_debt = 0,
                                        !.hedge_triggered = TRUE,
                                        !.balance = @ - swap.sold,
                                        !.total_hedged_amount = @ + total_to_hedge],
                          fee, 0, swap.usdc_out, swap)
      PROVE  IndInv' /\ Claimed(s)
  <2>. DEFINE b == st.balance - swap.sold
              t == st.total_hedged_amount + total_to_hedge
              new == [st EXCEPT !.accumulated_hedge_debt = 0, !.hedge_triggered = TRUE,
                                !.balance = b, !.total_hedged_amount = t]
  <2>1. /\ swap.sold \in Nat /\ swap.sold <= total_to_hedge /\ swap.usdc_out \in Nat
        /\ swap.usdc_out <= swap.usdc_out /\ 0 \in Nat
    BY <1>1, SwapBound
  <2>2. ~Unhedged(stream[s])
    BY <1>1, <1>2, BreachIsProtected, Zenon
  <2>3. b \in Nat /\ t \in Nat /\ b + 0 + swap.sold = st.balance
    BY <1>1, <1>2, <2>1
  <2>4. finish_claim(s, new, fee, 0, swap.usdc_out, swap)
    BY <1>2, Zenon
  <2>. HIDE DEF b, t, total_to_hedge
  <2>5. Edited(st, new, b, u)
    BY <1>1, <2>3, ClaimEdits, Zenon
  <2>6. 0 + fee <= claimable /\ u + swap.usdc_out = st.usdc_balance + swap.usdc_out
    BY <1>1
  <2>. HIDE DEF new, u, claimable
  <2>. QED  BY <1>1, <2>1, <2>2, <2>3, <2>4, <2>5, <2>6, BranchInv, ZenonT(40) DEF claimable
<1>3. ASSUME NEW d \in Nat, net <= st.balance,
             finish_claim(s, [st EXCEPT !.accumulated_hedge_debt = d,
                                        !.balance = @ - net], fee, net, 0, NoSwap)
      PROVE  IndInv' /\ Claimed(s)
  <2>. DEFINE b == st.balance - net
              new == [st EXCEPT !.accumulated_hedge_debt = d, !.balance = b]
  <2>1. /\ 0 \in Nat /\ NoSwap.sold = 0 /\ NoSwap.usdc_out = 0 /\ NoSwap.usdc_out <= 0
        /\ b \in Nat /\ b + net + NoSwap.sold = st.balance
        /\ u + 0 = st.usdc_balance + NoSwap.usdc_out
    BY <1>1, <1>3 DEF NoSwap
  <2>2. finish_claim(s, new, fee, net, 0, NoSwap)
    BY <1>3, Zenon
  <2>. HIDE DEF b
  <2>3. Edited(st, new, b, u)
    BY <1>1, <2>1, ClaimEdits, Zenon
  <2>4. net + fee <= claimable /\ (Unhedged(stream[s]) => net + fee = claimable)
    BY <1>1, SMTT(40)
  <2>. HIDE DEF new, u, claimable
  <2>. QED  BY <1>1, <2>1, <2>2, <2>3, <2>4, BranchInv, ZenonT(40) DEF claimable
<1>. QED  BY <1>1, <1>2, <1>3, Zenon DEF claim_healthy

\* A claim on a FULLY_HEDGED stream pays from the USDC pool, never more than it holds.
LEMMA FullyHedgedClaimInv ==
    ASSUME IndInv, NEW s \in Streams, s \in live, newly_vested(stream[s], clock) > 0,
           NEW st, NEW fee \in Nat, NEW net \in Nat,
           Charged(stream[s], st, newly_vested(stream[s], clock), fee),
           fee + net <= newly_vested(stream[s], clock),
           st.liquidation_status = STATUS_FULLY_HEDGED,
           claim_fully_hedged(s, st, fee, net)
    PROVE  IndInv' /\ Claimed(s)
<1>. DEFINE share == compute_usdc_share(st, net)
            claimable == newly_vested(stream[s], clock)
            u == st.usdc_balance - share
            b == st.balance
            new == [st EXCEPT !.usdc_balance = u]
<1>1. /\ st \in StreamType /\ b \in Nat /\ st.usdc_balance \in Nat /\ claimable \in Nat
      /\ st.total_sui_at_hedge_start \in Nat
  BY Claimable, Zenon DEF Charged, StreamType
<1>2. share \in Nat /\ share <= st.usdc_balance
  BY <1>1, UsdcShareBound, Zenon
<1>3. ~Unhedged(stream[s])
  <2>1. stream[s].liquidation_status = STATUS_FULLY_HEDGED
    BY Zenon DEF Charged, SameTerms
  <2>2. STATUS_FULLY_HEDGED # STATUS_HEALTHY
    BY DEF STATUS_HEALTHY, STATUS_FULLY_HEDGED
  <2>. QED  BY <2>1, <2>2, OnlyProtectedAreHedged, Zenon
<1>4. finish_claim(s, new, fee, 0, share, NoSwap)
  BY Zenon DEF claim_fully_hedged
<1>. HIDE DEF share
<1>5. /\ NoSwap.sold = 0 /\ NoSwap.usdc_out = 0 /\ u \in Nat
      /\ b + 0 + NoSwap.sold = st.balance
      /\ u + share = st.usdc_balance + NoSwap.usdc_out
      /\ 0 + fee <= claimable
  BY <1>1, <1>2 DEF NoSwap
<1>6. Edited(st, new, b, u)
  <2>. HIDE DEF u
  <2>. QED  BY <1>1, <1>5, ClaimEdits, Zenon
<1>7. st.liquidation_status # STATUS_HEALTHY
  BY DEF STATUS_HEALTHY, STATUS_FULLY_HEDGED
<1>. HIDE DEF new, u, b, claimable
<1>. QED  BY <1>1, <1>2, <1>3, <1>4, <1>5, <1>6, <1>7, BranchInv DEF claimable

\* A claim on a TWAP_ACTIVE stream takes its part of both pools; the SUI part is
\* covered by the claim because the escrow is within the baseline.
LEMMA TwapActiveClaimInv ==
    ASSUME IndInv, NEW s \in Streams, s \in live, newly_vested(stream[s], clock) > 0,
           NEW st, NEW fee \in Nat, NEW net \in Nat,
           Charged(stream[s], st, newly_vested(stream[s], clock), fee),
           fee + net <= newly_vested(stream[s], clock),
           st.liquidation_status = STATUS_TWAP_ACTIVE,
           claim_twap_active(s, st, fee, net)
    PROVE  IndInv' /\ Claimed(s)
<1>. DEFINE share == compute_mixed_shares(st, net)
            sui == share.sui
            usdc == share.usdc
            claimable == newly_vested(stream[s], clock)
            b == st.balance - sui
            u == st.usdc_balance - usdc
            baseline == st.total_sui_at_hedge_start
            new == [st EXCEPT !.balance = b, !.usdc_balance = u]
<1>1. /\ st \in StreamType /\ st.balance \in Nat /\ st.usdc_balance \in Nat
      /\ claimable \in Nat /\ baseline \in Nat
  BY Claimable, Zenon DEF Charged, StreamType
<1>2. baseline > 0 /\ st.balance <= baseline
  <2>1. HedgeCoherent(stream[s])
    BY LiveStream, Zenon DEF StreamInv
  <2>2. /\ stream[s].liquidation_status = STATUS_TWAP_ACTIVE
        /\ stream[s].total_sui_at_hedge_start = baseline
        /\ st.balance + fee = stream[s].balance
    BY Zenon DEF Charged, SameTerms
  <2>3. baseline > 0 /\ stream[s].balance <= baseline
    BY <2>1, <2>2 DEF HedgeCoherent, STATUS_HEALTHY, STATUS_TWAP_ACTIVE
  <2>. QED  BY <1>1, <2>2, <2>3
<1>3. /\ sui = AtMost(proportional(net, st.balance, baseline), st.balance)
      /\ usdc = AtMost(proportional(net, st.usdc_balance, baseline), st.usdc_balance)
  BY <1>2 DEF compute_mixed_shares
<1>4. /\ sui \in Nat /\ sui <= st.balance
      /\ usdc \in Nat /\ usdc <= st.usdc_balance
  <2>. HIDE DEF sui, usdc, baseline
  <2>1. baseline \in Nat \ {0}
    BY <1>1, <1>2
  <2>2. sui \in Nat /\ sui <= st.balance
    BY <1>1, <1>3, <2>1, ClampedShare, Zenon
  <2>3. usdc \in Nat /\ usdc <= st.usdc_balance
    BY <1>1, <1>3, <2>1, ClampedShare, Zenon
  <2>. QED  BY <2>2, <2>3, Zenon
<1>5. sui <= net
  <2>. DEFINE q == proportional(net, st.balance, baseline)
  <2>. HIDE DEF baseline
  <2>1. q \in Nat /\ q <= net
    <3>1. baseline \in Nat \ {0}
      BY <1>1, <1>2
    <3>. QED  BY <1>1, <1>2, <3>1, ShareBound, Zenon
  <2>. HIDE DEF q, sui
  <2>2. sui = AtMost(q, st.balance)
    BY <1>3, Zenon DEF q
  <2>. QED  BY <1>1, <2>1, <2>2 DEF AtMost
<1>6. ~Unhedged(stream[s])
  <2>1. stream[s].liquidation_status = STATUS_TWAP_ACTIVE
    BY Zenon DEF Charged, SameTerms
  <2>2. STATUS_TWAP_ACTIVE # STATUS_HEALTHY
    BY DEF STATUS_HEALTHY, STATUS_TWAP_ACTIVE
  <2>. QED  BY <2>1, <2>2, OnlyProtectedAreHedged, Zenon
<1>7. finish_claim(s, new, fee, sui, usdc, NoSwap)
  BY Zenon DEF claim_twap_active
<1>. HIDE DEF share, sui, usdc
<1>8. /\ NoSwap.sold = 0 /\ NoSwap.usdc_out = 0 /\ u \in Nat /\ b \in Nat
      /\ b + sui + NoSwap.sold = st.balance
      /\ u + usdc = st.usdc_balance + NoSwap.usdc_out
      /\ sui + fee <= claimable
  BY <1>1, <1>4, <1>5 DEF NoSwap
<1>9. Edited(st, new, b, u)
  <2>. HIDE DEF u, b
  <2>. QED  BY <1>1, <1>8, ClaimEdits, Zenon
<1>10. st.liquidation_status # STATUS_HEALTHY
  BY DEF STATUS_HEALTHY, STATUS_TWAP_ACTIVE
<1>. HIDE DEF new, u, b, claimable
<1>. QED  BY <1>1, <1>4, <1>6, <1>7, <1>8, <1>9, <1>10, BranchInv DEF claimable

\* claim_stream preserves the invariant.
LEMMA ClaimInv ==
    ASSUME IndInv, NEW s \in Streams, claim_stream(s)
    PROVE  IndInv' /\ Claimed(s)
<1>. DEFINE old == stream[s]
            claimable == newly_vested(stream[s], clock)
            charged == calculate_fee(claimable, old.total_amount, spot_price,
                                     old.strike_price, old.hedge_direction)
            net == claimable - charged
            fee == IF old.balance >= charged THEN charged ELSE 0
            st == [old EXCEPT !.withdrawn = @ + claimable, !.balance = @ - fee]
<1>1. /\ s \in live /\ claimable > 0
      /\ \/ /\ st.liquidation_status = STATUS_HEALTHY
            /\ claim_healthy(s, st, fee, net)
         \/ /\ st.liquidation_status = STATUS_FULLY_HEDGED
            /\ claim_fully_hedged(s, st, fee, net)
         \/ /\ st.liquidation_status = STATUS_TWAP_ACTIVE
            /\ claim_twap_active(s, st, fee, net)
  BY Zenon DEF claim_stream
<1>2. claimable \in Nat
  BY <1>1, Claimable, Zenon
<1>3. charged \in Nat /\ charged <= claimable
  <2>. HIDE DEF claimable
  <2>. QED  BY <1>2, FeeBound, Zenon
<1>4. st = Charge(old, old.withdrawn + claimable, old.balance - fee)
  BY Zenon DEF Charge
<1>5. fee = IF old.balance >= charged THEN charged ELSE 0
  BY Zenon
<1>. HIDE DEF st, charged, fee
<1>6. /\ fee \in Nat /\ fee <= charged
      /\ Unhedged(old) => fee = charged
      /\ Charged(old, st, claimable, fee)
  <2>1. s \in live /\ newly_vested(stream[s], clock) > 0
    BY <1>1, Zenon
  <2>. QED  BY <2>1, <1>3, <1>4, <1>5, ChargedStream, Zenon
<1>7. /\ net \in Nat /\ fee + net <= claimable
      /\ Unhedged(old) => fee + net = claimable
  BY <1>2, <1>3, <1>6
<1>. HIDE DEF net
<1>8. CASE st.liquidation_status = STATUS_HEALTHY /\ claim_healthy(s, st, fee, net)
  BY <1>1, <1>6, <1>7, <1>8, HealthyClaimInv, Zenon
<1>9. CASE st.liquidation_status = STATUS_FULLY_HEDGED /\ claim_fully_hedged(s, st, fee, net)
  BY <1>1, <1>6, <1>7, <1>9, FullyHedgedClaimInv, Zenon
<1>10. CASE st.liquidation_status = STATUS_TWAP_ACTIVE /\ claim_twap_active(s, st, fee, net)
  BY <1>1, <1>6, <1>7, <1>10, TwapActiveClaimInv, Zenon
<1>. QED  BY <1>1, <1>8, <1>9, <1>10, Zenon

----------------------------------------------------------------------------
(* Cancellation *)

\* The coins a claim or a cancellation pays out, added to the ledger.
LEMMA PaidLedger ==
    ASSUME NEW l \in LedgerType, NEW fee \in Nat, NEW sui \in Nat, NEW usdc \in Nat,
           NEW swap, swap.sold \in Nat, swap.usdc_out \in Nat
    PROVE  /\ pay(l, fee, sui, usdc, swap) \in LedgerType
           /\ pay(l, fee, sui, usdc, swap).sui_receiver = l.sui_receiver + sui
           /\ pay(l, fee, sui, usdc, swap).usdc_receiver = l.usdc_receiver + usdc
           /\ pay(l, fee, sui, usdc, swap).sui_fees = l.sui_fees + fee
           /\ pay(l, fee, sui, usdc, swap).sui_sold = l.sui_sold + swap.sold
           /\ pay(l, fee, sui, usdc, swap).usdc_bought = l.usdc_bought + swap.usdc_out
           /\ pay(l, fee, sui, usdc, swap).usdc_bounty = l.usdc_bounty
           /\ pay(l, fee, sui, usdc, swap).sui_refunded = l.sui_refunded
           /\ pay(l, fee, sui, usdc, swap).usdc_refunded = l.usdc_refunded
<1>. DEFINE paid == pay(l, fee, sui, usdc, swap)
            to_receiver == l.sui_receiver + sui
            usdc_to_receiver == l.usdc_receiver + usdc
            fees == l.sui_fees + fee
            sold == l.sui_sold + swap.sold
            bought == l.usdc_bought + swap.usdc_out
<1>1. /\ to_receiver \in Nat /\ usdc_to_receiver \in Nat /\ fees \in Nat
      /\ sold \in Nat /\ bought \in Nat
  BY DEF LedgerType
<1>2. paid = [l EXCEPT !.sui_receiver = to_receiver, !.usdc_receiver = usdc_to_receiver,
                       !.sui_fees = fees, !.sui_sold = sold, !.usdc_bought = bought]
  BY Zenon DEF pay
<1>3. /\ paid \in LedgerType
      /\ paid.sui_receiver = to_receiver /\ paid.usdc_receiver = usdc_to_receiver
      /\ paid.sui_fees = fees /\ paid.sui_sold = sold /\ paid.usdc_bought = bought
      /\ paid.usdc_bounty = l.usdc_bounty
      /\ paid.sui_refunded = l.sui_refunded /\ paid.usdc_refunded = l.usdc_refunded
  <2>. HIDE DEF paid, to_receiver, usdc_to_receiver, fees, sold, bought
  <2>. QED  BY <1>1, <1>2, Zenon DEF LedgerType
<1>. QED  BY <1>3, Zenon

\* A cancellation that pays the receiver no more SUI than is earned, and takes both
\* payments out of what the stream holds, leaves an invariant-respecting vault.
LEMMA FinishCancelInv ==
    ASSUME IndInv, NEW s \in Streams, s \in live,
           NEW sui \in Nat, NEW usdc \in Nat,
           NEW swap, swap.sold \in Nat, swap.usdc_out \in Nat,
           sui <= newly_vested(stream[s], clock),
           sui + swap.sold <= stream[s].balance,
           usdc <= stream[s].usdc_balance + swap.usdc_out,
           finish_cancel(s, sui, usdc, swap)
    PROVE  IndInv'
<1>. DEFINE old == stream[s]  r == record[s]  l == ledger[s]
            refund_sui == old.balance - sui - swap.sold
            refund_usdc == old.usdc_balance + swap.usdc_out - usdc
            debt == old.accumulated_hedge_debt
            v == [exists |-> TRUE, owner |-> old.sender, sui_balance |-> refund_sui,
                  usdc_balance |-> refund_usdc, pending_hedge_debt |-> debt]
            rec == record_cancellation(r, sui + usdc, refund_sui + refund_usdc)
            paid == pay(l, 0, sui, usdc, swap)
<1>1. /\ old \in StreamType /\ vault[s] \in VaultType /\ r \in RecordType
      /\ l \in LedgerType /\ clock \in Nat /\ registry \in RegistryType
      /\ StreamInv(TRUE, old, vault[s], r, l, clock)
  BY LiveStream, Zenon
<1>2. /\ refund_sui \in Nat /\ refund_usdc \in Nat /\ old.sender \in Accounts
      /\ debt \in Nat /\ sui + usdc \in Nat /\ refund_sui + refund_usdc \in Nat
      /\ refund_sui + sui + swap.sold = old.balance
      /\ refund_usdc + usdc = old.usdc_balance + swap.usdc_out
      /\ old.balance \in Nat /\ old.usdc_balance \in Nat
  BY <1>1 DEF StreamType
<1>3. /\ stream' = [stream EXCEPT ![s] = NoStream] /\ vault' = [vault EXCEPT ![s] = v]
      /\ record' = [record EXCEPT ![s] = rec] /\ ledger' = [ledger EXCEPT ![s] = paid]
      /\ live' = live \ {s} /\ clock' = clock /\ registry' = registry
  BY Zenon DEF finish_cancel
<1>4. /\ v \in VaultType /\ v.exists /\ v.sui_balance = refund_sui
      /\ v.usdc_balance = refund_usdc
  <2>. HIDE DEF refund_sui, refund_usdc, debt, old
  <2>. QED  BY <1>2, Zenon DEF VaultType
<1>5. /\ rec \in RecordType /\ rec.status = STATUS_CANCELED
      /\ rec.total_amount = r.total_amount
      /\ rec.start_time = r.start_time /\ rec.end_time = r.end_time
      /\ rec.sender_refunded = refund_sui + refund_usdc
  <2>. DEFINE settle == sui + usdc
              refunded == refund_sui + refund_usdc
              c == record_cancellation(r, settle, refunded)
  <2>1. rec = c
    BY Zenon
  <2>2. settle \in Nat /\ refunded \in Nat /\ r \in RecordType /\ clock \in Nat
    BY <1>1, <1>2, Zenon
  <2>. HIDE DEF settle, refunded, r, rec
  <2>3. /\ c \in RecordType /\ c.status = STATUS_CANCELED
        /\ c.total_amount = r.total_amount
        /\ c.start_time = r.start_time /\ c.end_time = r.end_time
        /\ c.sender_refunded = refunded
    BY <2>2, Zenon DEF record_cancellation, RecordType
  <2>. HIDE DEF c
  <2>. QED  BY <2>1, <2>3, Zenon DEF refunded
<1>6. /\ paid \in LedgerType
      /\ paid.sui_receiver = l.sui_receiver + sui
      /\ paid.usdc_receiver = l.usdc_receiver + usdc
      /\ paid.sui_fees = l.sui_fees + 0
      /\ paid.sui_sold = l.sui_sold + swap.sold
      /\ paid.usdc_bought = l.usdc_bought + swap.usdc_out
      /\ paid.usdc_bounty = l.usdc_bounty
      /\ paid.sui_refunded = l.sui_refunded /\ paid.usdc_refunded = l.usdc_refunded
  <2>. HIDE DEF l
  <2>. QED  BY <1>1, PaidLedger
<1>7. /\ vault[s].sui_balance = 0 /\ vault[s].usdc_balance = 0
      /\ l.sui_refunded = 0 /\ l.usdc_refunded = 0
      /\ r.start_time < r.end_time
      /\ l.sui_receiver + l.sui_fees <= old.withdrawn
  <2>1. RecordMatches(TRUE, old, vault[s], r, l) /\ Bookkept(TRUE, old, vault[s], r, l, clock)
    BY <1>1, Zenon DEF StreamInv
  <2>2. r.status # RECORD_NONE /\ ~vault[s].exists
    BY <2>1, Zenon DEF RecordMatches, RECORD_NONE, STATUS_ACTIVE, STATUS_COMPLETED, STATUS_CANCELED
  <2>. QED  BY <2>1, <2>2, EmptyFields, Zenon DEF Bookkept
<1>8. vested_by(rec, clock) = vested_by(r, clock)
  BY <1>5, Zenon DEF vested_by
<1>9. sui + old.withdrawn <= vested_by(r, clock)
  BY <1>1, Claimable DEF StreamType
<1>10. /\ l.sui_receiver \in Nat /\ l.usdc_receiver \in Nat /\ l.sui_fees \in Nat
       /\ l.sui_sold \in Nat /\ l.usdc_bought \in Nat /\ l.usdc_bounty \in Nat
       /\ old.withdrawn \in Nat /\ vested_by(r, clock) \in Nat
       /\ r.total_amount = old.balance + l.sui_receiver + l.sui_fees + l.sui_sold
       /\ l.usdc_bought = old.usdc_balance + l.usdc_receiver + l.usdc_bounty
  <2>1. vested_by(r, clock) \in Nat
    BY <1>1, <1>7, VestedByBound, Zenon
  <2>2. /\ l.sui_receiver \in Nat /\ l.usdc_receiver \in Nat /\ l.sui_fees \in Nat
        /\ l.sui_sold \in Nat /\ l.usdc_bought \in Nat /\ l.usdc_bounty \in Nat
        /\ old.withdrawn \in Nat
    BY <1>1, Zenon DEF LedgerType, StreamType
  <2>3. Conserved(old, vault[s], r, l)
    BY <1>1, Zenon DEF StreamInv
  <2>. HIDE DEF old, r, l
  <2>4. /\ r.total_amount = old.balance + vault[s].sui_balance + l.sui_receiver
                           + l.sui_fees + l.sui_sold + l.sui_refunded
        /\ l.usdc_bought = old.usdc_balance + vault[s].usdc_balance + l.usdc_receiver
                           + l.usdc_bounty + l.usdc_refunded
    BY <2>3, Zenon DEF Conserved
  <2>5. r.total_amount = old.balance + l.sui_receiver + l.sui_fees + l.sui_sold
    BY <1>2, <1>7, <2>2, <2>4
  <2>6. l.usdc_bought = old.usdc_balance + l.usdc_receiver + l.usdc_bounty
    BY <1>2, <1>7, <2>2, <2>4
  <2>. QED  BY <2>1, <2>2, <2>5, <2>6, Zenon
<1>. HIDE DEF old, r, l, refund_sui, refund_usdc, debt, v, rec, paid
<1>11. StreamInv(FALSE, NoStream, v, rec, paid, clock)
  <2>1. Conserved(NoStream, v, rec, paid)
    <3>1. rec.total_amount = NoStream.balance + v.sui_balance + paid.sui_receiver
                             + paid.sui_fees + paid.sui_sold + paid.sui_refunded
      <4>1. /\ NoStream.balance = 0 /\ v.sui_balance = refund_sui
            /\ paid.sui_refunded = 0 /\ rec.total_amount = r.total_amount
        BY <1>4, <1>5, <1>6, <1>7, EmptyFields, Zenon
      <4>2. /\ paid.sui_receiver = l.sui_receiver + sui /\ paid.sui_fees = l.sui_fees + 0
            /\ paid.sui_sold = l.sui_sold + swap.sold
        BY <1>6, Zenon
      <4>. QED  BY <1>2, <1>10, <4>1, <4>2
    <3>2. paid.usdc_bought = NoStream.usdc_balance + v.usdc_balance + paid.usdc_receiver
                             + paid.usdc_bounty + paid.usdc_refunded
      <4>1. /\ NoStream.usdc_balance = 0 /\ v.usdc_balance = refund_usdc
            /\ paid.usdc_refunded = 0 /\ paid.usdc_bounty = l.usdc_bounty
        BY <1>4, <1>6, <1>7, EmptyFields, Zenon
      <4>2. /\ paid.usdc_receiver = l.usdc_receiver + usdc
            /\ paid.usdc_bought = l.usdc_bought + swap.usdc_out
        BY <1>6, Zenon
      <4>3. /\ refund_usdc + usdc = old.usdc_balance + swap.usdc_out
            /\ l.usdc_bought = old.usdc_balance + l.usdc_receiver + l.usdc_bounty
            /\ refund_usdc \in Nat /\ old.usdc_balance \in Nat
            /\ l.usdc_receiver \in Nat /\ l.usdc_bounty \in Nat
        BY <1>2, <1>10, Zenon
      <4>. QED  BY <4>1, <4>2, <4>3
    <3>. QED  BY <3>1, <3>2, Zenon DEF Conserved
  <2>2. paid.sui_receiver + paid.sui_fees <= vested_by(rec, clock)
    BY <1>6, <1>7, <1>8, <1>9, <1>10
  <2>3. HedgeCoherent(NoStream) /\ Spread(NoStream, paid, clock)
    BY EmptyFields DEF HedgeCoherent, Spread, STATUS_HEALTHY, STATUS_TWAP_ACTIVE,
           STATUS_FULLY_HEDGED
  <2>4. RecordMatches(FALSE, NoStream, v, rec, paid)
    BY <1>2, <1>4, <1>5, <1>6, <1>7
    DEF RecordMatches, STATUS_ACTIVE, STATUS_COMPLETED, STATUS_CANCELED
  <2>5. FullyBacked(FALSE, NoStream, rec, paid)
    BY Zenon DEF FullyBacked
  <2>6. Bookkept(FALSE, NoStream, v, rec, paid, clock)
    BY <1>4, <1>5, <1>7, Zenon DEF Bookkept, RECORD_NONE, STATUS_CANCELED
  <2>. QED  BY <2>1, <2>2, <2>3, <2>4, <2>5, <2>6, Zenon DEF StreamInv
<1>12. live' = IF FALSE THEN live \cup {s} ELSE live \ {s}
  BY <1>3, Zenon
<1>. QED  BY <1>1, <1>3, <1>4, <1>5, <1>6, <1>11, <1>12, EmptyTypes, StreamUpdate, Zenon

\* The payments of a cancellation that FinishCancelInv allows.
Payable(st, sui, usdc, swap, now) ==
    /\ sui \in Nat /\ usdc \in Nat /\ swap.sold \in Nat /\ swap.usdc_out \in Nat
    /\ sui <= newly_vested(st, now)
    /\ sui + swap.sold <= st.balance
    /\ usdc <= st.usdc_balance + swap.usdc_out

\* A cancellation with such payments preserves the invariant.
LEMMA PayableCancel ==
    ASSUME IndInv, NEW s \in Streams, s \in live, NEW sui, NEW usdc, NEW swap,
           Payable(stream[s], sui, usdc, swap, clock), finish_cancel(s, sui, usdc, swap)
    PROVE  IndInv'
  BY FinishCancelInv, Zenon DEF Payable

\* A share that is paid only if covered is at most the share and at most the pool.
LEMMA CoveredShare ==
    ASSUME NEW share \in Nat, NEW pool \in Nat
    PROVE  /\ PaidIfCovered(share, pool) \in Nat
           /\ PaidIfCovered(share, pool) <= share
           /\ PaidIfCovered(share, pool) <= pool
  BY DEF PaidIfCovered

\* cancel_stream preserves the invariant.
LEMMA CancelInv ==
    ASSUME IndInv, NEW s \in Streams, NEW caller \in Accounts, cancel_stream(s, caller)
    PROVE  IndInv'
<1>. DEFINE st == stream[s]
            earned == newly_vested(st, clock)
            settle == AtMost(earned, st.balance)
            healthy == st.liquidation_status = STATUS_HEALTHY
            baseline == IF st.total_sui_at_hedge_start > 0
                        THEN st.total_sui_at_hedge_start ELSE st.total_amount
            sui == PaidIfCovered(proportional(earned, st.balance, baseline), st.balance)
            usdc == PaidIfCovered(proportional(earned, st.usdc_balance, baseline),
                                  st.usdc_balance)
<1>1. /\ s \in live
      /\ \/ finish_cancel(s, 0, 0, NoSwap)
         \/ \E swap \in swap_sui_to_usdc_guarded(settle, 0) :
              finish_cancel(s, 0, swap.usdc_out, swap)
         \/ finish_cancel(s, settle, 0, NoSwap)
         \/ ~healthy /\ finish_cancel(s, sui, usdc, NoSwap)
  BY Zenon DEF cancel_stream
<1>2. /\ st \in StreamType /\ earned \in Nat /\ st.balance \in Nat /\ st.usdc_balance \in Nat
      /\ st.total_sui_at_hedge_start \in Nat /\ st.total_amount \in Nat
      /\ NoSwap.sold = 0 /\ NoSwap.usdc_out = 0
      /\ StreamInv(TRUE, st, vault[s], record[s], ledger[s], clock)
  BY <1>1, LiveStream, Claimable, Zenon DEF StreamType, NoSwap
<1>3. settle \in Nat /\ settle <= earned /\ settle <= st.balance
  BY <1>2 DEF AtMost
<1>4. CASE finish_cancel(s, 0, 0, NoSwap)
  <2>1. Payable(st, 0, 0, NoSwap, clock)
    BY <1>2 DEF Payable
  <2>. QED  BY <1>1, <1>4, <2>1, PayableCancel, Zenon
<1>5. CASE \E swap \in swap_sui_to_usdc_guarded(settle, 0) :
             finish_cancel(s, 0, swap.usdc_out, swap)
  <2>. HIDE DEF settle
  <2>1. PICK swap \in swap_sui_to_usdc_guarded(settle, 0) :
          finish_cancel(s, 0, swap.usdc_out, swap)
    BY <1>5, Zenon
  <2>2. swap.sold \in Nat /\ swap.sold <= settle /\ swap.usdc_out \in Nat
    BY <1>3, SwapBound, Zenon
  <2>3. /\ 0 <= earned /\ 0 + swap.sold <= st.balance
        /\ swap.usdc_out <= st.usdc_balance + swap.usdc_out
    BY <1>2, <1>3, <2>2
  <2>4. Payable(st, 0, swap.usdc_out, swap, clock)
    BY <2>2, <2>3, Zenon DEF Payable
  <2>. QED  BY <1>1, <2>1, <2>4, PayableCancel, Zenon
<1>6. CASE finish_cancel(s, settle, 0, NoSwap)
  <2>. HIDE DEF settle
  <2>1. settle + NoSwap.sold <= st.balance /\ 0 <= st.usdc_balance + NoSwap.usdc_out
    BY <1>2, <1>3
  <2>2. Payable(st, settle, 0, NoSwap, clock)
    BY <1>2, <1>3, <2>1 DEF Payable
  <2>. QED  BY <1>1, <1>6, <2>2, PayableCancel, Zenon
<1>7. CASE ~healthy /\ finish_cancel(s, sui, usdc, NoSwap)
  <2>1. baseline \in Nat \ {0} /\ st.balance <= baseline
    <3>1. HedgeCoherent(st) /\ Bookkept(TRUE, st, vault[s], record[s], ledger[s], clock)
      BY <1>2, Zenon DEF StreamInv
    <3>2. st.balance <= st.total_sui_at_hedge_start /\ st.total_amount > 0
      <4>. HIDE DEF st
      <4>. QED  BY <1>7, <3>1, Zenon DEF HedgeCoherent, Bookkept, healthy
    <3>. QED  BY <1>2, <3>2
  <2>. DEFINE sui_share == proportional(earned, st.balance, baseline)
              usdc_share == proportional(earned, st.usdc_balance, baseline)
  <2>. HIDE DEF baseline
  <2>2. sui_share \in Nat /\ sui_share <= earned
    BY <1>2, <2>1, ShareBound, Zenon
  <2>3. usdc_share \in Nat
    <3>1. earned * st.usdc_balance \in Nat
      BY <1>2, SMT
    <3>. QED  BY <2>1, <3>1, DivBounds, Zenon DEF proportional
  <2>. HIDE DEF sui_share, usdc_share
  <2>4. sui \in Nat /\ sui <= sui_share /\ sui <= st.balance
    BY <1>2, <2>2, CoveredShare, Zenon DEF sui_share
  <2>5. usdc \in Nat /\ usdc <= st.usdc_balance
    BY <1>2, <2>3, CoveredShare, Zenon DEF usdc_share
  <2>. HIDE DEF sui, usdc
  <2>6. /\ sui <= earned /\ sui + NoSwap.sold <= st.balance
        /\ usdc <= st.usdc_balance + NoSwap.usdc_out
    BY <1>2, <2>2, <2>4, <2>5
  <2>7. Payable(st, sui, usdc, NoSwap, clock)
    BY <1>2, <2>4, <2>5, <2>6 DEF Payable
  <2>. QED  BY <1>1, <1>7, <2>7, PayableCancel, Zenon
<1>. QED  BY <1>1, <1>4, <1>5, <1>6, <1>7, Zenon

\* Dissolving a vault moves what it holds to the ledger of its owner.
LEMMA DissolveInv ==
    ASSUME IndInv, NEW s \in Streams, NEW caller \in Accounts,
           dissolve_salvage_vault(s, caller)
    PROVE  IndInv'
<1>. DEFINE st == stream[s]  v == vault[s]  r == record[s]  l == ledger[s]
            sui == l.sui_refunded + v.sui_balance
            usdc == l.usdc_refunded + v.usdc_balance
            paid == [l EXCEPT !.sui_refunded = sui, !.usdc_refunded = usdc]
<1>1. /\ st \in StreamType /\ v \in VaultType /\ r \in RecordType /\ l \in LedgerType
      /\ clock \in Nat /\ registry \in RegistryType
      /\ stream \in [Streams -> StreamType] /\ record \in [Streams -> RecordType]
      /\ StreamInv(s \in live, st, v, r, l, clock)
  <2>1. StreamInvAt(s)
    BY IndInvPerStream, Zenon
  <2>. QED  BY <2>1, Zenon DEF IndInv, TypeOK, StreamInvAt
<1>2. v.exists /\ r.status = STATUS_CANCELED /\ s \notin live
  BY <1>1, Zenon
  DEF dissolve_salvage_vault, StreamInv, RecordMatches, STATUS_CANCELED, STATUS_ACTIVE,
      STATUS_COMPLETED
<1>3. /\ vault' = [vault EXCEPT ![s] = NoVault] /\ ledger' = [ledger EXCEPT ![s] = paid]
      /\ clock' = clock /\ live' = live /\ stream' = stream /\ record' = record
      /\ registry' = registry
  BY Zenon DEF dissolve_salvage_vault, refund
<1>4. /\ v.sui_balance \in Nat /\ v.usdc_balance \in Nat
      /\ l.sui_refunded \in Nat /\ l.usdc_refunded \in Nat
      /\ sui \in Nat /\ usdc \in Nat
  BY <1>1 DEF VaultType, LedgerType
<1>5. StreamInv(FALSE, st, v, r, l, clock)
  <2>1. (s \in live) = FALSE
    BY <1>2
  <2>. QED  BY <1>1, <2>1, Zenon
<1>6. /\ paid \in LedgerType
      /\ paid.sui_receiver = l.sui_receiver /\ paid.usdc_receiver = l.usdc_receiver
      /\ paid.sui_fees = l.sui_fees /\ paid.sui_sold = l.sui_sold
      /\ paid.usdc_bought = l.usdc_bought /\ paid.usdc_bounty = l.usdc_bounty
      /\ paid.hedge_started_at = l.hedge_started_at
      /\ paid.sui_refunded = sui /\ paid.usdc_refunded = usdc
  <2>. HIDE DEF l, sui, usdc
  <2>. QED  BY <1>1, <1>4, Zenon DEF LedgerType
<1>. HIDE DEF paid
<1>7. StreamInv(FALSE, st, NoVault, r, paid, clock)
  <2>0. /\ Conserved(st, v, r, l) /\ HedgeCoherent(st) /\ Spread(st, l, clock)
        /\ RecordMatches(FALSE, st, v, r, l) /\ Bookkept(FALSE, st, v, r, l, clock)
        /\ l.sui_receiver + l.sui_fees <= vested_by(r, clock)
    BY <1>5, Zenon DEF StreamInv
  <2>1. Conserved(st, NoVault, r, paid)
    <3>0. /\ r.total_amount = st.balance + v.sui_balance + l.sui_receiver
                             + l.sui_fees + l.sui_sold + l.sui_refunded
          /\ l.usdc_bought = st.usdc_balance + v.usdc_balance + l.usdc_receiver
                             + l.usdc_bounty + l.usdc_refunded
      BY <2>0, Zenon DEF Conserved
    <3>1. /\ st.balance \in Nat /\ st.usdc_balance \in Nat
          /\ l.sui_receiver \in Nat /\ l.usdc_receiver \in Nat /\ l.sui_fees \in Nat
          /\ l.sui_sold \in Nat /\ l.usdc_bounty \in Nat
      BY <1>1, Zenon DEF StreamType, LedgerType
    <3>. HIDE DEF st, v, r, l
    <3>2. r.total_amount = st.balance + NoVault.sui_balance + paid.sui_receiver
                           + paid.sui_fees + paid.sui_sold + paid.sui_refunded
      BY <1>4, <1>6, <3>0, <3>1, EmptyFields
    <3>3. paid.usdc_bought = st.usdc_balance + NoVault.usdc_balance + paid.usdc_receiver
                             + paid.usdc_bounty + paid.usdc_refunded
      BY <1>4, <1>6, <3>0, <3>1, EmptyFields
    <3>. QED  BY <3>2, <3>3, Zenon DEF Conserved
  <2>2. Spread(st, paid, clock)
    BY <1>6, <2>0, Zenon DEF Spread
  <2>3. RecordMatches(FALSE, st, NoVault, r, paid)
    <3>. HIDE DEF st, v, r, l
    <3>1. r.sender_refunded = v.sui_balance + v.usdc_balance
                              + l.sui_refunded + l.usdc_refunded
      BY <1>2, <2>0, Zenon DEF RecordMatches
    <3>2. r.sender_refunded = NoVault.sui_balance + NoVault.usdc_balance
                              + paid.sui_refunded + paid.usdc_refunded
      BY <1>4, <1>6, <3>1, EmptyFields
    <3>. QED  BY <1>2, <2>0, <3>2, EmptyFields, Zenon DEF RecordMatches
  <2>4. FullyBacked(FALSE, st, r, paid)
    BY Zenon DEF FullyBacked
  <2>5. Bookkept(FALSE, st, NoVault, r, paid, clock)
    <3>1. r.status # RECORD_NONE
      BY <1>2, Zenon DEF STATUS_CANCELED, RECORD_NONE
    <3>. QED  BY <2>0, <3>1, Zenon DEF Bookkept
  <2>6. paid.sui_receiver + paid.sui_fees <= vested_by(r, clock)
    BY <1>6, <2>0, Zenon
  <2>. QED  BY <2>0, <2>1, <2>2, <2>3, <2>4, <2>5, <2>6, Zenon DEF StreamInv
<1>8. /\ stream' = [stream EXCEPT ![s] = st] /\ record' = [record EXCEPT ![s] = r]
      /\ live' = IF FALSE THEN live \cup {s} ELSE live \ {s}
  <2>1. stream = [stream EXCEPT ![s] = stream[s]]
    BY <1>1, SameValue, Zenon
  <2>2. record = [record EXCEPT ![s] = record[s]]
    BY <1>1, SameValue, Zenon
  <2>3. live = live \ {s}
    BY <1>2, Zenon
  <2>. QED  BY <1>3, <2>1, <2>2, <2>3, Zenon
<1>. HIDE DEF st, r
<1>. QED  BY <1>1, <1>3, <1>6, <1>7, <1>8, EmptyTypes, StreamUpdate, Zenon

----------------------------------------------------------------------------
(* Creation *)

\* A stream is created with its whole deposit in escrow and nothing vested paid.
LEMMA CreateInv ==
    ASSUME IndInv, NEW s \in Streams, NEW o \in Offers, NEW sender \in Accounts,
           create_stream(s, o, sender)
    PROVE  IndInv'
<1>. DEFINE st == new_stream(o, sender)
            r == [NoRecord EXCEPT !.status = STATUS_ACTIVE,
                                  !.total_amount = o.deposit,
                                  !.start_time = o.start_time,
                                  !.end_time = o.end_time]
            twap == resolve_twap_preset(o.twap_preset, o.hedge_direction)
<1>1. /\ o.deposit \in Nat /\ o.start_time \in Nat /\ o.end_time \in Nat
      /\ o.strike_price \in Nat /\ o.min_lot_size \in Nat /\ o.deposit > 0
      /\ o.end_time > o.start_time
      /\ o.hedge_direction \in {HEDGE_FLOOR, HEDGE_CEILING, HEDGE_NONE}
      /\ o.hedge_direction # HEDGE_NONE => o.twap_preset \in DOMAIN TWAP_PRESETS
  BY OfferAssumption, Zenon DEF create_stream
<1>2. twap.tranches \in Nat \ {0} /\ twap.interval_ms \in Nat
  BY <1>1, PresetAssumption, Zenon DEF resolve_twap_preset
<1>3. st \in StreamType
  <2>. DEFINE lot == IF o.min_lot_size = 0 THEN DEFAULT_MIN_LOT_SIZE ELSE o.min_lot_size
  <2>1. lot \in Nat
    BY <1>1, EnvironmentAssumption, Zenon
  <2>2. st = [NoStream EXCEPT
           !.sender = sender, !.total_amount = o.deposit, !.balance = o.deposit,
           !.start_time = o.start_time, !.end_time = o.end_time,
           !.strike_price = o.strike_price, !.hedge_direction = o.hedge_direction,
           !.min_lot_size = lot, !.twap_tranches = twap.tranches,
           !.twap_interval_ms = twap.interval_ms]
    BY Zenon DEF new_stream
  <2>. HIDE DEF lot, twap, st
  <2>. QED  BY <1>1, <1>2, <2>1, <2>2, EmptyTypes, ZenonT(40) DEF StreamType
<1>4. r \in RecordType
  BY <1>1, Zenon DEF NoRecord, RecordType
<1>5. vault[s] = NoVault /\ ledger[s] = EmptyLedger /\ record[s] = NoRecord
  <2>1. record[s].status = RECORD_NONE
    BY Zenon DEF create_stream, register_stream
  <2>. QED
    BY <2>1, IndInvPerStream, Zenon
    DEF StreamInvAt, StreamInv, Bookkept, RecordMatches, STATUS_CANCELED, RECORD_NONE
<1>6. clock \in Nat
  BY Zenon DEF IndInv, TypeOK
<1>7. vested_by(r, clock) \in Nat
  <2>1. r.start_time < r.end_time
    BY <1>1, Zenon DEF NoRecord
  <2>. QED  BY <1>4, <1>6, <2>1, VestedByBound, Zenon
<1>8. StreamInv(TRUE, st, NoVault, r, EmptyLedger, clock)
  <2>1. Conserved(st, NoVault, r, EmptyLedger)
    BY <1>1 DEF Conserved, new_stream, NoStream, NoVault, NoRecord, EmptyLedger
  <2>2. HedgeCoherent(st) /\ Spread(st, EmptyLedger, clock)
    BY DEF HedgeCoherent, Spread, new_stream, NoStream,
           STATUS_HEALTHY, STATUS_TWAP_ACTIVE, STATUS_FULLY_HEDGED
  <2>3. RecordMatches(TRUE, st, NoVault, r, EmptyLedger)
    BY Zenon DEF RecordMatches, NoVault, NoRecord,
           STATUS_ACTIVE, STATUS_COMPLETED, STATUS_CANCELED
  <2>4. FullyBacked(TRUE, st, r, EmptyLedger)
    BY <1>1 DEF FullyBacked, new_stream, NoStream, EmptyLedger
  <2>5. Bookkept(TRUE, st, NoVault, r, EmptyLedger, clock)
    BY <1>1, <1>7
    DEF Bookkept, new_stream, NoStream, NoVault, NoRecord, EmptyLedger,
        STATUS_ACTIVE, RECORD_NONE
  <2>6. EmptyLedger.sui_receiver + EmptyLedger.sui_fees <= vested_by(r, clock)
    <3>. HIDE DEF r
    <3>. QED  BY <1>7 DEF EmptyLedger
  <2>. HIDE DEF st, r
  <2>. QED  BY <2>1, <2>2, <2>3, <2>4, <2>5, <2>6, Zenon DEF StreamInv
<1>9. /\ stream' = [stream EXCEPT ![s] = st]
      /\ vault' = [vault EXCEPT ![s] = NoVault]
      /\ record' = [record EXCEPT ![s] = r]
      /\ ledger' = [ledger EXCEPT ![s] = EmptyLedger]
      /\ live' = IF TRUE THEN live \cup {s} ELSE live \ {s}
      /\ clock' = clock
      /\ registry' \in RegistryType
  <2>1. registry' \in RegistryType
    <3>1. registry \in RegistryType
      BY Zenon DEF IndInv, TypeOK
    <3>. DEFINE n == registry.total_streams + 1
                vol == registry.total_volume + o.deposit
    <3>2. registry' = [registry EXCEPT !.total_streams = n, !.total_volume = vol]
      BY Zenon DEF create_stream, register_stream
    <3>3. n \in Nat /\ vol \in Nat
      BY <1>1, <3>1 DEF RegistryType
    <3>. HIDE DEF n, vol
    <3>. QED  BY <3>1, <3>2, <3>3, Zenon DEF RegistryType
  <2>2. /\ vault' = [vault EXCEPT ![s] = NoVault]
        /\ ledger' = [ledger EXCEPT ![s] = EmptyLedger]
    <3>1. vault \in [Streams -> VaultType] /\ ledger \in [Streams -> LedgerType]
      BY Zenon DEF IndInv, TypeOK
    <3>2. vault' = vault /\ ledger' = ledger
      BY Zenon DEF create_stream
    <3>3. vault = [vault EXCEPT ![s] = vault[s]]
      BY <3>1, Zenon
    <3>4. ledger = [ledger EXCEPT ![s] = ledger[s]]
      BY <3>1, Zenon
    <3>. QED  BY <1>5, <3>2, <3>3, <3>4, Zenon
  <2>. QED  BY <2>1, <2>2, Zenon DEF create_stream, register_stream
<1>. HIDE DEF st, r
<1>. QED
  BY <1>3, <1>4, <1>8, <1>9, EmptyTypes, StreamUpdate, Zenon

----------------------------------------------------------------------------
(* What a step does to the streams, for the theorems about steps *)

Created(s) ==
    /\ s \notin live
    /\ record[s].status = RECORD_NONE
    /\ live' = live \cup {s}
    /\ \E o \in Offers, sender \in Accounts :
         /\ o.deposit > 0
         /\ o.hedge_direction \in {HEDGE_FLOOR, HEDGE_CEILING, HEDGE_NONE}
         /\ o.hedge_direction # HEDGE_NONE => o.twap_preset \in DOMAIN TWAP_PRESETS
         /\ stream' = [stream EXCEPT ![s] = new_stream(o, sender)]
    /\ \A t \in Streams \ {s} : record'[t] = record[t]
    /\ UNCHANGED clock

Cancelled(s) ==
    /\ s \in live
    /\ live' = live \ {s}
    /\ stream' = [stream EXCEPT ![s] = NoStream]
    /\ record'[s].status = STATUS_CANCELED
    /\ \A t \in Streams \ {s} : record'[t] = record[t]
    /\ UNCHANGED clock

\* An id is used once: a stream is created where there was no record, hence no object.
LEMMA CreateEffect ==
    ASSUME IndInv, NEW s \in Streams, NEW o \in Offers, NEW sender \in Accounts,
           create_stream(s, o, sender)
    PROVE  Created(s)
<1>1. record[s].status = RECORD_NONE /\ record \in [Streams -> RecordType]
  BY Zenon DEF create_stream, register_stream, IndInv, TypeOK
<1>2. s \notin live
  BY <1>1, IndInvPerStream, Zenon
  DEF StreamInvAt, StreamInv, RecordMatches, RECORD_NONE, STATUS_ACTIVE, STATUS_COMPLETED
<1>3. \A t \in Streams \ {s} : record'[t] = record[t]
  BY <1>1, Zenon DEF create_stream, register_stream
<1>. QED  BY <1>1, <1>2, <1>3, Zenon DEF create_stream, Created

\* cancel_stream deletes the object and closes its record.
LEMMA CancelEffect ==
    ASSUME IndInv, NEW s \in Streams, NEW caller \in Accounts, cancel_stream(s, caller)
    PROVE  Cancelled(s)
<1>1. s \in live /\ record \in [Streams -> RecordType]
  BY Zenon DEF cancel_stream, IndInv, TypeOK
<1>2. PICK sui, usdc, swap : finish_cancel(s, sui, usdc, swap)
  BY Zenon DEF cancel_stream
<1>3. PICK settled_sum, refund_sum :
        record' = [record EXCEPT ![s] =
                     record_cancellation(record[s], settled_sum, refund_sum)]
  BY <1>2, Zenon DEF finish_cancel
<1>4. /\ record'[s].status = STATUS_CANCELED
      /\ \A t \in Streams \ {s} : record'[t] = record[t]
  <2>1. /\ record'[s] = record_cancellation(record[s], settled_sum, refund_sum)
        /\ \A t \in Streams \ {s} : record'[t] = record[t]
    BY <1>1, <1>3, Zenon
  <2>2. record_cancellation(record[s], settled_sum, refund_sum).status = STATUS_CANCELED
    BY <1>1, Zenon DEF record_cancellation, RecordType
  <2>. QED  BY <2>1, <2>2, Zenon
<1>5. live' = live \ {s} /\ stream' = [stream EXCEPT ![s] = NoStream] /\ clock' = clock
  BY <1>2, Zenon DEF finish_cancel
<1>. QED  BY <1>1, <1>4, <1>5, Zenon DEF Cancelled

\* Every step is a creation, a sale, a claim or a cancellation of one stream, the
\* clock's, or leaves objects and records alone.
LEMMA NextEffect ==
    ASSUME IndInv, [Next]_vars
    PROVE  \/ \E s \in Streams : Created(s) \/ Sold(s) \/ Claimed(s) \/ Cancelled(s)
           \/ Tick
           \/ UNCHANGED <<clock, live, stream, record>>
<1>1. ASSUME NEW s \in Streams, StreamStep(s)
      PROVE  \/ Created(s) \/ Sold(s) \/ Claimed(s) \/ Cancelled(s)
             \/ UNCHANGED <<clock, live, stream, record>>
  <2>1. ASSUME NEW o \in Offers, NEW sender \in Accounts, create_stream(s, o, sender)
        PROVE  Created(s)
    BY <2>1, CreateEffect, Zenon
  <2>2. ASSUME NEW guard \in MinOutputGuards,
               \/ initiate_hedge(s, guard)
               \/ execute_tranche(s, guard)
               \/ fallback_hedge_trigger(s, guard)
        PROVE  Sold(s)
    BY <2>2, HedgeInv, Zenon
  <2>3. CASE claim_stream(s)
    BY <2>3, ClaimInv, Zenon
  <2>4. ASSUME NEW caller \in Accounts, cancel_stream(s, caller) PROVE Cancelled(s)
    BY <2>4, CancelEffect, Zenon
  <2>5. ASSUME NEW caller \in Accounts, dissolve_salvage_vault(s, caller)
        PROVE  UNCHANGED <<clock, live, stream, record>>
    BY <2>5, Zenon DEF dissolve_salvage_vault
  <2>. QED  BY <1>1, <2>1, <2>2, <2>3, <2>4, <2>5, Zenon DEF StreamStep
<1>2. ASSUME UpdatePriceOnly \/ \E amount \in WithdrawAmounts : withdraw_fees(amount)
      PROVE  UNCHANGED <<clock, live, stream, record>>
  BY <1>2, Zenon DEF UpdatePriceOnly, withdraw_fees
<1>. QED  BY <1>1, <1>2, Zenon DEF Next, vars

\* What NothingIsUndone says of one stream, as a relation of its values.
NotUndone(old, new) ==
    /\ new.liquidation_status >= old.liquidation_status
    /\ new.tranches_executed >= old.tranches_executed
    /\ new.withdrawn >= old.withdrawn
    /\ old.liquidation_status # STATUS_HEALTHY
         => new.total_sui_at_hedge_start = old.total_sui_at_hedge_start

\* A tranche undoes nothing.
LEMMA SoldNotUndone ==
    ASSUME IndInv, NEW s \in Streams, s \in live, NEW new \in StreamType,
           TrancheEffect(stream[s], new)
    PROVE  NotUndone(stream[s], new)
<1>1. stream[s] \in StreamType
  BY Zenon DEF IndInv, TypeOK
<1>. QED
  BY <1>1 DEF TrancheEffect, NotUndone, next_tranche_due, StreamType,
              STATUS_HEALTHY, STATUS_TWAP_ACTIVE, STATUS_FULLY_HEDGED

\* A claim undoes nothing.
LEMMA ClaimNotUndone ==
    ASSUME IndInv, NEW s \in Streams, s \in live, NEW new \in StreamType,
           SameTerms(stream[s], new),
           new.withdrawn = stream[s].withdrawn + newly_vested(stream[s], clock)
    PROVE  NotUndone(stream[s], new)
<1>1. stream[s] \in StreamType /\ newly_vested(stream[s], clock) \in Nat
  BY Claimable, Zenon DEF IndInv, TypeOK
<1>. QED
  BY <1>1 DEF SameTerms, NotUndone, StreamType,
              STATUS_HEALTHY, STATUS_TWAP_ACTIVE, STATUS_FULLY_HEDGED

\* No step undoes anything: neither the one stream it is about nor any other.
LEMMA NextNotUndone ==
    ASSUME IndInv, [Next]_vars, NEW t \in Streams
    PROVE  /\ t \in live /\ t \in live' => NotUndone(stream[t], stream'[t])
           /\ record[t].status = STATUS_CANCELED => record'[t] = record[t]
<1>1. /\ stream \in [Streams -> StreamType]
      /\ record[t].status = STATUS_CANCELED => t \notin live
  <2>1. StreamInvAt(t)
    BY IndInvPerStream, Zenon
  <2>. QED
    BY <2>1, Zenon DEF IndInv, TypeOK, StreamInvAt, StreamInv, RecordMatches,
                STATUS_ACTIVE, STATUS_COMPLETED, STATUS_CANCELED
<1>2. NotUndone(stream[t], stream[t])
  BY <1>1 DEF NotUndone, StreamType, STATUS_HEALTHY, STATUS_TWAP_ACTIVE, STATUS_FULLY_HEDGED
<1>3. ASSUME NEW s \in Streams, Created(s) \/ Sold(s) \/ Claimed(s) \/ Cancelled(s), t # s
      PROVE  record'[t] = record[t] /\ stream'[t] = stream[t]
  BY <1>1, <1>3, Zenon DEF Created, Sold, Claimed, Cancelled, Changes
<1>4. CASE Created(t)
  BY <1>4, Zenon DEF Created, RECORD_NONE, STATUS_CANCELED
<1>5. CASE Sold(t)
  <2>1. PICK new \in StreamType : Changes(t, new) /\ TrancheEffect(stream[t], new)
    BY <1>5, Zenon DEF Sold
  <2>2. t \in live /\ NotUndone(stream[t], new)
    BY <1>5, <2>1, SoldNotUndone, Zenon DEF Sold
  <2>3. stream'[t] = new
    BY <1>1, <2>1, Zenon DEF Changes
  <2>. QED  BY <1>1, <2>2, <2>3, Zenon
<1>6. CASE Claimed(t)
  <2>1. PICK new \in StreamType :
          /\ Changes(t, new) /\ SameTerms(stream[t], new)
          /\ new.withdrawn = stream[t].withdrawn + newly_vested(stream[t], clock)
    BY <1>6, Zenon DEF Claimed
  <2>2. t \in live /\ NotUndone(stream[t], new)
    BY <1>6, <2>1, ClaimNotUndone, Zenon DEF Claimed
  <2>3. stream'[t] = new
    BY <1>1, <2>1, Zenon DEF Changes
  <2>. QED  BY <1>1, <2>2, <2>3, Zenon
<1>7. CASE Cancelled(t)
  BY <1>1, <1>7, Zenon DEF Cancelled
<1>8. CASE Tick \/ UNCHANGED <<clock, live, stream, record>>
  BY <1>2, <1>8, Zenon DEF Tick
<1>. QED  BY <1>2, <1>3, <1>4, <1>5, <1>6, <1>7, <1>8, NextEffect, Zenon

----------------------------------------------------------------------------
(* The theorems *)

\* Every step of the contracts preserves the invariant.
LEMMA NextInv == IndInv /\ [Next]_vars => IndInv'
<1>. SUFFICES ASSUME IndInv, [Next]_vars PROVE IndInv'
  BY Zenon
<1>1. registry \in RegistryType
  BY Zenon DEF IndInv, TypeOK
<1>2. CASE Tick
  BY <1>2, TickInv, Zenon
<1>3. CASE UpdatePriceOnly
  BY <1>1, <1>3, NoStreamInv, Zenon DEF UpdatePriceOnly
<1>4. ASSUME NEW s \in Streams, StreamStep(s) PROVE IndInv'
  <2>1. ASSUME NEW o \in Offers, NEW sender \in Accounts, create_stream(s, o, sender)
        PROVE  IndInv'
    BY <2>1, CreateInv, Zenon
  <2>2. ASSUME NEW guard \in MinOutputGuards,
               \/ initiate_hedge(s, guard)
               \/ execute_tranche(s, guard)
               \/ fallback_hedge_trigger(s, guard)
        PROVE  IndInv'
    BY <2>2, HedgeInv, Zenon
  <2>3. CASE claim_stream(s)
    BY <2>3, ClaimInv, Zenon
  <2>4. ASSUME NEW caller \in Accounts, cancel_stream(s, caller) PROVE IndInv'
    BY <2>4, CancelInv, Zenon
  <2>5. ASSUME NEW caller \in Accounts, dissolve_salvage_vault(s, caller) PROVE IndInv'
    BY <2>5, DissolveInv, Zenon
  <2>. QED  BY <1>4, <2>1, <2>2, <2>3, <2>4, <2>5, Zenon DEF StreamStep
<1>5. ASSUME NEW amount \in WithdrawAmounts, withdraw_fees(amount) PROVE IndInv'
  BY <1>5, WithdrawInv, Zenon
<1>6. CASE UNCHANGED vars
  BY <1>1, <1>6, NoStreamInv, Zenon DEF vars
<1>. QED  BY <1>2, <1>3, <1>4, <1>5, <1>6, Zenon DEF Next

\* IndInv is an invariant of the contracts.
THEOREM InductiveInvariant == Spec => []IndInv
<1>. QED  BY InitInv, NextInv, PTL DEF Spec

\* No integer of the contracts ever leaves its type in a step that commits.
THEOREM TypeCorrectness == Spec => []TypeOK
<1>1. IndInv => TypeOK
  BY Zenon DEF IndInv
<1>. QED  BY <1>1, InductiveInvariant, PTL

\* Every coin of every stream is accounted for, whatever the calls, the prices and
\* the pool do.
THEOREM Conservation == Spec => []CoinsConserved
<1>1. IndInv => CoinsConserved
  BY Zenon DEF IndInv
<1>. QED  BY <1>1, InductiveInvariant, PTL

\* Receiver and treasury never get more SUI than has vested.
THEOREM NoEarlyPayment == Spec => []PaidWithinVesting
<1>1. IndInv => PaidWithinVesting
  BY Zenon DEF IndInv
<1>. QED  BY <1>1, InductiveInvariant, PTL

\* Status, tranche counters, baseline and pools of every stream agree.
THEOREM HedgeCoherence == Spec => []HedgeStateCoherent
<1>1. IndInv => HedgeStateCoherent
  BY Zenon DEF IndInv
<1>. QED  BY <1>1, InductiveInvariant, PTL

\* No sequence of keeper and fallback calls sells tranches faster than the preset.
THEOREM LiquidationIsSpread == Spec => []TwapIsSpread
<1>1. IndInv => TwapIsSpread
  BY Zenon DEF IndInv
<1>. QED  BY <1>1, InductiveInvariant, PTL

\* The registry's record of a stream agrees with the object and its vault.
THEOREM RegistryAgrees == Spec => []RecordMatchesObject
<1>1. IndInv => RecordMatchesObject
  BY Zenon DEF IndInv
<1>. QED  BY <1>1, InductiveInvariant, PTL

\* A stream without protection is always fully backed by its escrow.
THEOREM PlainPayroll == Spec => []UnhedgedIsFullyBacked
<1>1. IndInv => UnhedgedIsFullyBacked
  BY Zenon DEF IndInv
<1>. QED  BY <1>1, InductiveInvariant, PTL

\* An object, its vault and its record are absent together and agree on the schedule
\* while they exist; what was withdrawn has vested.
THEOREM Bookkeeping == Spec => []StateBookkept
<1>1. IndInv => StateBookkept
  BY Zenon DEF IndInv
<1>. QED  BY <1>1, InductiveInvariant, PTL

\* A claim of at most total, at no more than 200 basis points, fits when 200 times
\* the total does.
LEMMA ProductFits ==
    ASSUME NEW claimable \in Nat, NEW total \in Nat, NEW bps \in Nat,
           claimable <= total, bps <= 200, FitsU64(200 * total)
    PROVE  FitsU64(claimable * bps)
<1>1. claimable * bps <= total * bps
  BY SMT
<1>2. total * bps <= total * 200
  BY SMT
<1>3. /\ 200 * total \in Nat /\ total * 200 = 200 * total
      /\ claimable * bps \in Nat /\ total * bps \in Nat
  BY SMT
<1>. QED  BY <1>1, <1>2, <1>3, UnitAssumption, SMT DEF FitsU64

\* What can be claimed of a stream never exceeds its deposit, so no product of the
\* fee overflows while the deposit and the strike leave room for the percentages.
LEMMA FeesFit == IndInv => FeesNeverOverflow
<1>. SUFFICES ASSUME IndInv, NEW s \in live, NEW p \in PythPrices,
                     WithinFeeRange(stream[s])
              PROVE  FeeFits(newly_vested(stream[s], clock), stream[s].total_amount,
                             normalize_price(p), stream[s].strike_price,
                             stream[s].hedge_direction)
  BY Zenon DEF FeesNeverOverflow
<1>1. s \in Streams
  BY Zenon DEF IndInv, TypeOK
<1>2. stream[s] \in StreamType
  BY <1>1, LiveStream, Zenon
<1>. DEFINE claimable == newly_vested(stream[s], clock)
            total == stream[s].total_amount
            strike == stream[s].strike_price
            direction == stream[s].hedge_direction
            bps == total_bps(total, normalize_price(p), strike, direction)
<1>3. total \in Nat /\ strike \in Nat
  BY <1>2, Zenon DEF StreamType
<1>4. /\ claimable \in Nat
      /\ claimable + stream[s].withdrawn = vested_by(record[s], clock)
      /\ vested_by(record[s], clock) <= total
  BY <1>1, Claimable, Zenon
<1>5. stream[s].withdrawn \in Nat
  BY <1>2, Zenon DEF StreamType
<1>6. bps \in Nat /\ bps <= 200
  BY DEF total_bps, base_bps, risk_bps
<1>7. FitsU64(200 * total) /\ FitsU64(105 * strike)
  BY Zenon DEF WithinFeeRange
<1>. HIDE DEF claimable, total, strike, direction, bps
<1>8. claimable <= total
  BY <1>3, <1>4, <1>5, SMT
<1>9. FitsU64(claimable * bps)
  BY <1>3, <1>4, <1>6, <1>7, <1>8, ProductFits, Zenon
<1>10. FitsU64(danger_margin(strike, direction))
  BY <1>3, <1>7, UnitAssumption, SMT DEF FitsU64, danger_margin
<1>. QED  BY <1>9, <1>10, Zenon DEF FeeFits, claimable, total, strike, direction, bps

\* For every deposit and strike that leave room for the percentages, every claim of
\* the stream gets past calculate_fee.
THEOREM FeesAlwaysFit == Spec => []FeesNeverOverflow
<1>. QED  BY FeesFit, InductiveInvariant, PTL

\* No call of any entry point takes back a tranche, a status, a baseline or a
\* withdrawal, or touches the record of a cancelled stream.
THEOREM Irreversible == Spec => NothingIsUndone
<1>1. IndInv /\ [Next]_vars
        => \A s \in Streams :
             /\ s \in live /\ s \in live'
                  => /\ stream'[s].liquidation_status >= stream[s].liquidation_status
                     /\ stream'[s].tranches_executed >= stream[s].tranches_executed
                     /\ stream'[s].withdrawn >= stream[s].withdrawn
                     /\ stream[s].liquidation_status # STATUS_HEALTHY
                          => stream'[s].total_sui_at_hedge_start
                               = stream[s].total_sui_at_hedge_start
             /\ record[s].status = STATUS_CANCELED => record'[s] = record[s]
  BY NextNotUndone, Zenon DEF NotUndone
<1>. QED  BY <1>1, InductiveInvariant, PTL DEF Spec, NothingIsUndone

=============================================================================
