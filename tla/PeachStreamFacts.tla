-------------------------- MODULE PeachStreamFacts ---------------------------
(***************************************************************************)
(* What the proofs about PeachStream share: arithmetic, the invariant of   *)
(* one stream (StreamInv) and its lifting to all streams (StreamUpdate).   *)
(* Then the steps that touch no stream or only the clock, and the sale of  *)
(* a tranche, preserve the invariant, and so does the end that all claims  *)
(* share: a charge and an edit of the two balances (ClaimEffect).          *)
(***************************************************************************)
EXTENDS PeachStream, TLAPS

----------------------------------------------------------------------------
(* Arithmetic *)

\* Integer division by a positive divisor leaves a remainder below it.
LEMMA DivBounds ==
    ASSUME NEW x \in Nat, NEW b \in Nat \ {0}
    PROVE  /\ x \div b \in Nat
           /\ b * (x \div b) <= x
  BY SMT

\* A part u of the baseline b is owed at most u from a pool of at most b.
LEMMA ShareBound ==
    ASSUME NEW u \in Nat, NEW p \in Nat, NEW b \in Nat \ {0}, p <= b
    PROVE  proportional(u, p, b) \in Nat /\ proportional(u, p, b) <= u
<1>. DEFINE q == (u * p) \div b
<1>1. u * p \in Nat /\ u * p <= b * u
  BY SMT
<1>2. q \in Nat /\ b * q <= u * p
  BY <1>1, DivBounds, Zenon
<1>. HIDE DEF q
<1>3. b * q <= b * u
  BY <1>1, <1>2
<1>4. q <= u
  BY <1>2, <1>3, SMT
<1>. QED  BY <1>2, <1>4, Zenon DEF proportional, q

\* vested_total lies between nothing and the whole deposit.
LEMMA VestedBound ==
    ASSUME NEW total \in Nat, NEW start \in Nat, NEW end \in Nat, NEW now \in Nat,
           start < end
    PROVE  /\ vested_total(total, start, end, now) \in Nat
           /\ vested_total(total, start, end, now) <= total
<1>1. CASE now <= start \/ now >= end
  BY <1>1 DEF vested_total
<1>2. CASE start < now /\ now < end
  <2>1. now - start \in Nat /\ end - start \in Nat \ {0} /\ now - start <= end - start
    BY <1>2
  <2>2. /\ proportional(total, now - start, end - start) \in Nat
        /\ proportional(total, now - start, end - start) <= total
    BY <2>1, ShareBound, Zenon
  <2>3. total * (now - start) = (now - start) * total
    BY <2>1
  <2>. QED  BY <1>2, <2>2, <2>3 DEF vested_total, proportional
<1>. QED  BY <1>1, <1>2

\* vested_total never decreases as time passes.
LEMMA VestedMonotone ==
    ASSUME NEW total \in Nat, NEW start \in Nat, NEW end \in Nat, NEW now \in Nat,
           start < end
    PROVE  vested_total(total, start, end, now)
             <= vested_total(total, start, end, now + 1)
<1>1. CASE now <= start
  BY <1>1, VestedBound DEF vested_total
<1>2. CASE now + 1 >= end
  BY <1>2, VestedBound DEF vested_total
<1>3. CASE start < now /\ now + 1 < end
  <2>1. /\ (now - start) * total \in Nat
        /\ (now + 1 - start) * total \in Nat
        /\ (now - start) * total <= (now + 1 - start) * total
        /\ end - start \in Nat \ {0}
    BY <1>3, SMT
  <2>2. ((now - start) * total) \div (end - start)
          <= ((now + 1 - start) * total) \div (end - start)
    BY <2>1, SMT
  <2>. QED  BY <1>3, <2>2 DEF vested_total
<1>. QED  BY <1>1, <1>2, <1>3

\* The same bounds for the schedule kept in a registry record.
LEMMA VestedByBound ==
    ASSUME NEW r \in RecordType, NEW now \in Nat, r.start_time < r.end_time
    PROVE  vested_by(r, now) \in Nat /\ vested_by(r, now) <= r.total_amount
<1>1. r.total_amount \in Nat /\ r.start_time \in Nat /\ r.end_time \in Nat
  BY Zenon DEF RecordType
<1>. QED  BY <1>1, VestedBound, Zenon DEF vested_by

\* The fee of a claim is part of the claim.
LEMMA FeeBound ==
    ASSUME NEW claimable \in Nat, NEW total, NEW spot, NEW strike, NEW direction
    PROVE  /\ calculate_fee(claimable, total, spot, strike, direction) \in Nat
           /\ calculate_fee(claimable, total, spot, strike, direction) <= claimable
<1>. DEFINE bps == total_bps(total, spot, strike, direction)
<1>1. bps \in Nat /\ bps <= 10000
  BY DEF total_bps, base_bps, risk_bps
<1>. HIDE DEF bps
<1>2. /\ proportional(claimable, bps, 10000) \in Nat
      /\ proportional(claimable, bps, 10000) <= claimable
  BY <1>1, ShareBound
<1>. QED  BY <1>2 DEF calculate_fee, proportional, bps

\* The pool never sells more SUI than it is given.
LEMMA SwapBound ==
    ASSUME NEW sui_in \in Nat, NEW guard \in Nat,
           NEW swap \in swap_sui_to_usdc_guarded(sui_in, guard)
    PROVE  /\ swap.sold \in Nat /\ swap.sold <= sui_in
           /\ swap.usdc_out \in Nat
           /\ swap.sold = 0 => swap.usdc_out = 0
<1>1. PICK depth \in PoolDepths, rate \in PoolRates :
        LET fill == AtMost(sui_in, depth)
            sold == fill - (fill % PoolLot)
        IN  swap = [sold |-> sold, usdc_out |-> (sold * rate) \div PoolRateScale]
  BY DEF swap_sui_to_usdc_guarded
<1>. DEFINE fill == AtMost(sui_in, depth)
<1>2. /\ fill \in Nat /\ fill <= sui_in /\ rate \in Nat
      /\ PoolLot \in Nat \ {0} /\ PoolRateScale \in Nat \ {0}
  BY EnvironmentAssumption DEF AtMost
<1>. HIDE DEF fill
<1>3. fill % PoolLot \in Nat /\ fill % PoolLot <= fill
  BY <1>2, SMT
<1>. DEFINE sold == fill - (fill % PoolLot)
<1>4. sold \in Nat /\ sold <= sui_in
  BY <1>2, <1>3
<1>5. swap.sold = sold /\ swap.usdc_out = (sold * rate) \div PoolRateScale
  BY <1>1, Zenon DEF fill
<1>. HIDE DEF sold
<1>6. sold * rate \in Nat /\ (sold = 0 => sold * rate = 0)
  BY <1>2, <1>4
<1>. DEFINE value == sold * rate
<1>7. value \in Nat /\ (sold = 0 => value = 0)
  BY <1>6, Zenon
<1>. HIDE DEF value
<1>8. value \div PoolRateScale \in Nat /\ (value = 0 => value \div PoolRateScale = 0)
  BY <1>2, <1>7
<1>. QED  BY <1>4, <1>5, <1>7, <1>8, Zenon DEF value

----------------------------------------------------------------------------
(* One stream at a time *)

\* IndInv's claims about one stream, as a predicate on its values.
StreamInv(exists, st, v, r, l, now) ==
    /\ Conserved(st, v, r, l)
    /\ l.sui_receiver + l.sui_fees <= vested_by(r, now)
    /\ HedgeCoherent(st)
    /\ Spread(st, l, now)
    /\ RecordMatches(exists, st, v, r, l)
    /\ FullyBacked(exists, st, r, l)
    /\ Bookkept(exists, st, v, r, l, now)

StreamInvAt(s) ==
    StreamInv(s \in live, stream[s], vault[s], record[s], ledger[s], clock)

\* IndInv is TypeOK and StreamInv of every stream.
LEMMA IndInvPerStream == IndInv <=> TypeOK /\ \A s \in Streams : StreamInvAt(s)
  BY Zenon DEF IndInv, StreamInvAt, StreamInv, CoinsConserved, PaidWithinVesting,
         HedgeStateCoherent, TwapIsSpread, RecordMatchesObject,
         UnhedgedIsFullyBacked, StateBookkept

\* The same of the next state.
LEMMA IndInvPerStreamPrimed ==
    IndInv' <=> TypeOK' /\ \A s \in Streams : StreamInvAt(s)'
  BY Zenon DEF IndInv, StreamInvAt, StreamInv, CoinsConserved, PaidWithinVesting,
         HedgeStateCoherent, TwapIsSpread, RecordMatchesObject,
         UnhedgedIsFullyBacked, StateBookkept

\* The values that stand for "no object", "no vault" and "no record" are well typed.
LEMMA EmptyTypes ==
    /\ NoStream \in StreamType
    /\ NoVault \in VaultType
    /\ NoRecord \in RecordType
    /\ EmptyLedger \in LedgerType
<1>1. (CHOOSE a \in Accounts : TRUE) \in Accounts
  BY EnvironmentAssumption, Zenon
<1>. QED
  BY <1>1 DEF NoStream, StreamType, NoVault, VaultType, NoRecord, RecordType,
              EmptyLedger, LedgerType, RECORD_NONE, HEDGE_NONE, STATUS_HEALTHY

\* The fields of those values that the invariant reads.
LEMMA EmptyFields ==
    /\ /\ NoStream.balance = 0 /\ NoStream.usdc_balance = 0 /\ NoStream.tranches_executed = 0
       /\ NoStream.liquidation_status = STATUS_HEALTHY
    /\ ~NoVault.exists /\ NoVault.sui_balance = 0 /\ NoVault.usdc_balance = 0
    /\ /\ NoRecord.status = RECORD_NONE
       /\ NoRecord.total_amount = 0 /\ NoRecord.start_time = 0 /\ NoRecord.end_time = 0
    /\ /\ EmptyLedger.sui_receiver = 0 /\ EmptyLedger.usdc_receiver = 0
       /\ EmptyLedger.sui_fees = 0 /\ EmptyLedger.sui_sold = 0
       /\ EmptyLedger.usdc_bought = 0 /\ EmptyLedger.usdc_bounty = 0
       /\ EmptyLedger.sui_refunded = 0 /\ EmptyLedger.usdc_refunded = 0
<1>1. /\ NoStream.balance = 0 /\ NoStream.usdc_balance = 0 /\ NoStream.tranches_executed = 0
      /\ NoStream.liquidation_status = STATUS_HEALTHY
  BY Zenon DEF NoStream
<1>2. ~NoVault.exists /\ NoVault.sui_balance = 0 /\ NoVault.usdc_balance = 0
  BY Zenon DEF NoVault
<1>3. /\ NoRecord.status = RECORD_NONE
      /\ NoRecord.total_amount = 0 /\ NoRecord.start_time = 0 /\ NoRecord.end_time = 0
  BY Zenon DEF NoRecord
<1>4. /\ EmptyLedger.sui_receiver = 0 /\ EmptyLedger.usdc_receiver = 0
      /\ EmptyLedger.sui_fees = 0 /\ EmptyLedger.sui_sold = 0
      /\ EmptyLedger.usdc_bought = 0 /\ EmptyLedger.usdc_bounty = 0
      /\ EmptyLedger.sui_refunded = 0 /\ EmptyLedger.usdc_refunded = 0
  BY Zenon DEF EmptyLedger
<1>. QED  BY <1>1, <1>2, <1>3, <1>4, Zenon

\* Before anything is created every stream is empty and the invariant holds.
LEMMA InitInv == Init => IndInv
<1>. SUFFICES ASSUME Init PROVE IndInv
  BY Zenon
<1>1. TypeOK
  BY EmptyTypes, Zenon DEF Init, TypeOK, RegistryType
<1>2. StreamInv(FALSE, NoStream, NoVault, NoRecord, EmptyLedger, 0)
  <2>1. Conserved(NoStream, NoVault, NoRecord, EmptyLedger)
    BY EmptyFields DEF Conserved
  <2>2. EmptyLedger.sui_receiver + EmptyLedger.sui_fees <= vested_by(NoRecord, 0)
    BY EmptyFields DEF vested_by, vested_total
  <2>3. HedgeCoherent(NoStream) /\ Spread(NoStream, EmptyLedger, 0)
    BY EmptyFields DEF HedgeCoherent, Spread, STATUS_HEALTHY, STATUS_TWAP_ACTIVE,
                       STATUS_FULLY_HEDGED
  <2>4. /\ RecordMatches(FALSE, NoStream, NoVault, NoRecord, EmptyLedger)
        /\ FullyBacked(FALSE, NoStream, NoRecord, EmptyLedger)
    BY EmptyFields, Zenon DEF RecordMatches, FullyBacked, RECORD_NONE, STATUS_ACTIVE,
                       STATUS_COMPLETED, STATUS_CANCELED
  <2>5. Bookkept(FALSE, NoStream, NoVault, NoRecord, EmptyLedger, 0)
    BY EmptyFields, Zenon DEF Bookkept
  <2>. QED  BY <2>1, <2>2, <2>3, <2>4, <2>5, Zenon DEF StreamInv
<1>3. ASSUME NEW s \in Streams PROVE StreamInvAt(s)
  <2>1. /\ (s \in live) = FALSE /\ clock = 0
        /\ stream[s] = NoStream /\ vault[s] = NoVault
        /\ record[s] = NoRecord /\ ledger[s] = EmptyLedger
    BY DEF Init
  <2>. QED  BY <1>2, <2>1, Zenon DEF StreamInvAt
<1>. QED  BY <1>1, <1>3, IndInvPerStream, Zenon

\* A step that gives stream s new values satisfying StreamInv, and leaves the
\* other streams and the clock alone, preserves IndInv.
LEMMA StreamUpdate ==
    ASSUME IndInv, NEW s \in Streams,
           NEW st \in StreamType, NEW v \in VaultType, NEW r \in RecordType,
           NEW l \in LedgerType, NEW exists \in BOOLEAN,
           stream' = [stream EXCEPT ![s] = st],
           vault' = [vault EXCEPT ![s] = v],
           record' = [record EXCEPT ![s] = r],
           ledger' = [ledger EXCEPT ![s] = l],
           live' = IF exists THEN live \cup {s} ELSE live \ {s},
           clock' = clock,
           registry' \in RegistryType,
           StreamInv(exists, st, v, r, l, clock)
    PROVE  IndInv'
<1>1. TypeOK'
  BY Zenon DEF IndInv, TypeOK
<1>2. ASSUME NEW t \in Streams PROVE StreamInvAt(t)'
  <2>1. CASE t = s
    <3>1. /\ stream'[t] = st /\ vault'[t] = v /\ record'[t] = r /\ ledger'[t] = l
          /\ (t \in live') = exists
      BY <2>1 DEF IndInv, TypeOK
    <3>. QED  BY <3>1, Zenon DEF StreamInvAt
  <2>2. CASE t # s
    <3>1. /\ stream'[t] = stream[t] /\ vault'[t] = vault[t]
          /\ record'[t] = record[t] /\ ledger'[t] = ledger[t]
          /\ (t \in live') = (t \in live)
      BY <2>2 DEF IndInv, TypeOK
    <3>2. StreamInvAt(t)
      BY IndInvPerStream, Zenon
    <3>. QED  BY <3>1, <3>2, Zenon DEF StreamInvAt
  <2>. QED  BY <2>1, <2>2, Zenon
<1>. QED  BY <1>1, <1>2, IndInvPerStreamPrimed, Zenon

\* A function is unchanged by assigning a point the value it has.
LEMMA SameValue ==
    ASSUME NEW D, NEW T, NEW f \in [D -> T], NEW x \in D
    PROVE  f = [f EXCEPT ![x] = f[x]]
  BY Zenon

\* should_hedge only ever holds of a stream that asked for protection.
LEMMA BreachIsProtected ==
    ASSUME NEW st, in_breach(st)
    PROVE  ~Unhedged(st)
  BY DEF in_breach, should_hedge, Unhedged, HEDGE_FLOOR, HEDGE_CEILING, HEDGE_NONE

----------------------------------------------------------------------------
(* The clock *)

\* What has vested of a record only grows with time; an empty record vests nothing.
LEMMA VestedByGrows ==
    ASSUME NEW r \in RecordType, NEW now \in Nat, r = NoRecord \/ r.start_time < r.end_time
    PROVE  /\ vested_by(r, now) \in Nat /\ vested_by(r, now + 1) \in Nat
           /\ vested_by(r, now) <= vested_by(r, now + 1)
<1>1. r.total_amount \in Nat /\ r.start_time \in Nat /\ r.end_time \in Nat
  BY Zenon DEF RecordType
<1>2. CASE r = NoRecord
  <2>1. ASSUME NEW t \in Nat PROVE vested_by(r, t) = 0
    BY <1>2, EmptyFields DEF vested_by, vested_total
  <2>. QED  BY <2>1
<1>3. CASE r.start_time < r.end_time
  <2>1. now + 1 \in Nat
    OBVIOUS
  <2>2. vested_by(r, now) \in Nat /\ vested_by(r, now + 1) \in Nat
    BY <1>3, <2>1, VestedByBound, Zenon
  <2>3. vested_by(r, now) <= vested_by(r, now + 1)
    BY <1>1, <1>3, VestedMonotone, Zenon DEF vested_by
  <2>. QED  BY <2>2, <2>3, Zenon
<1>. QED  BY <1>2, <1>3, Zenon

\* Time passing only increases what has vested, so no claim about a stream is
\* broken by it.
LEMMA TickValues ==
    ASSUME NEW exists \in BOOLEAN, NEW st \in StreamType, NEW v \in VaultType,
           NEW r \in RecordType, NEW l \in LedgerType, NEW now \in Nat,
           StreamInv(exists, st, v, r, l, now)
    PROVE  StreamInv(exists, st, v, r, l, now + 1)
<1>1. /\ Conserved(st, v, r, l) /\ HedgeCoherent(st) /\ Spread(st, l, now)
      /\ RecordMatches(exists, st, v, r, l) /\ FullyBacked(exists, st, r, l)
      /\ Bookkept(exists, st, v, r, l, now)
      /\ l.sui_receiver + l.sui_fees <= vested_by(r, now)
  BY Zenon DEF StreamInv
<1>2. r = NoRecord \/ r.start_time < r.end_time
  BY <1>1, Zenon DEF Bookkept
<1>3. /\ vested_by(r, now) \in Nat /\ vested_by(r, now + 1) \in Nat
      /\ vested_by(r, now) <= vested_by(r, now + 1)
  BY <1>2, VestedByGrows, Zenon
<1>4. l.sui_receiver + l.sui_fees \in Nat
  BY DEF LedgerType
<1>5. l.sui_receiver + l.sui_fees <= vested_by(r, now + 1)
  BY <1>1, <1>3, <1>4
<1>6. Spread(st, l, now + 1)
  <2>1. st.last_tranche_timestamp \in Nat
    BY Zenon DEF StreamType
  <2>. QED  BY <1>1, <2>1 DEF Spread
<1>7. Bookkept(exists, st, v, r, l, now + 1)
  <2>1. st.withdrawn \in Nat
    BY Zenon DEF StreamType
  <2>2. st.withdrawn <= vested_by(r, now) => st.withdrawn <= vested_by(r, now + 1)
    BY <1>3, <2>1
  <2>. QED  BY <1>1, <2>2, Zenon DEF Bookkept
<1>. QED  BY <1>1, <1>5, <1>6, <1>7, Zenon DEF StreamInv

\* Time passing preserves the invariant.
LEMMA TickInv == IndInv /\ Tick => IndInv'
<1>. SUFFICES ASSUME IndInv, Tick PROVE IndInv'
  BY Zenon
<1>1. /\ clock \in Nat /\ clock' = clock + 1
      /\ live' = live /\ stream' = stream /\ vault' = vault /\ record' = record
      /\ registry' = registry /\ ledger' = ledger
  BY Zenon DEF IndInv, TypeOK, Tick
<1>2. TypeOK'
  BY <1>1 DEF IndInv, TypeOK
<1>3. ASSUME NEW s \in Streams PROVE StreamInvAt(s)'
  <2>1. StreamInv(s \in live, stream[s], vault[s], record[s], ledger[s], clock)
    BY IndInvPerStream, Zenon DEF StreamInvAt
  <2>2. /\ stream[s] \in StreamType /\ vault[s] \in VaultType
        /\ record[s] \in RecordType /\ ledger[s] \in LedgerType
        /\ (s \in live) \in BOOLEAN
    BY DEF IndInv, TypeOK
  <2>3. StreamInv(s \in live, stream[s], vault[s], record[s], ledger[s], clock + 1)
    BY <1>1, <2>1, <2>2, TickValues, Zenon
  <2>. QED  BY <1>1, <2>3, Zenon DEF StreamInvAt
<1>. QED  BY <1>2, <1>3, IndInvPerStreamPrimed, Zenon

----------------------------------------------------------------------------
(* Steps that touch no stream *)

\* The invariant reads neither the oracle nor, apart from its type, the registry.
LEMMA NoStreamInv ==
    ASSUME IndInv, registry' \in RegistryType,
           UNCHANGED <<clock, live, stream, vault, record, ledger>>
    PROVE  IndInv'
<1>1. TypeOK'
  BY Zenon DEF IndInv, TypeOK
<1>2. ASSUME NEW s \in Streams PROVE StreamInvAt(s)'
  <2>1. StreamInvAt(s)
    BY IndInvPerStream, Zenon
  <2>. QED  BY <2>1, Zenon DEF StreamInvAt
<1>. QED  BY <1>1, <1>2, IndInvPerStreamPrimed, Zenon

\* withdraw_fees takes no more than the treasury holds.
LEMMA WithdrawInv ==
    ASSUME IndInv, NEW amount \in WithdrawAmounts, withdraw_fees(amount)
    PROVE  IndInv'
<1>. DEFINE treasury == registry.fee_treasury
            taken == IF amount = 0 \/ amount > treasury THEN treasury ELSE amount
            rest == treasury - taken
            withdrawn == registry.fees_withdrawn + taken
<1>1. registry \in RegistryType /\ amount \in Nat
  BY EnvironmentAssumption, Zenon DEF IndInv, TypeOK
<1>2. rest \in Nat /\ withdrawn \in Nat
  BY <1>1 DEF RegistryType
<1>3. /\ registry' = [registry EXCEPT !.fee_treasury = rest, !.fees_withdrawn = withdrawn]
      /\ UNCHANGED <<clock, live, stream, vault, record, ledger>>
  BY Zenon DEF withdraw_fees
<1>4. registry' \in RegistryType
  <2>. HIDE DEF rest, withdrawn
  <2>. QED  BY <1>1, <1>2, <1>3, Zenon DEF RegistryType
<1>. QED  BY <1>3, <1>4, NoStreamInv, Zenon

----------------------------------------------------------------------------
(* Tranches *)

\* What the sale of a tranche does to a stream, apart from amounts.
TrancheEffect(old, new) ==
    /\ ~Unhedged(old)
    /\ old.liquidation_status = STATUS_HEALTHY \/ next_tranche_due(old)
    /\ new.tranches_executed = old.tranches_executed + 1
    /\ new.last_tranche_timestamp = clock
    /\ new.liquidation_status =
         IF new.tranches_executed >= old.twap_tranches \/ new.balance = 0
         THEN STATUS_FULLY_HEDGED ELSE STATUS_TWAP_ACTIVE
    /\ old.liquidation_status # STATUS_HEALTHY
         => new.total_sui_at_hedge_start = old.total_sui_at_hedge_start
    /\ new.balance <= old.balance
    /\ old.usdc_balance <= new.usdc_balance
    /\ old.balance = 0 => new.usdc_balance = old.usdc_balance
    /\ new.total_amount = old.total_amount /\ new.withdrawn = old.withdrawn
    /\ new.end_time = old.end_time
    /\ new.strike_price = old.strike_price /\ new.hedge_direction = old.hedge_direction
    /\ new.twap_tranches = old.twap_tranches
    /\ new.twap_interval_ms = old.twap_interval_ms

\* A step that changes the object of stream s, at most its record with it, and no
\* other stream.
Changes(s, new) ==
    /\ stream' = [stream EXCEPT ![s] = new]
    /\ \A t \in Streams \ {s} : record'[t] = record[t]
    /\ UNCHANGED <<clock, live>>

Sold(s) ==
    /\ s \in live
    /\ \E new \in StreamType : Changes(s, new) /\ TrancheEffect(stream[s], new)

\* The first tranche has escrow to sell only if the baseline is positive, so a
\* tranche that leaves SUI behind leaves a baseline behind too.
LEMMA TrancheValues ==
    ASSUME NEW old \in StreamType, NEW st \in StreamType, NEW v \in VaultType,
           NEW r \in RecordType, NEW l \in LedgerType, clock \in Nat,
           StreamInv(TRUE, old, v, r, l, clock), ~Unhedged(old),
           \/ old.liquidation_status = STATUS_HEALTHY /\ st = start_hedge(old)
           \/ next_tranche_due(old) /\ st = old,
           NEW size \in Nat, NEW swap, NEW bounty \in Nat,
           swap.sold \in Nat, swap.usdc_out \in Nat,
           swap.sold <= st.balance, bounty <= swap.usdc_out,
           swap.sold = 0 => swap.usdc_out = 0
    PROVE  /\ after_tranche(st, size, swap, bounty) \in StreamType
           /\ pay_tranche(l, st, swap, bounty) \in LedgerType
           /\ StreamInv(TRUE, after_tranche(st, size, swap, bounty), v, r,
                        pay_tranche(l, st, swap, bounty), clock)
           /\ TrancheEffect(old, after_tranche(st, size, swap, bounty))
<1>. DEFINE new == after_tranche(st, size, swap, bounty)
            paid == pay_tranche(l, st, swap, bounty)
            sui == st.balance - swap.sold
            usdc == st.usdc_balance + (swap.usdc_out - bounty)
            hedged == st.total_hedged_amount + size
            executed == st.tranches_executed + 1
            status == IF executed >= st.twap_tranches \/ sui = 0
                      THEN STATUS_FULLY_HEDGED ELSE st.liquidation_status
            started == IF st.tranches_executed = 0 THEN clock ELSE l.hedge_started_at
            sold == l.sui_sold + swap.sold
            bought == l.usdc_bought + swap.usdc_out
            bounties == l.usdc_bounty + bounty
<1>1. /\ sui \in Nat /\ usdc \in Nat /\ hedged \in Nat /\ executed \in Nat
      /\ status \in {STATUS_HEALTHY, STATUS_TWAP_ACTIVE, STATUS_FULLY_HEDGED}
      /\ started \in Nat /\ sold \in Nat /\ bought \in Nat /\ bounties \in Nat
  BY DEF StreamType, LedgerType
<1>2. new = [st EXCEPT !.balance = sui, !.usdc_balance = usdc,
                       !.total_hedged_amount = hedged, !.tranches_executed = executed,
                       !.last_tranche_timestamp = clock, !.liquidation_status = status]
  BY Zenon DEF after_tranche
<1>3. /\ new \in StreamType
      /\ new.balance = sui /\ new.usdc_balance = usdc
      /\ new.tranches_executed = executed /\ new.last_tranche_timestamp = clock
      /\ new.liquidation_status = status
      /\ new.total_amount = st.total_amount /\ new.withdrawn = st.withdrawn
      /\ new.start_time = st.start_time /\ new.end_time = st.end_time
      /\ new.strike_price = st.strike_price /\ new.hedge_direction = st.hedge_direction
      /\ new.hedge_triggered = st.hedge_triggered
      /\ new.twap_tranches = st.twap_tranches
      /\ new.twap_interval_ms = st.twap_interval_ms
      /\ new.total_sui_at_hedge_start = st.total_sui_at_hedge_start
  <2>. HIDE DEF new, sui, usdc, hedged, executed, status
  <2>. QED  BY <1>1, <1>2, ZenonT(60) DEF StreamType
<1>4. paid = [l EXCEPT !.sui_sold = sold, !.usdc_bought = bought,
                       !.usdc_bounty = bounties, !.hedge_started_at = started]
  BY Zenon DEF pay_tranche
<1>5. /\ paid \in LedgerType
      /\ paid.sui_sold = sold /\ paid.usdc_bought = bought
      /\ paid.usdc_bounty = bounties
      /\ paid.hedge_started_at = started
      /\ paid.sui_receiver = l.sui_receiver /\ paid.usdc_receiver = l.usdc_receiver
      /\ paid.sui_fees = l.sui_fees
      /\ paid.sui_refunded = l.sui_refunded /\ paid.usdc_refunded = l.usdc_refunded
  <2>. HIDE DEF paid, started, sold, bought, bounties
  <2>. QED  BY <1>1, <1>4, Zenon DEF LedgerType
<1>6. /\ st.balance = old.balance /\ st.usdc_balance = old.usdc_balance
      /\ st.total_amount = old.total_amount /\ st.withdrawn = old.withdrawn
      /\ st.start_time = old.start_time /\ st.end_time = old.end_time
      /\ st.strike_price = old.strike_price
      /\ st.hedge_direction = old.hedge_direction
      /\ st.tranches_executed = old.tranches_executed
      /\ st.last_tranche_timestamp = old.last_tranche_timestamp
      /\ st.twap_tranches = old.twap_tranches
      /\ st.twap_interval_ms = old.twap_interval_ms
      /\ st.liquidation_status = STATUS_TWAP_ACTIVE
      /\ st.balance <= st.total_sui_at_hedge_start
      /\ st.hedge_triggered
      /\ st.tranches_executed < st.twap_tranches
      /\ st.tranches_executed > 0 => next_tranche_due(st)
      /\ st.tranches_executed = 0 => st.balance = st.total_sui_at_hedge_start
      /\ st.tranches_executed > 0 => st.total_sui_at_hedge_start > 0
  <2>1. CASE old.liquidation_status = STATUS_HEALTHY /\ st = start_hedge(old)
    <3>1. /\ st = [old EXCEPT !.liquidation_status = STATUS_TWAP_ACTIVE,
                              !.total_sui_at_hedge_start = old.balance,
                              !.hedge_triggered = TRUE]
          /\ old.tranches_executed = 0
      BY <2>1, Zenon DEF start_hedge, StreamInv, HedgeCoherent
    <3>. QED  BY <3>1 DEF StreamType
  <2>2. CASE next_tranche_due(old) /\ st = old
    BY <2>2
    DEF StreamInv, HedgeCoherent, next_tranche_due, StreamType,
        STATUS_HEALTHY, STATUS_TWAP_ACTIVE
  <2>. QED  BY <2>1, <2>2, Zenon
<1>. HIDE DEF new, paid
<1>7. Conserved(new, v, r, paid)
  <2>1. Conserved(old, v, r, l)
    BY Zenon DEF StreamInv
  <2>2. /\ old.balance \in Nat /\ old.usdc_balance \in Nat
        /\ v.sui_balance \in Nat /\ v.usdc_balance \in Nat
        /\ l.sui_receiver \in Nat /\ l.usdc_receiver \in Nat /\ l.sui_fees \in Nat
        /\ l.sui_sold \in Nat /\ l.usdc_bought \in Nat /\ l.usdc_bounty \in Nat
        /\ l.sui_refunded \in Nat /\ l.usdc_refunded \in Nat
    BY Zenon DEF StreamType, LedgerType, VaultType
  <2>3. r.total_amount = new.balance + v.sui_balance + paid.sui_receiver
                         + paid.sui_fees + paid.sui_sold + paid.sui_refunded
    BY <1>3, <1>5, <1>6, <2>1, <2>2 DEF Conserved
  <2>4. paid.usdc_bought = new.usdc_balance + v.usdc_balance + paid.usdc_receiver
                           + paid.usdc_bounty + paid.usdc_refunded
    BY <1>3, <1>5, <1>6, <2>1, <2>2 DEF Conserved
  <2>. QED  BY <2>3, <2>4, Zenon DEF Conserved
<1>8. paid.sui_receiver + paid.sui_fees <= vested_by(r, clock)
  BY <1>5, Zenon DEF StreamInv
<1>9. HedgeCoherent(new)
  BY <1>1, <1>3, <1>6
  DEF HedgeCoherent, StreamType, STATUS_HEALTHY, STATUS_TWAP_ACTIVE, STATUS_FULLY_HEDGED
<1>10. Spread(new, paid, clock)
  <2>1. CASE st.tranches_executed = 0
    BY <1>3, <1>5, <2>1 DEF Spread, StreamType
  <2>2. CASE st.tranches_executed > 0
    <3>. DEFINE k == st.tranches_executed  i == st.twap_interval_ms
                last == st.last_tranche_timestamp  h == l.hedge_started_at
    <3>1. k \in Nat /\ i \in Nat /\ last \in Nat /\ h \in Nat /\ k > 0
      BY <2>2, Zenon DEF StreamType, LedgerType
    <3>2. last - h >= (k - 1) * i /\ clock - last >= i
      BY <1>6, <2>2, Zenon DEF StreamInv, Spread, next_tranche_due
    <3>3. clock - h >= (k + 1 - 1) * i
      <4>. HIDE DEF k, i, last, h
      <4>1. (k + 1 - 1) * i = (k - 1) * i + i
        BY <3>1, SMT
      <4>2. (k - 1) * i \in Int
        BY <3>1
      <4>. QED  BY <3>1, <3>2, <4>1, <4>2
    <3>4. /\ new.tranches_executed = k + 1 /\ new.last_tranche_timestamp = clock
          /\ new.twap_interval_ms = i /\ paid.hedge_started_at = h
      BY <1>3, <1>5, <3>1
    <3>. HIDE DEF k, i, last, h
    <3>5. (new.tranches_executed - 1) * new.twap_interval_ms = (k + 1 - 1) * i
      BY <3>1, <3>4
    <3>6. clock - h >= (new.tranches_executed - 1) * new.twap_interval_ms
      BY <3>3, <3>5, Zenon
    <3>. QED  BY <3>4, <3>6 DEF Spread
  <2>. QED  BY <2>1, <2>2 DEF StreamType
<1>11. RecordMatches(TRUE, new, v, r, paid)
  <2>1. RecordMatches(TRUE, old, v, r, l)
    BY Zenon DEF StreamInv
  <2>2. old.balance = 0 => swap.sold = 0 /\ swap.usdc_out = 0 /\ bounty = 0
    BY <1>6
  <2>3. old.balance = 0 /\ old.usdc_balance = 0 => new.balance = 0 /\ new.usdc_balance = 0
    BY <1>3, <1>6, <2>2 DEF StreamType
  <2>. QED  BY <1>3, <1>5, <1>6, <2>1, <2>3 DEF RecordMatches
<1>12. FullyBacked(TRUE, new, r, paid)
  BY <1>3, <1>6, Zenon DEF FullyBacked, Unhedged
<1>13. Bookkept(TRUE, new, v, r, paid, clock)
  BY <1>3, <1>5, <1>6, Zenon
  DEF StreamInv, Bookkept, Unhedged, RecordMatches,
      RECORD_NONE, STATUS_ACTIVE, STATUS_COMPLETED
<1>14. StreamInv(TRUE, new, v, r, paid, clock)
  BY <1>7, <1>8, <1>9, <1>10, <1>11, <1>12, <1>13, Zenon DEF StreamInv
<1>15. TrancheEffect(old, new)
  <2>1. /\ old.balance \in Nat /\ old.usdc_balance \in Nat
        /\ old.liquidation_status # STATUS_HEALTHY => st = old
    BY Zenon DEF StreamType
  <2>2. /\ new.balance <= old.balance
        /\ old.usdc_balance <= new.usdc_balance
        /\ old.balance = 0 => new.usdc_balance = old.usdc_balance
    BY <1>3, <1>6, <2>1
  <2>. QED  BY <1>3, <1>6, <2>1, <2>2, Zenon DEF TrancheEffect
<1>. QED  BY <1>3, <1>5, <1>14, <1>15, Zenon DEF new, paid

\* A tranche never asks for more than the escrow.
LEMMA TrancheSizeBound ==
    ASSUME NEW st \in StreamType, st.tranches_executed < st.twap_tranches
    PROVE  tranche_size(st) \in Nat /\ tranche_size(st) <= st.balance
<1>. DEFINE left == st.twap_tranches - st.tranches_executed
            b == st.balance
<1>1. left \in Nat \ {0} /\ b \in Nat
  BY DEF StreamType
<1>2. b \div left \in Nat /\ b \div left <= b
  <2>. HIDE DEF left, b
  <2>1. proportional(b, 1, left) \in Nat /\ proportional(b, 1, left) <= b
    BY <1>1, ShareBound
  <2>. QED  BY <1>1, <2>1 DEF proportional
<1>. QED  BY <1>1, <1>2 DEF tranche_size

\* The bounty is part of the proceeds.
LEMMA BountyBound ==
    ASSUME NEW is_fallback \in BOOLEAN, NEW usdc_amount \in Nat
    PROVE  /\ fallback_bounty(is_fallback, usdc_amount) \in Nat
           /\ fallback_bounty(is_fallback, usdc_amount) <= usdc_amount
<1>1. /\ proportional(usdc_amount, FALLBACK_BOUNTY_BPS, 10000) \in Nat
      /\ proportional(usdc_amount, FALLBACK_BOUNTY_BPS, 10000) <= usdc_amount
  BY ShareBound DEF FALLBACK_BOUNTY_BPS
<1>. QED  BY <1>1 DEF fallback_bounty, proportional

\* Every tranche, whoever sends it, preserves the invariant.
LEMMA TrancheInv ==
    ASSUME IndInv, NEW s \in Streams, s \in live, in_breach(stream[s]), NEW st,
           \/ stream[s].liquidation_status = STATUS_HEALTHY /\ st = start_hedge(stream[s])
           \/ next_tranche_due(stream[s]) /\ st = stream[s],
           NEW guard \in Nat, NEW is_fallback \in BOOLEAN,
           execute_tranche_internal(s, st, guard, is_fallback)
    PROVE  IndInv' /\ Sold(s)
<1>. DEFINE old == stream[s]  v == vault[s]  r == record[s]  l == ledger[s]
            size == tranche_size(st)
<1>1. /\ old \in StreamType /\ v \in VaultType /\ r \in RecordType
      /\ l \in LedgerType /\ clock \in Nat /\ registry \in RegistryType
      /\ vault \in [Streams -> VaultType] /\ record \in [Streams -> RecordType]
      /\ live \subseteq Streams
  BY Zenon DEF IndInv, TypeOK
<1>2. StreamInv(TRUE, old, v, r, l, clock)
  <2>1. StreamInvAt(s) /\ (s \in live) = TRUE
    BY IndInvPerStream, Zenon
  <2>. QED  BY <2>1, Zenon DEF StreamInvAt
<1>3. ~Unhedged(old)
  BY BreachIsProtected, Zenon
<1>4. st \in StreamType /\ st.tranches_executed < st.twap_tranches
  <2>1. CASE old.liquidation_status = STATUS_HEALTHY /\ st = start_hedge(old)
    <3>1. old.tranches_executed = 0
      BY <1>2, <2>1, Zenon DEF StreamInv, HedgeCoherent
    <3>. DEFINE b == old.balance
    <3>2. /\ b \in Nat
          /\ st = [old EXCEPT !.liquidation_status = STATUS_TWAP_ACTIVE,
                             !.total_sui_at_hedge_start = b, !.hedge_triggered = TRUE]
      BY <1>1, <2>1, Zenon DEF start_hedge, StreamType
    <3>. HIDE DEF old, b
    <3>3. /\ st \in StreamType /\ st.tranches_executed = old.tranches_executed
          /\ st.twap_tranches = old.twap_tranches
      BY <1>1, <3>2, Zenon DEF StreamType
    <3>. QED  BY <3>1, <3>3 DEF StreamType
  <2>2. CASE next_tranche_due(old) /\ st = old
    BY <1>1, <2>2, Zenon DEF next_tranche_due
  <2>. QED  BY <2>1, <2>2, Zenon
<1>5. size \in Nat /\ size <= st.balance /\ st.balance \in Nat
  BY <1>4, TrancheSizeBound, Zenon DEF StreamType
<1>6. PICK swap \in IF size > 0 THEN swap_sui_to_usdc_guarded(size, guard) ELSE {NoSwap} :
        LET bounty == fallback_bounty(is_fallback, swap.usdc_out)
        IN  /\ stream' = [stream EXCEPT ![s] = after_tranche(st, size, swap, bounty)]
            /\ ledger' = [ledger EXCEPT ![s] = pay_tranche(@, st, swap, bounty)]
            /\ UNCHANGED <<clock, live, vault, record, registry>>
  BY Zenon DEF execute_tranche_internal
<1>. DEFINE bounty == fallback_bounty(is_fallback, swap.usdc_out)
<1>. HIDE DEF size
<1>7. /\ swap.sold \in Nat /\ swap.sold <= st.balance /\ swap.usdc_out \in Nat
      /\ swap.sold = 0 => swap.usdc_out = 0
  <2>1. CASE size > 0
    <3>1. /\ swap.sold \in Nat /\ swap.sold <= size /\ swap.usdc_out \in Nat
          /\ swap.sold = 0 => swap.usdc_out = 0
      BY <1>5, <1>6, <2>1, SwapBound, Zenon
    <3>. QED  BY <1>5, <3>1
  <2>2. CASE ~(size > 0)
    BY <1>5, <1>6, <2>2 DEF NoSwap
  <2>. QED  BY <2>1, <2>2, Zenon
<1>8. bounty \in Nat /\ bounty <= swap.usdc_out
  BY <1>7, BountyBound, Zenon
<1>. DEFINE new == after_tranche(st, size, swap, bounty)
            paid == pay_tranche(l, st, swap, bounty)
<1>9. /\ stream' = [stream EXCEPT ![s] = new] /\ ledger' = [ledger EXCEPT ![s] = paid]
      /\ vault' = vault /\ record' = record /\ live' = live /\ clock' = clock
      /\ registry' = registry
  BY <1>6, Zenon
<1>. HIDE DEF bounty
<1>10. /\ new \in StreamType /\ paid \in LedgerType /\ StreamInv(TRUE, new, v, r, paid, clock)
       /\ TrancheEffect(old, new)
  <2>. HIDE DEF old, v, r, l
  <2>1. \/ old.liquidation_status = STATUS_HEALTHY /\ st = start_hedge(old)
        \/ next_tranche_due(old) /\ st = old
    BY Zenon DEF old
  <2>. QED  BY <1>1, <1>2, <1>3, <1>4, <1>5, <1>7, <1>8, <2>1, TrancheValues, Zenon
<1>11. /\ vault' = [vault EXCEPT ![s] = v] /\ record' = [record EXCEPT ![s] = r]
       /\ live' = IF TRUE THEN live \cup {s} ELSE live \ {s}
  <2>1. vault = [vault EXCEPT ![s] = vault[s]]
    BY <1>1, SameValue, Zenon
  <2>2. record = [record EXCEPT ![s] = record[s]]
    BY <1>1, SameValue, Zenon
  <2>3. live = live \cup {s}
    BY Zenon
  <2>. QED  BY <1>9, <2>1, <2>2, <2>3, Zenon
<1>. HIDE DEF new, paid, v, r
<1>12. Sold(s)
  BY <1>9, <1>10, Zenon DEF Sold, Changes
<1>. QED  BY <1>1, <1>9, <1>10, <1>11, <1>12, StreamUpdate, Zenon

\* The three entry points that sell a tranche.
LEMMA HedgeInv ==
    ASSUME IndInv, NEW s \in Streams, NEW guard \in MinOutputGuards,
           \/ initiate_hedge(s, guard)
           \/ execute_tranche(s, guard)
           \/ fallback_hedge_trigger(s, guard)
    PROVE  IndInv' /\ Sold(s)
<1>1. guard \in Nat
  BY EnvironmentAssumption, Zenon
<1>2. CASE initiate_hedge(s, guard)
  BY <1>1, <1>2, TrancheInv, Zenon DEF initiate_hedge
<1>3. CASE execute_tranche(s, guard)
  BY <1>1, <1>3, TrancheInv, Zenon DEF execute_tranche
<1>4. CASE fallback_hedge_trigger(s, guard)
  BY <1>1, <1>4, TrancheInv, Zenon DEF fallback_hedge_trigger
<1>. QED  BY <1>2, <1>3, <1>4, Zenon

----------------------------------------------------------------------------
(* Claims *)

\* The fields no claim changes.
SameTerms(old, new) ==
    /\ new.total_amount = old.total_amount
    /\ new.start_time = old.start_time
    /\ new.end_time = old.end_time
    /\ new.strike_price = old.strike_price
    /\ new.hedge_direction = old.hedge_direction
    /\ new.twap_tranches = old.twap_tranches
    /\ new.twap_interval_ms = old.twap_interval_ms
    /\ new.tranches_executed = old.tranches_executed
    /\ new.last_tranche_timestamp = old.last_tranche_timestamp
    /\ new.liquidation_status = old.liquidation_status
    /\ new.total_sui_at_hedge_start = old.total_sui_at_hedge_start

\* What a claim of the given size may do to the values of a stream: old becomes
\* new, the receiver gets sui and usdc, the treasury fee, the pool swap.sold.
ClaimEffect(old, new, claimable, fee, sui, usdc, swap) ==
    /\ new.withdrawn = old.withdrawn + claimable
    /\ new.balance + fee + sui + swap.sold = old.balance
    /\ new.usdc_balance + usdc = old.usdc_balance + swap.usdc_out
    /\ sui + fee <= claimable
    /\ swap.usdc_out <= usdc
    /\ old.liquidation_status = STATUS_HEALTHY => usdc = swap.usdc_out
    /\ Unhedged(old) => swap.sold = 0 /\ sui + fee = claimable
    /\ old.hedge_triggered => new.hedge_triggered
    /\ SameTerms(old, new)

\* What a claim does to a stream, whatever its branch: all that has vested is
\* withdrawn and neither pool grows.
Claimed(s) ==
    /\ s \in live
    /\ newly_vested(stream[s], clock) > 0
    /\ \E new \in StreamType :
         /\ Changes(s, new)
         /\ SameTerms(stream[s], new)
         /\ new.withdrawn = stream[s].withdrawn + newly_vested(stream[s], clock)
         /\ new.balance <= stream[s].balance
         /\ new.usdc_balance <= stream[s].usdc_balance

\* record_completion keeps a record well typed and leaves its schedule alone.
LEMMA CompletionRecord ==
    ASSUME NEW r \in RecordType, NEW total \in Nat, clock \in Nat
    PROVE  /\ record_completion(r, total) \in RecordType
           /\ record_completion(r, total).status = STATUS_COMPLETED
           /\ record_completion(r, total).total_amount = r.total_amount
           /\ record_completion(r, total).start_time = r.start_time
           /\ record_completion(r, total).end_time = r.end_time
  BY Zenon DEF record_completion, RecordType

\* A claim with such an effect, of no more than has vested, keeps the invariant of
\* its stream: a completed stream has nothing left to claim, and an unhedged one is
\* completed by the claim that withdraws the last unit.
LEMMA ClaimValues ==
    ASSUME NEW old \in StreamType, NEW new \in StreamType, NEW v \in VaultType,
           NEW r \in RecordType, NEW l \in LedgerType, clock \in Nat,
           StreamInv(TRUE, old, v, r, l, clock),
           NEW claimable \in Nat \ {0}, NEW fee \in Nat, NEW sui \in Nat,
           NEW usdc \in Nat, NEW swap, swap.sold \in Nat, swap.usdc_out \in Nat,
           ClaimEffect(old, new, claimable, fee, sui, usdc, swap),
           new.withdrawn <= vested_by(r, clock),
           NEW rec,
           rec = IF settled(new) THEN record_completion(r, new.total_amount) ELSE r
    PROVE  /\ pay(l, fee, sui, usdc, swap) \in LedgerType
           /\ rec \in RecordType
           /\ StreamInv(TRUE, new, v, rec, pay(l, fee, sui, usdc, swap), clock)
<1>. DEFINE paid == pay(l, fee, sui, usdc, swap)
            to_receiver == l.sui_receiver + sui
            usdc_to_receiver == l.usdc_receiver + usdc
            fees == l.sui_fees + fee
            sold == l.sui_sold + swap.sold
            bought == l.usdc_bought + swap.usdc_out
<1>1. /\ to_receiver \in Nat /\ usdc_to_receiver \in Nat /\ fees \in Nat
      /\ sold \in Nat /\ bought \in Nat
  BY DEF LedgerType
<1>2. paid = [l EXCEPT !.sui_receiver = to_receiver, !.usdc_receiver = usdc_to_receiver,
                       !.sui_fees = fees, !.sui_sold = sold, !.usdc_bought = bought]
  BY Zenon DEF pay
<1>3. /\ paid \in LedgerType
      /\ paid.sui_receiver = to_receiver /\ paid.usdc_receiver = usdc_to_receiver
      /\ paid.sui_fees = fees /\ paid.sui_sold = sold /\ paid.usdc_bought = bought
      /\ paid.usdc_bounty = l.usdc_bounty /\ paid.hedge_started_at = l.hedge_started_at
      /\ paid.sui_refunded = l.sui_refunded /\ paid.usdc_refunded = l.usdc_refunded
  <2>. HIDE DEF paid, to_receiver, usdc_to_receiver, fees, sold, bought
  <2>. QED  BY <1>1, <1>2, Zenon DEF LedgerType
<1>4. /\ rec \in RecordType
      /\ rec.total_amount = r.total_amount
      /\ rec.start_time = r.start_time /\ rec.end_time = r.end_time
      /\ rec.status = IF settled(new) THEN STATUS_COMPLETED ELSE r.status
  <2>1. CASE settled(new)
    <3>1. new.total_amount \in Nat /\ rec = record_completion(r, new.total_amount)
      BY <2>1, Zenon DEF StreamType
    <3>. DEFINE total == new.total_amount
                c == record_completion(r, total)
    <3>2. total \in Nat
      BY <3>1, Zenon
    <3>. HIDE DEF total
    <3>3. /\ c \in RecordType /\ c.status = STATUS_COMPLETED
          /\ c.total_amount = r.total_amount
          /\ c.start_time = r.start_time /\ c.end_time = r.end_time
      BY <3>2, CompletionRecord, Zenon
    <3>4. rec = c
      BY <3>1, Zenon DEF total
    <3>. HIDE DEF c
    <3>. QED  BY <2>1, <3>3, <3>4, Zenon
  <2>2. CASE ~settled(new)
    BY <2>2, Zenon
  <2>. QED  BY <2>1, <2>2, Zenon
<1>5. vested_by(rec, clock) = vested_by(r, clock)
  BY <1>4, Zenon DEF vested_by
<1>6. /\ r.status \in {STATUS_ACTIVE, STATUS_COMPLETED}
      /\ r.start_time < r.end_time /\ r.total_amount = old.total_amount
  BY Zenon DEF StreamInv, RecordMatches, Bookkept, RECORD_NONE, STATUS_ACTIVE, STATUS_COMPLETED
<1>7. vested_by(r, clock) \in Nat /\ vested_by(r, clock) <= r.total_amount
  BY <1>6, VestedByBound, Zenon
<1>8. new.withdrawn <= new.total_amount /\ old.withdrawn < old.total_amount
  BY <1>6, <1>7 DEF ClaimEffect, SameTerms, StreamType, RecordType
<1>9. r.status = STATUS_ACTIVE /\ ~v.exists
  BY <1>6, <1>8 DEF StreamInv, RecordMatches, StreamType, STATUS_ACTIVE, STATUS_CANCELED
<1>. HIDE DEF paid
<1>10. /\ new.balance \in Nat /\ new.usdc_balance \in Nat /\ new.withdrawn \in Nat
       /\ old.balance \in Nat /\ old.usdc_balance \in Nat /\ old.withdrawn \in Nat
       /\ new.total_amount \in Nat
       /\ v.sui_balance \in Nat /\ v.usdc_balance \in Nat
       /\ l.sui_receiver \in Nat /\ l.usdc_receiver \in Nat /\ l.sui_fees \in Nat
       /\ l.sui_sold \in Nat /\ l.usdc_bought \in Nat /\ l.usdc_bounty \in Nat
       /\ l.sui_refunded \in Nat /\ l.usdc_refunded \in Nat
  BY Zenon DEF StreamType, LedgerType, VaultType
<1>11. /\ new.withdrawn = old.withdrawn + claimable
       /\ new.balance + fee + sui + swap.sold = old.balance
       /\ new.usdc_balance + usdc = old.usdc_balance + swap.usdc_out
       /\ sui + fee <= claimable
       /\ old.liquidation_status = STATUS_HEALTHY => usdc = swap.usdc_out
       /\ Unhedged(old) => swap.sold = 0 /\ sui + fee = claimable
       /\ old.hedge_triggered => new.hedge_triggered
       /\ SameTerms(old, new)
  BY Zenon DEF ClaimEffect
<1>12. Conserved(new, v, rec, paid)
  <2>1. Conserved(old, v, r, l)
    BY Zenon DEF StreamInv
  <2>2. rec.total_amount = new.balance + v.sui_balance + paid.sui_receiver
                           + paid.sui_fees + paid.sui_sold + paid.sui_refunded
    <3>1. r.total_amount = old.balance + v.sui_balance + l.sui_receiver
                           + l.sui_fees + l.sui_sold + l.sui_refunded
      BY <2>1, Zenon DEF Conserved
    <3>. HIDE DEF settled
    <3>. QED  BY <1>3, <1>4, <1>10, <1>11, <3>1
  <2>3. paid.usdc_bought = new.usdc_balance + v.usdc_balance + paid.usdc_receiver
                           + paid.usdc_bounty + paid.usdc_refunded
    <3>1. l.usdc_bought = old.usdc_balance + v.usdc_balance + l.usdc_receiver
                          + l.usdc_bounty + l.usdc_refunded
      BY <2>1, Zenon DEF Conserved
    <3>2. /\ paid.usdc_bought = l.usdc_bought + swap.usdc_out
          /\ paid.usdc_receiver = l.usdc_receiver + usdc
          /\ paid.usdc_bounty = l.usdc_bounty /\ paid.usdc_refunded = l.usdc_refunded
      BY <1>3, Zenon
    <3>3. new.usdc_balance + usdc = old.usdc_balance + swap.usdc_out
      BY <1>11, Zenon
    <3>. QED  BY <1>10, <3>1, <3>2, <3>3
  <2>. QED  BY <2>2, <2>3, Zenon DEF Conserved
<1>13. /\ paid.sui_receiver + paid.sui_fees <= new.withdrawn
       /\ paid.sui_receiver + paid.sui_fees <= vested_by(rec, clock)
  <2>1. l.sui_receiver + l.sui_fees <= old.withdrawn
    BY Zenon DEF StreamInv, Bookkept
  <2>2. paid.sui_receiver + paid.sui_fees <= new.withdrawn
    BY <1>3, <1>10, <1>11, <2>1
  <2>. QED  BY <1>3, <1>5, <1>7, <1>10, <2>2
<1>14. HedgeCoherent(new)
  <2>1. HedgeCoherent(old)
    BY Zenon DEF StreamInv
  <2>2. /\ new.liquidation_status = old.liquidation_status
        /\ new.tranches_executed = old.tranches_executed
        /\ new.twap_tranches = old.twap_tranches
        /\ new.total_sui_at_hedge_start = old.total_sui_at_hedge_start
        /\ new.total_sui_at_hedge_start \in Nat
    BY <1>11, Zenon DEF SameTerms, StreamType
  <2>3. new.balance <= old.balance
    BY <1>10, <1>11
  <2>4. old.liquidation_status = STATUS_HEALTHY /\ old.usdc_balance = 0
          => new.usdc_balance = 0
    BY <1>10, <1>11
  <2>. QED  BY <1>10, <1>11, <2>1, <2>2, <2>3, <2>4 DEF HedgeCoherent
<1>15. Spread(new, paid, clock)
  BY <1>3, Zenon DEF StreamInv, Spread, ClaimEffect, SameTerms
<1>16. RecordMatches(TRUE, new, v, rec, paid)
  BY <1>4, <1>8, <1>9
  DEF RecordMatches, settled, StreamType, STATUS_ACTIVE, STATUS_COMPLETED, STATUS_CANCELED
<1>17. FullyBacked(TRUE, new, rec, paid)
  <2>1. SUFFICES ASSUME Unhedged(new)
                 PROVE  /\ new.balance = new.total_amount - new.withdrawn
                        /\ paid.sui_sold = 0
                        /\ new.withdrawn = new.total_amount => rec.status = STATUS_COMPLETED
    BY Zenon DEF FullyBacked
  <2>2. Unhedged(old)
    BY <2>1, Zenon DEF Unhedged, ClaimEffect, SameTerms
  <2>3. /\ old.balance = old.total_amount - old.withdrawn /\ l.sui_sold = 0
        /\ old.liquidation_status = STATUS_HEALTHY
    BY <2>2, Zenon DEF StreamInv, FullyBacked, Bookkept
  <2>4. new.balance = new.total_amount - new.withdrawn /\ paid.sui_sold = 0
    <3>1. paid.sui_sold = 0
      BY <1>3, <1>11, <2>2, <2>3
    <3>2. new.total_amount = old.total_amount
      BY <1>11, Zenon DEF SameTerms
    <3>3. new.balance + claimable = old.balance
      BY <1>10, <1>11, <2>2
    <3>. QED  BY <1>10, <1>11, <2>3, <3>1, <3>2, <3>3
  <2>5. new.usdc_balance = 0
    BY <1>14, <2>3, Zenon DEF HedgeCoherent, ClaimEffect, SameTerms
  <2>6. new.withdrawn = new.total_amount => settled(new)
    BY <2>4, <2>5 DEF settled, StreamType
  <2>. QED  BY <1>4, <2>4, <2>6, Zenon
<1>18. Bookkept(TRUE, new, v, rec, paid, clock)
  <2>1. Bookkept(TRUE, old, v, r, l, clock)
    BY Zenon DEF StreamInv
  <2>2. Unhedged(new) <=> Unhedged(old)
    BY Zenon DEF Unhedged, ClaimEffect, SameTerms
  <2>. QED
    BY <1>3, <1>4, <1>5, <1>9, <1>13, <2>1, <2>2, Zenon
    DEF Bookkept, ClaimEffect, SameTerms, STATUS_ACTIVE, STATUS_COMPLETED, RECORD_NONE
<1>19. StreamInv(TRUE, new, v, rec, paid, clock)
  BY <1>12, <1>13, <1>14, <1>15, <1>16, <1>17, <1>18, Zenon DEF StreamInv
<1>. QED  BY <1>3, <1>4, <1>19, Zenon DEF paid

\* What the invariant says of an existing stream.
LEMMA LiveStream ==
    ASSUME IndInv, NEW s \in Streams, s \in live
    PROVE  /\ stream[s] \in StreamType /\ vault[s] \in VaultType
           /\ record[s] \in RecordType /\ ledger[s] \in LedgerType
           /\ clock \in Nat /\ registry \in RegistryType
           /\ StreamInv(TRUE, stream[s], vault[s], record[s], ledger[s], clock)
<1>1. StreamInvAt(s) /\ (s \in live) = TRUE
  BY IndInvPerStream, Zenon
<1>. QED  BY <1>1, Zenon DEF StreamInvAt, IndInv, TypeOK

\* What can be claimed is what has vested and was not withdrawn before.
LEMMA Claimable ==
    ASSUME IndInv, NEW s \in Streams, s \in live
    PROVE  /\ newly_vested(stream[s], clock) \in Nat
           /\ newly_vested(stream[s], clock) + stream[s].withdrawn
                = vested_by(record[s], clock)
           /\ vested_by(record[s], clock) <= stream[s].total_amount
<1>1. /\ stream[s] \in StreamType /\ record[s] \in RecordType /\ clock \in Nat
      /\ StreamInv(TRUE, stream[s], vault[s], record[s], ledger[s], clock)
  BY LiveStream, Zenon
<1>2. record[s].start_time < record[s].end_time
  BY <1>1, Zenon DEF StreamInv, RecordMatches, Bookkept, RECORD_NONE, STATUS_ACTIVE, STATUS_COMPLETED
<1>3. /\ vested_by(record[s], clock) \in Nat
      /\ vested_by(record[s], clock) <= record[s].total_amount
  BY <1>1, <1>2, VestedByBound, Zenon
<1>4. /\ stream[s].total_amount = record[s].total_amount
      /\ stream[s].start_time = record[s].start_time
      /\ stream[s].end_time = record[s].end_time
      /\ stream[s].withdrawn <= vested_by(record[s], clock)
  BY <1>1, Zenon DEF StreamInv, Bookkept
<1>. DEFINE w == stream[s].withdrawn  vested == vested_by(record[s], clock)
<1>5. w \in Nat /\ newly_vested(stream[s], clock) = IF vested > w THEN vested - w ELSE 0
  BY <1>1, <1>4, Zenon DEF newly_vested, vested_by, StreamType
<1>6. vested \in Nat /\ w <= vested /\ vested <= stream[s].total_amount
  BY <1>3, <1>4, Zenon
<1>. HIDE DEF w, vested
<1>7. newly_vested(stream[s], clock) \in Nat /\ newly_vested(stream[s], clock) + w = vested
  BY <1>5, <1>6
<1>. QED  BY <1>6, <1>7, Zenon DEF w, vested

\* What is paid out of a pool leaves no more in it, a swap's proceeds included as long
\* as they are paid out too.
LEMMA NoPoolGrows ==
    /\ \A now, before, fee, sui, sold \in Nat :
          now + fee + sui + sold = before => now <= before
    /\ \A now, before, usdc, bought \in Nat :
          now + usdc = before + bought /\ bought <= usdc => now <= before
  BY SMT

\* Whatever its branch, a claim that ends in finish_claim preserves the invariant.
LEMMA FinishClaimInv ==
    ASSUME IndInv, NEW s \in Streams, s \in live, newly_vested(stream[s], clock) > 0,
           NEW new \in StreamType, NEW fee \in Nat, NEW sui \in Nat, NEW usdc \in Nat,
           NEW swap, swap.sold \in Nat, swap.usdc_out \in Nat,
           ClaimEffect(stream[s], new, newly_vested(stream[s], clock), fee, sui, usdc, swap),
           finish_claim(s, new, fee, sui, usdc, swap)
    PROVE  IndInv' /\ Claimed(s)
<1>. DEFINE old == stream[s]  v == vault[s]  r == record[s]  l == ledger[s]
            claimable == newly_vested(stream[s], clock)
            paid == pay(l, fee, sui, usdc, swap)
            rec == IF settled(new) THEN record_completion(r, new.total_amount) ELSE r
<1>1. /\ old \in StreamType /\ v \in VaultType /\ r \in RecordType /\ l \in LedgerType
      /\ clock \in Nat /\ registry \in RegistryType
      /\ StreamInv(TRUE, old, v, r, l, clock)
  BY LiveStream, Zenon
<1>2. claimable \in Nat \ {0} /\ new.withdrawn <= vested_by(r, clock)
  <2>1. new.withdrawn = old.withdrawn + claimable
    BY Zenon DEF ClaimEffect
  <2>2. claimable \in Nat /\ claimable + old.withdrawn = vested_by(r, clock)
    BY Claimable, Zenon
  <2>3. old.withdrawn \in Nat
    BY <1>1, Zenon DEF StreamType
  <2>. HIDE DEF old, claimable, r
  <2>4. claimable # 0
    BY DEF claimable
  <2>. QED  BY <2>1, <2>2, <2>3, <2>4
<1>3. /\ stream' = [stream EXCEPT ![s] = new] /\ ledger' = [ledger EXCEPT ![s] = paid]
      /\ record' = [record EXCEPT ![s] = rec] /\ vault' = vault /\ live' = live
      /\ clock' = clock /\ registry' = [registry EXCEPT !.fee_treasury = @ + fee]
  BY Zenon DEF finish_claim, deposit_fee
<1>4. ClaimEffect(old, new, claimable, fee, sui, usdc, swap)
  BY Zenon
<1>5. /\ paid \in LedgerType /\ rec \in RecordType
      /\ StreamInv(TRUE, new, v, rec, paid, clock)
  <2>. HIDE DEF old, v, r, l, claimable
  <2>1. rec = IF settled(new) THEN record_completion(r, new.total_amount) ELSE r
    BY Zenon
  <2>. HIDE DEF rec
  <2>. QED  BY <1>1, <1>2, <1>4, <2>1, ClaimValues, ZenonT(40)
<1>6. registry' \in RegistryType
  <2>. DEFINE fees == registry.fee_treasury + fee
  <2>1. fees \in Nat /\ registry' = [registry EXCEPT !.fee_treasury = fees]
    BY <1>1, <1>3 DEF RegistryType
  <2>. HIDE DEF fees
  <2>. QED  BY <1>1, <2>1, Zenon DEF RegistryType
<1>7. /\ vault' = [vault EXCEPT ![s] = v]
      /\ live' = IF TRUE THEN live \cup {s} ELSE live \ {s}
  <2>1. vault = [vault EXCEPT ![s] = vault[s]]
    BY SameValue, Zenon DEF IndInv, TypeOK
  <2>2. live = live \cup {s}
    BY Zenon
  <2>. QED  BY <1>3, <2>1, <2>2, Zenon
<1>8. Claimed(s)
  <2>1. /\ new.balance \in Nat /\ new.usdc_balance \in Nat
        /\ old.balance \in Nat /\ old.usdc_balance \in Nat
    BY <1>1, Zenon DEF StreamType
  <2>2. /\ SameTerms(old, new) /\ new.withdrawn = old.withdrawn + claimable
        /\ new.balance + fee + sui + swap.sold = old.balance
        /\ new.usdc_balance + usdc = old.usdc_balance + swap.usdc_out
        /\ swap.usdc_out <= usdc
    BY <1>4, Zenon DEF ClaimEffect
  <2>3. new.balance <= old.balance /\ new.usdc_balance <= old.usdc_balance
    BY <2>1, <2>2, NoPoolGrows, ZenonT(40)
  <2>4. \A t \in Streams \ {s} : record'[t] = record[t]
    BY <1>3, Zenon DEF IndInv, TypeOK
  <2>. QED  BY <1>3, <2>2, <2>3, <2>4, Zenon DEF Claimed, Changes
<1>. HIDE DEF v, rec, paid
<1>. QED  BY <1>1, <1>3, <1>5, <1>6, <1>7, <1>8, StreamUpdate, Zenon

\* Charging a claim edits the amount withdrawn and the escrow, and nothing else.
Charge(old, w, b) == [old EXCEPT !.withdrawn = w, !.balance = b]

\* st is old with its withdrawn amount and its balance set to w and b.
Rebalanced(old, st, w, b) ==
    /\ st \in StreamType /\ SameTerms(old, st)
    /\ st.withdrawn = w /\ st.balance = b
    /\ st.usdc_balance = old.usdc_balance
    /\ st.hedge_triggered = old.hedge_triggered
    /\ st.accumulated_hedge_debt = old.accumulated_hedge_debt

\* Charging does just that: the result is well typed and no other field that the
\* invariant reads changes.
LEMMA ChargeEdit ==
    ASSUME NEW old \in StreamType, NEW w \in Nat, NEW b \in Nat
    PROVE  Rebalanced(old, Charge(old, w, b), w, b)
<1>. DEFINE st == Charge(old, w, b)
<1>1. st \in StreamType
  BY Zenon DEF Charge, StreamType
<1>2. st.withdrawn = w /\ st.balance = b
  BY Zenon DEF Charge, StreamType
<1>3. SameTerms(old, st)
  BY DEF Charge, SameTerms
<1>4. /\ st.usdc_balance = old.usdc_balance
      /\ st.hedge_triggered = old.hedge_triggered
      /\ st.accumulated_hedge_debt = old.accumulated_hedge_debt
  BY DEF Charge
<1>. HIDE DEF st
<1>5. Rebalanced(old, st, w, b)
  BY <1>1, <1>2, <1>3, <1>4, Zenon DEF Rebalanced
<1>. QED  BY <1>5, Zenon DEF st

\* st is old after a claim of the given size was charged the given fee.
Charged(old, st, claimable, fee) ==
    /\ st \in StreamType
    /\ SameTerms(old, st)
    /\ st.withdrawn = old.withdrawn + claimable
    /\ st.balance + fee = old.balance
    /\ st.usdc_balance = old.usdc_balance
    /\ st.hedge_triggered = old.hedge_triggered
    /\ st.accumulated_hedge_debt = old.accumulated_hedge_debt

\* A fee is collected when the balance covers it, and only then.
LEMMA Collected ==
    ASSUME NEW balance \in Nat, NEW charged \in Nat,
           NEW fee, fee = IF balance >= charged THEN charged ELSE 0
    PROVE  /\ fee \in Nat /\ fee <= charged /\ fee <= balance
           /\ balance - fee \in Nat /\ (balance - fee) + fee = balance
           /\ charged <= balance => fee = charged
  BY SMT

\* A balance of all that is not withdrawn covers what is charged on a claim.
LEMMA CoversCharge ==
    ASSUME NEW total \in Nat, NEW withdrawn \in Nat, NEW claimable \in Nat,
           NEW charged \in Nat, claimable + withdrawn <= total, charged <= claimable
    PROVE  charged <= total - withdrawn
  BY SMT

\* The part of a claim before its branches: the fee is part of the claim, it is
\* only collected from escrow that covers it, and it always is when unhedged.
LEMMA ChargedStream ==
    ASSUME IndInv, NEW s \in Streams, s \in live, newly_vested(stream[s], clock) > 0,
           NEW charged \in Nat, charged <= newly_vested(stream[s], clock),
           NEW fee, fee = IF stream[s].balance >= charged THEN charged ELSE 0,
           NEW st,
           st = Charge(stream[s], stream[s].withdrawn + newly_vested(stream[s], clock),
                       stream[s].balance - fee)
    PROVE  /\ fee \in Nat /\ fee <= charged
           /\ Unhedged(stream[s]) => fee = charged
           /\ Charged(stream[s], st, newly_vested(stream[s], clock), fee)
<1>. DEFINE old == stream[s]
            claimable == newly_vested(stream[s], clock)
            w == old.withdrawn + claimable
            b == old.balance - fee
<1>1. /\ old \in StreamType /\ claimable \in Nat
      /\ StreamInv(TRUE, old, vault[s], record[s], ledger[s], clock)
      /\ claimable + old.withdrawn <= old.total_amount
  BY LiveStream, Claimable, Zenon
<1>2. /\ old.balance \in Nat /\ old.withdrawn \in Nat /\ old.total_amount \in Nat
  BY <1>1, Zenon DEF StreamType
<1>3. /\ fee \in Nat /\ fee <= charged /\ fee <= old.balance
      /\ b \in Nat /\ b + fee = old.balance
      /\ charged <= old.balance => fee = charged
  BY <1>2, Collected, Zenon
<1>4. w \in Nat
  <2>. HIDE DEF old, claimable
  <2>. QED  BY <1>1, <1>2
<1>5. Unhedged(old) => fee = charged
  <2>1. Unhedged(old) => old.balance = old.total_amount - old.withdrawn
    BY <1>1, Zenon DEF StreamInv, FullyBacked
  <2>2. charged <= old.total_amount - old.withdrawn
    BY <1>1, <1>2, CoversCharge, Zenon
  <2>. QED  BY <1>3, <2>1, <2>2, Zenon
<1>6. st = Charge(old, w, b)
  BY Zenon
<1>. HIDE DEF w, b, old, claimable
<1>7. /\ st \in StreamType /\ SameTerms(old, st) /\ st.withdrawn = w /\ st.balance = b
      /\ st.usdc_balance = old.usdc_balance /\ st.hedge_triggered = old.hedge_triggered
      /\ st.accumulated_hedge_debt = old.accumulated_hedge_debt
  <2>1. old \in StreamType /\ w \in Nat /\ b \in Nat
    BY <1>1, <1>3, <1>4, Zenon
  <2>2. Rebalanced(old, st, w, b)
    BY <1>6, <2>1, ChargeEdit, Zenon
  <2>. QED  BY <2>2, Zenon DEF Rebalanced
<1>. QED  BY <1>3, <1>5, <1>7, Zenon DEF Charged, w, b, old, claimable

=============================================================================
