--------------------------- MODULE PeachLifecycle ---------------------------
(***************************************************************************)
(* The contracts implement HedgeLifecycle: the refinement mapping from the *)
(* state of PeachStream.  Strike and direction become protected or not, a  *)
(* balance empty or not, the record tells a deleted object from an absent. *)
(***************************************************************************)
EXTENDS PeachStream

StatusName(status) == <<"HEALTHY", "TWAP_ACTIVE", "FULLY_HEDGED">>[status + 1]

LifecycleOf(st) ==
    [state |-> "open", hedged |-> ~Unhedged(st),
     status |-> StatusName(st.liquidation_status),
     tranches_executed |-> st.tranches_executed, twap_tranches |-> st.twap_tranches,
     twap_interval_ms |-> st.twap_interval_ms,
     last_tranche_timestamp |-> st.last_tranche_timestamp, end_time |-> st.end_time,
     settled |-> st.withdrawn = st.total_amount,
     sui |-> st.balance > 0, usdc |-> st.usdc_balance > 0]

TermsOf(o) ==
    [hedged |-> o.hedge_direction # HEDGE_NONE /\ o.strike_price # 0,
     twap_tranches |-> resolve_twap_preset(o.twap_preset, o.hedge_direction).tranches,
     twap_interval_ms |-> resolve_twap_preset(o.twap_preset, o.hedge_direction).interval_ms,
     end_time |-> o.end_time]

\* The offers whose preset create_stream can resolve.
PresetKnown ==
    {o \in Offers : o.hedge_direction = HEDGE_NONE \/ o.twap_preset \in DOMAIN TWAP_PRESETS}

NoStreamLifecycle ==
    [state |-> "absent", hedged |-> FALSE, status |-> "HEALTHY",
     tranches_executed |-> 0, twap_tranches |-> 0, twap_interval_ms |-> 0,
     last_tranche_timestamp |-> 0, end_time |-> 0,
     settled |-> FALSE, sui |-> FALSE, usdc |-> FALSE]

Lifecycle ==
    INSTANCE HedgeLifecycle WITH
        Terms <- {TermsOf(o) : o \in PresetKnown},
        object <- [s \in Streams |->
            IF s \in live THEN LifecycleOf(stream[s])
            ELSE IF record[s].status = STATUS_CANCELED
            THEN [NoStreamLifecycle EXCEPT !.state = "deleted"] ELSE NoStreamLifecycle]

\* The contracts follow the life cycle the keeper is written for: a stream is sold
\* only while protected, tranche by tranche in due time, the liquidation ends with
\* the last tranche or an empty escrow, a claim after the end is the last one and
\* empties an unprotected stream, and a deleted object never comes back.
FollowsLifecycle == Lifecycle!SpecChain

=============================================================================
