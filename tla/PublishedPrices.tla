-------------------------- MODULE PublishedPrices --------------------------
(***************************************************************************)
(* PeachStream beside the prices that Pyth publishes, one each second, of  *)
(* which only some are brought on chain: what a price on chain says about  *)
(* the market since.                                                       *)
(***************************************************************************)
EXTENDS MCPeachStream

VARIABLE published    \* second -> the price published in it

At(t) == [price |-> published'[t].price, expo |-> published'[t].expo, timestamp |-> t]

InitPublished ==
    /\ Init
    /\ \E p \in PythPrices :
         /\ published = [t \in {0} |-> p]
         /\ priceInfo = [price |-> p.price, expo |-> p.expo, timestamp |-> 0]

Publish ==
    \E p \in PythPrices :
        published' = [t \in 0 .. ClockSecs' |-> IF t \in DOMAIN published THEN published[t] ELSE p]

\* Only published prices get on chain.
NextPublished ==
    /\ Next
    /\ Publish
    /\ priceInfo' # priceInfo => priceInfo' = At(priceInfo'.timestamp)

SpecPublished == InitPublished /\ [][NextPublished]_<<vars, published>>

\* fallback_hedge_trigger says that the publish time proves that the breach existed
\* for at least FALLBACK_DELAY_MS: when it sells, every price published since the
\* one it used is in breach.
BreachHasLasted ==
    [][\A s \in Streams, guard \in MinOutputGuards :
         fallback_hedge_trigger(s, guard)
           => \A t \in priceInfo'.timestamp .. ClockSecs :
                should_hedge(stream[s].strike_price, stream[s].hedge_direction,
                             normalize_price(At(t)))]_<<vars, published>>

=============================================================================
