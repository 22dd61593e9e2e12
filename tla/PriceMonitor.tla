---------------------------- MODULE PriceMonitor ----------------------------
(***************************************************************************)
(* The keeper's price monitor (price-monitor.ts) between Pyth's Hermes     *)
(* service and the contract.  Polls overlap, so answers arrive in any      *)
(* order and an old one may replace a newer one; a tick decides with the   *)
(* latest price and sends the latest payload, which by then may be another *)
(* one, or too old for the contract.  The contract decides again, with its *)
(* own normalisation, from the price that Pyth has stored on chain.        *)
(*                                                                         *)
(* A publication carries its age in seconds, up to the first value that    *)
(* the contract finds too old.                                             *)
(***************************************************************************)
EXTENDS PeachMath

CONSTANTS
    PythPrices,          \* [price, expo] pairs Pyth may publish
    Strikes,             \* [strike_price, hedge_direction] of the streams watched
    Fetches,             \* requests that may be in flight at once
    MAX_PRICE_AGE_SECS,
    PublishPeriod,       \* Pyth publishes at least this often, in seconds
    ComparedStrikes,     \* streams and
    ComparedPrices       \* prices on which keeper and contract are compared

ASSUME MonitorAssumption ==
    /\ PythPrices \subseteq [price : Int, expo : Int]
    /\ MAX_PRICE_AGE_SECS \in Nat
    /\ PublishPeriod \in Nat
    /\ ComparedStrikes \subseteq
         [strike_price : Nat, hedge_direction : {HEDGE_FLOOR, HEDGE_CEILING, HEDGE_NONE}]
    /\ ComparedPrices \subseteq [price : Int, expo : Int]

VARIABLES
    hermes,             \* the newest publication
    priceInfo,          \* the publication stored on chain
    fetch,              \* request -> [phase, data, binary: the answer's payload part]
    latestPrice,        \* <<>> or <<normalised price>>
    latestVaaPayload,   \* <<>> or <<publication>>
    order,              \* stream -> [phase, payload]: the hedge under way for it
    hedged              \* streams whose hedge the contract has executed

vars == <<hermes, priceInfo, fetch, latestPrice, latestVaaPayload, order, hedged>>

TooOld == MAX_PRICE_AGE_SECS

Published(p, age) == [price |-> p.price, expo |-> p.expo, age |-> age]

Aged(pub) == [pub EXCEPT !.age = IF @ < TooOld THEN @ + 1 ELSE @]

NoFetch == [phase |-> "idle", data |-> <<>>, binary |-> "none"]

NoOrder == [phase |-> "none", payload |-> <<>>]

Init ==
    /\ \E p, q \in PythPrices : hermes = Published(p, 0) /\ priceInfo = Published(q, TooOld)
    /\ fetch = [f \in Fetches |-> NoFetch]
    /\ latestPrice = <<>>
    /\ latestVaaPayload = <<>>
    /\ order = [k \in Strikes |-> NoOrder]
    /\ hedged = {}

----------------------------------------------------------------------------
(* fetchPrice *)

\* BigInt division drops the fraction.
bigint_div(a, b) == IF a >= 0 THEN a \div b ELSE -((-a) \div b)

normalizedPrice(p) ==
    LET sourceDecimals == IF p.expo < 0 THEN -p.expo ELSE p.expo
    IN  IF sourceDecimals <= PRICE_DECIMALS
        THEN p.price * pow10[PRICE_DECIMALS - sourceDecimals]
        ELSE bigint_div(p.price, pow10[sourceDecimals - PRICE_DECIMALS])

fetchPrice(f) ==
    /\ fetch[f].phase = "idle"
    /\ fetch' = [fetch EXCEPT ![f].phase = "sent"]
    /\ UNCHANGED <<hermes, priceInfo, latestPrice, latestVaaPayload, order, hedged>>

Binaries == {"full", "empty", "missing"}

\* Hermes takes its newest publication for the answer.
hermes_answers(f, binary) ==
    /\ fetch[f].phase = "sent"
    /\ fetch' = [fetch EXCEPT ![f] =
         [phase |-> "answered", data |-> <<hermes>>, binary |-> binary]]
    /\ UNCHANGED <<hermes, priceInfo, latestPrice, latestVaaPayload, order, hedged>>

payload_of(f) ==
    CASE fetch[f].binary = "full"    -> fetch[f].data
      [] fetch[f].binary = "empty"   -> <<>>
      [] fetch[f].binary = "missing" -> latestVaaPayload

\* Mutant: a payload, once there, is kept.
response_KeepsPayload(f) ==
    /\ fetch[f].phase = "answered"
    /\ fetch' = [fetch EXCEPT ![f] = NoFetch]
    /\ latestPrice' = <<normalizedPrice(fetch[f].data[1])>>
    /\ latestVaaPayload' = IF latestVaaPayload = <<>> THEN payload_of(f)
                           ELSE latestVaaPayload
    /\ UNCHANGED <<hermes, priceInfo, order, hedged>>

\* The answer arrives: it replaces the price whatever its time, and the payload if
\* it has one.
response(f) ==
    /\ fetch[f].phase = "answered"
    /\ fetch' = [fetch EXCEPT ![f] = NoFetch]
    /\ latestPrice' = <<normalizedPrice(fetch[f].data[1])>>
    /\ latestVaaPayload' = payload_of(f)
    /\ UNCHANGED <<hermes, priceInfo, order, hedged>>

\* A failed request, an error status or an answer without price changes nothing.
fetch_fails(f) ==
    /\ fetch[f].phase # "idle"
    /\ fetch' = [fetch EXCEPT ![f] = NoFetch]
    /\ UNCHANGED <<hermes, priceInfo, latestPrice, latestVaaPayload, order, hedged>>

----------------------------------------------------------------------------
(* detectBreaches and the hedge that follows it *)

isInBreach(k, price) ==
    \/ k.hedge_direction = HEDGE_FLOOR /\ price < k.strike_price
    \/ k.hedge_direction = HEDGE_CEILING /\ price > k.strike_price

\* Mutant: unhedged streams are not skipped.
breach_detected_Unskipped(k, price) == isInBreach(k, price)

breach_detected(k, price) ==
    k.hedge_direction # HEDGE_NONE /\ k.strike_price # 0 /\ isInBreach(k, price)

\* The keeper's tick takes the payload and the price, and starts a hedge.
tick(k) ==
    /\ latestVaaPayload # <<>>
    /\ latestPrice # <<>>
    /\ k \notin hedged
    /\ order[k].phase = "none"
    /\ breach_detected(k, latestPrice[1])
    /\ order' = [order EXCEPT ![k] = [phase |-> "sent", payload |-> latestVaaPayload]]
    /\ UNCHANGED <<hermes, priceInfo, fetch, latestPrice, latestVaaPayload, hedged>>

\* Mutant: Pyth stores whatever comes.
update_price_feeds_Always(pub) == pub

\* Pyth keeps the newer of the stored and the submitted publication.
update_price_feeds(pub) == IF pub.age < priceInfo.age THEN pub ELSE priceInfo

\* The price that the contract reads after the update of its block.
stored(k) == update_price_feeds(order[k].payload[1])

accepted(k) ==
    /\ stored(k).age < MAX_PRICE_AGE_SECS
    /\ should_hedge(k.strike_price, k.hedge_direction, normalize_price(stored(k)))

\* initiate_hedge, in one transaction with the price update.
hedge_executes(k) ==
    /\ order[k].phase = "sent"
    /\ accepted(k)
    /\ priceInfo' = stored(k)
    /\ hedged' = hedged \cup {k}
    /\ order' = [order EXCEPT ![k] = NoOrder]
    /\ UNCHANGED <<hermes, fetch, latestPrice, latestVaaPayload>>

\* Mutant: the next hedge starts with the old payload.
hedge_fails_KeepsPayload(k) ==
    /\ order[k].phase = "sent"
    /\ order' = [order EXCEPT ![k].phase = "none"]
    /\ UNCHANGED <<hermes, priceInfo, fetch, latestPrice, latestVaaPayload, hedged>>

\* The transaction aborts or never gets through; nothing of it stays.
hedge_fails(k) ==
    /\ order[k].phase = "sent"
    /\ order' = [order EXCEPT ![k] = NoOrder]
    /\ UNCHANGED <<hermes, priceInfo, fetch, latestPrice, latestVaaPayload, hedged>>

----------------------------------------------------------------------------
(* Environment *)

Publish ==
    /\ hermes.age > 0
    /\ \E p \in PythPrices : hermes' = Published(p, 0)
    /\ UNCHANGED <<priceInfo, fetch, latestPrice, latestVaaPayload, order, hedged>>

\* Somebody else brings the newest publication on chain.
others_update ==
    /\ priceInfo' = update_price_feeds(hermes)
    /\ UNCHANGED <<hermes, fetch, latestPrice, latestVaaPayload, order, hedged>>

AgedAll(seq) == [i \in DOMAIN seq |-> Aged(seq[i])]

Tick ==
    /\ hermes.age < PublishPeriod
    /\ hermes' = Aged(hermes)
    /\ priceInfo' = Aged(priceInfo)
    /\ fetch' = [f \in Fetches |-> [fetch[f] EXCEPT !.data = AgedAll(@)]]
    /\ latestVaaPayload' = AgedAll(latestVaaPayload)
    /\ order' = [k \in Strikes |-> [order[k] EXCEPT !.payload = AgedAll(@)]]
    /\ UNCHANGED <<latestPrice, hedged>>

Next ==
    \/ Tick \/ Publish \/ others_update
    \/ \E f \in Fetches : \/ fetchPrice(f) \/ fetch_fails(f) \/ response(f)
                          \/ \E binary \in Binaries : hermes_answers(f, binary)
    \/ \E k \in Strikes : tick(k) \/ hedge_executes(k) \/ hedge_fails(k)

Spec == Init /\ [][Next]_vars

Held == {latestVaaPayload} \cup {fetch[f].data : f \in Fetches}
                           \cup {order[k].payload : k \in Strikes}

\* A request or a transaction fails that could succeed, or an answer, a payload or
\* a transaction waits until its publication is too old.
disturbed ==
    \/ \E f \in Fetches : \/ fetch_fails(f) /\ ~response(f)
                         \/ hermes_answers(f, "empty") \/ hermes_answers(f, "missing")
    \/ \E k \in Strikes : hedge_fails(k) /\ accepted(k)
    \/ Tick /\ \E d \in Held : d # <<>> /\ d[1].age = TooOld - 1

\* The timers keep polling and ticking, requests and transactions end, and from some
\* time on the network is quick.  Answers may still arrive in any order.
FairSpec ==
    /\ Spec
    /\ \A f \in Fetches :
         /\ WF_vars(fetchPrice(f))
         /\ WF_vars(\E binary \in Binaries : hermes_answers(f, binary))
         /\ WF_vars(fetch_fails(f) \/ response(f))
    /\ \A k \in Strikes :
         /\ WF_vars(tick(k))
         /\ WF_vars(hedge_fails(k) \/ hedge_executes(k))
    /\ <>[][~disturbed]_vars

----------------------------------------------------------------------------
(* Properties *)

TypeOK ==
    /\ hermes.age \in 0 .. PublishPeriod
    /\ priceInfo.age \in 0 .. TooOld
    /\ \A f \in Fetches : fetch[f].phase \in {"idle", "sent", "answered"}
    /\ \A k \in Strikes : order[k].phase = "sent" <=> order[k].payload # <<>>
    /\ hedged \subseteq Strikes

\* The contract's verdict on a publication.
contract_detects(k, p) == should_hedge(k.strike_price, k.hedge_direction, normalize_price(p))

AgreeOn(k, p) ==
    p.expo <= 0 => (breach_detected(k, normalizedPrice(p)) <=> contract_detects(k, p))

SamplesAgree == \A k \in ComparedStrikes, p \in ComparedPrices : AgreeOn(k, p)

\* isInBreach and should_hedge agree on every stream and price that are compared, and on
\* what Pyth publishes.  Their normalisations differ (negative prices, the division, the
\* absolute value of the exponent), their verdicts do not as long as the exponent is not
\* positive.  So the keeper sends no transaction that the contract refuses for the price
\* it was decided with, and overlooks no breach that the contract would accept.
VerdictsAgree == SamplesAgree /\ \A k \in ComparedStrikes : AgreeOn(k, hermes)

\* Whatever the order of the answers, and although price and payload may come from
\* different ones, a stream is sold only on a breach by the newest price the chain
\* has seen, less than MAX_PRICE_AGE_SECS old.
SoldInBreach ==
    [][\A k \in Strikes :
         k \in hedged' /\ k \notin hedged
           => /\ priceInfo'.age < MAX_PRICE_AGE_SECS
              /\ priceInfo'.age <= priceInfo.age
              /\ contract_detects(k, priceInfo')]_vars

\* A breach that lasts is hedged, although answers are lost, late or without
\* payload and transactions fail.
BreachIsHedged ==
    \A k \in Strikes : <>[]contract_detects(k, hermes) => <>(k \in hedged)

=============================================================================
