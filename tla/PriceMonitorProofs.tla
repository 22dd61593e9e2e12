------------------------- MODULE PriceMonitorProofs -------------------------
(***************************************************************************)
(* Proofs about the price monitor: for any number of overlapping requests  *)
(* and watched streams, any prices and any limits on the age of a price.   *)
(***************************************************************************)
EXTENDS PriceMonitor, Sequences, WellFoundedInduction, TLAPS

Publication == [price : Int, expo : Int, age : 0 .. TooOld]

FetchType ==
    [phase : {"idle", "sent", "answered"}, data : Seq(Publication),
     binary : Binaries \cup {"none"}]

\* An answer that has arrived has a price, and says what payload it brings.
Answered(c) == c.phase = "answered" => c.data # <<>> /\ c.binary \in Binaries

OrderType == [phase : {"none", "sent"}, payload : Seq(Publication)]

MonitorInv ==
    /\ hermes \in Publication
    /\ hermes.age <= PublishPeriod
    /\ priceInfo \in Publication
    /\ fetch \in [Fetches -> FetchType]
    /\ \A f \in Fetches : Answered(fetch[f])
    /\ latestVaaPayload \in Seq(Publication)
    /\ order \in [Strikes -> OrderType]
    /\ \A k \in Strikes : order[k].phase = "sent" <=> order[k].payload # <<>>
    /\ hedged \subseteq Strikes

\* What SoldInBreach says of one step.
SellsInBreach ==
    \A k \in Strikes :
      k \in hedged' /\ k \notin hedged
        => /\ priceInfo'.age < MAX_PRICE_AGE_SECS
           /\ priceInfo'.age <= priceInfo.age
           /\ contract_detects(k, priceInfo')

\* A new publication has the age it was published with.
LEMMA PublishedType ==
    ASSUME NEW p \in PythPrices, NEW age \in 0 .. TooOld
    PROVE  Published(p, age) \in Publication /\ Published(p, age).age = age
BY MonitorAssumption DEF Published, Publication

\* A publication ages by at most one second per second.
LEMMA AgedType ==
    ASSUME NEW pub \in Publication
    PROVE  /\ Aged(pub) \in Publication
           /\ Aged(pub).age <= pub.age + 1
BY MonitorAssumption DEF Aged, Publication, TooOld

\* So does an optional one, which stays present or absent.
LEMMA AgedAllType ==
    ASSUME NEW seq \in Seq(Publication)
    PROVE  AgedAll(seq) \in Seq(Publication) /\ (AgedAll(seq) = <<>> <=> seq = <<>>)
<1>1. DOMAIN seq = 1 .. Len(seq) /\ Len(seq) \in Nat
  OBVIOUS
<1>2. \A i \in DOMAIN seq : Aged(seq[i]) \in Publication
  BY <1>1, AgedType
<1>3. AgedAll(seq) \in Seq(Publication) /\ Len(AgedAll(seq)) = Len(seq)
  BY <1>1, <1>2 DEF AgedAll
<1> QED
  BY <1>3

\* Pyth stores the newer publication, so what is stored never gets older by an update.
LEMMA StoredType ==
    ASSUME NEW pub \in Publication, priceInfo \in Publication
    PROVE  /\ update_price_feeds(pub) \in Publication
           /\ update_price_feeds(pub).age <= priceInfo.age
BY MonitorAssumption DEF update_price_feeds, Publication, TooOld

\* The monitor starts without price, fetch and order.
LEMMA InitMonitor == Init => MonitorInv
<1> SUFFICES ASSUME Init PROVE MonitorInv
  OBVIOUS
<1>1. 0 \in 0 .. TooOld /\ TooOld \in 0 .. TooOld
  BY MonitorAssumption DEF TooOld
<1>2. hermes \in Publication /\ hermes.age = 0 /\ priceInfo \in Publication
  BY <1>1, PublishedType DEF Init
<1>3. fetch \in [Fetches -> FetchType] /\ \A f \in Fetches : Answered(fetch[f])
  BY DEF Init, NoFetch, FetchType, Answered
<1>4. /\ order \in [Strikes -> OrderType]
      /\ \A k \in Strikes : order[k].phase = "sent" <=> order[k].payload # <<>>
  BY DEF Init, NoOrder, OrderType
<1> QED
  BY <1>2, <1>3, <1>4, MonitorAssumption DEF Init, MonitorInv

\* A step of a request changes nothing else but the price and the payload.
LEMMA FetchStep ==
    ASSUME MonitorInv, NEW f \in Fetches, NEW c \in FetchType, Answered(c),
           fetch' = [fetch EXCEPT ![f] = c], latestVaaPayload' \in Seq(Publication),
           UNCHANGED <<hermes, priceInfo, order, hedged>>
    PROVE  MonitorInv' /\ SellsInBreach
BY DEF MonitorInv, SellsInBreach

\* So does a step of an order that sells nothing.
LEMMA OrderStep ==
    ASSUME MonitorInv, NEW k \in Strikes, NEW c \in OrderType,
           order' = [order EXCEPT ![k] = c], c.phase = "sent" <=> c.payload # <<>>,
           UNCHANGED <<hermes, fetch, latestVaaPayload>>,
           priceInfo' \in Publication, hedged' \subseteq Strikes
    PROVE  MonitorInv'
BY DEF MonitorInv

\* What stands for no fetch and no order.
LEMMA IdleTypes ==
    /\ NoFetch \in FetchType /\ Answered(NoFetch)
    /\ NoOrder \in OrderType
    /\ ~(NoOrder.phase = "sent")
    /\ NoOrder.payload = <<>>
BY DEF NoFetch, NoOrder, FetchType, OrderType, Answered

\* The steps of a fetch keep the invariant and sell nothing.
LEMMA FetchesMonitor ==
    ASSUME MonitorInv, NEW f \in Fetches,
           \/ fetchPrice(f) \/ fetch_fails(f) \/ response(f)
           \/ \E binary \in Binaries : hermes_answers(f, binary)
    PROVE  MonitorInv' /\ SellsInBreach
<1>0. fetch[f] \in FetchType /\ latestVaaPayload \in Seq(Publication)
  BY DEF MonitorInv
<1>1. CASE fetchPrice(f)
  <2>1. [fetch[f] EXCEPT !.phase = "sent"] \in FetchType
        /\ Answered([fetch[f] EXCEPT !.phase = "sent"])
    BY <1>0 DEF FetchType, Answered
  <2>2. fetch' = [fetch EXCEPT ![f] = [fetch[f] EXCEPT !.phase = "sent"]]
    BY <1>1 DEF fetchPrice, MonitorInv
  <2> QED
    BY <1>0, <1>1, <2>1, <2>2, FetchStep DEF fetchPrice
<1>2. CASE fetch_fails(f)
  BY <1>0, <1>2, IdleTypes, FetchStep DEF fetch_fails
<1>3. CASE response(f)
  <2>1. payload_of(f) \in Seq(Publication)
    <3>1. fetch[f].data \in Seq(Publication) /\ fetch[f].binary \in Binaries \cup {"none"}
      BY <1>0 DEF FetchType
    <3>2. fetch[f].binary \in Binaries
      BY <1>3 DEF response, MonitorInv, Answered
    <3> QED
      BY <1>0, <3>1, <3>2 DEF payload_of, Binaries
  <2> QED
    BY <1>0, <1>3, <2>1, IdleTypes, FetchStep DEF response
<1>4. ASSUME NEW binary \in Binaries, hermes_answers(f, binary)
      PROVE  MonitorInv' /\ SellsInBreach
  <2> DEFINE c == [phase |-> "answered", data |-> <<hermes>>, binary |-> binary]
  <2>1. c \in FetchType /\ Answered(c)
    BY DEF FetchType, MonitorInv, Answered
  <2> HIDE DEF c
  <2>2. fetch' = [fetch EXCEPT ![f] = c]
    BY <1>4 DEF hermes_answers, c
  <2> QED
    BY <1>0, <1>4, <2>1, <2>2, FetchStep DEF hermes_answers
<1> QED
  BY <1>1, <1>2, <1>3, <1>4

\* So does a tick, which only sends orders.
LEMMA TickMonitor ==
    ASSUME MonitorInv, NEW k \in Strikes, tick(k)
    PROVE  MonitorInv' /\ SellsInBreach
<1> DEFINE c == [phase |-> "sent", payload |-> latestVaaPayload]
<1>1. c \in OrderType /\ (c.phase = "sent" <=> c.payload # <<>>)
  BY DEF OrderType, MonitorInv, tick
<1> HIDE DEF c
<1>2. order' = [order EXCEPT ![k] = c]
  BY DEF tick, c
<1>3. MonitorInv'
  BY <1>1, <1>2, OrderStep DEF tick, MonitorInv
<1> QED
  BY <1>3 DEF tick, SellsInBreach

\* A hedge executes: the price it carried is fresh and in breach when it sells.
LEMMA HedgeExecutesMonitor ==
    ASSUME MonitorInv, NEW k \in Strikes, hedge_executes(k)
    PROVE  MonitorInv' /\ SellsInBreach
<1>1. order[k].payload \in Seq(Publication) /\ order[k].payload # <<>>
  BY DEF MonitorInv, OrderType, hedge_executes
<1>2. order[k].payload[1] \in Publication
  BY <1>1
<1>3. stored(k) \in Publication /\ stored(k).age <= priceInfo.age
  BY <1>2, StoredType DEF stored, MonitorInv
<1>4. MonitorInv'
  BY <1>3, IdleTypes, OrderStep DEF hedge_executes, MonitorInv
<1>5. SellsInBreach
  BY <1>3 DEF hedge_executes, accepted, contract_detects, SellsInBreach
<1> QED
  BY <1>4, <1>5

\* A failed hedge sells nothing.
LEMMA HedgeFailsMonitor ==
    ASSUME MonitorInv, NEW k \in Strikes, hedge_fails(k)
    PROVE  MonitorInv' /\ SellsInBreach
<1>1. MonitorInv'
  BY IdleTypes, OrderStep DEF hedge_fails, MonitorInv
<1> QED
  BY <1>1 DEF hedge_fails, SellsInBreach

\* Neither do publications and the price updates of others.
LEMMA EnvironmentMonitor ==
    ASSUME MonitorInv, Publish \/ others_update
    PROVE  MonitorInv' /\ SellsInBreach
<1>0. 0 \in 0 .. TooOld
  BY MonitorAssumption DEF TooOld
<1>1. CASE Publish
  <2>1. hermes' \in Publication /\ hermes'.age = 0
    BY <1>0, <1>1, PublishedType DEF Publish
  <2> QED
    BY <1>1, <2>1, MonitorAssumption DEF Publish, MonitorInv, SellsInBreach
<1>2. CASE others_update
  <2>1. priceInfo' \in Publication
    BY <1>2, StoredType DEF others_update, MonitorInv
  <2> QED
    BY <1>2, <2>1 DEF others_update, MonitorInv, SellsInBreach
<1> QED
  BY <1>1, <1>2

\* A second passes: every publication ages, wherever it is held.
LEMMA SecondMonitor ==
    ASSUME MonitorInv, Tick
    PROVE  MonitorInv' /\ SellsInBreach
<1>1. hermes' \in Publication /\ priceInfo' \in Publication /\ hermes'.age <= PublishPeriod
  <2>1. hermes.age \in Int /\ Aged(hermes).age \in Int
    BY AgedType DEF MonitorInv, Publication
  <2> QED
    BY <2>1, AgedType, MonitorAssumption DEF Tick, MonitorInv
<1>2. ASSUME NEW f \in Fetches
      PROVE  fetch'[f] \in FetchType /\ Answered(fetch'[f])
  <2> DEFINE data == AgedAll(fetch[f].data)
  <2>1. fetch[f] \in FetchType /\ Answered(fetch[f])
    BY DEF MonitorInv
  <2>2. data \in Seq(Publication) /\ (data = <<>> <=> fetch[f].data = <<>>)
    BY <2>1, AgedAllType DEF FetchType
  <2>3. fetch'[f] = [fetch[f] EXCEPT !.data = data]
    BY DEF Tick
  <2> HIDE DEF data
  <2> QED
    BY <2>1, <2>2, <2>3 DEF FetchType, Answered
<1>3. ASSUME NEW k \in Strikes
      PROVE  order'[k] \in OrderType /\ (order'[k].phase = "sent" <=> order'[k].payload # <<>>)
  <2> DEFINE payload == AgedAll(order[k].payload)
  <2>1. order[k] \in OrderType /\ (order[k].phase = "sent" <=> order[k].payload # <<>>)
    BY DEF MonitorInv
  <2>2. payload \in Seq(Publication) /\ (payload = <<>> <=> order[k].payload = <<>>)
    BY <2>1, AgedAllType DEF OrderType
  <2>3. order'[k] = [order[k] EXCEPT !.payload = payload]
    BY DEF Tick
  <2> HIDE DEF payload
  <2> QED
    BY <2>1, <2>2, <2>3 DEF OrderType
<1>4. fetch' \in [Fetches -> FetchType] /\ order' \in [Strikes -> OrderType]
  <2>1. fetch' = [f \in Fetches |-> fetch'[f]] /\ order' = [k \in Strikes |-> order'[k]]
    BY DEF Tick
  <2> QED
    BY <1>2, <1>3, <2>1
<1>5. latestVaaPayload' \in Seq(Publication)
  BY AgedAllType DEF Tick, MonitorInv
<1>6. UNCHANGED hedged
  BY DEF Tick
<1> QED
  BY <1>1, <1>2, <1>3, <1>4, <1>5, <1>6 DEF MonitorInv, SellsInBreach

\* Every step keeps the invariant and sells only in breach.
LEMMA NextMonitor ==
    ASSUME MonitorInv, [Next]_vars
    PROVE  MonitorInv' /\ [SellsInBreach]_vars
<1>1. CASE Next
  BY <1>1, SecondMonitor, EnvironmentMonitor, FetchesMonitor, TickMonitor,
     HedgeExecutesMonitor, HedgeFailsMonitor DEF Next
<1>2. CASE UNCHANGED vars
  BY <1>2 DEF vars, MonitorInv
<1> QED
  BY <1>1, <1>2

\* The inductive invariant of the price monitor.
THEOREM MonitorInvariant == Spec => []MonitorInv
<1>1. MonitorInv /\ [Next]_vars => MonitorInv'
  BY NextMonitor
<1> QED
  BY InitMonitor, <1>1, PTL DEF Spec

\* An order is under way exactly while it has a payload to send, whatever the answers
\* of Hermes bring.
THEOREM MonitorIsTyped == Spec => []TypeOK
<1>1. MonitorInv => TypeOK
  BY MonitorAssumption DEF MonitorInv, TypeOK, Publication, FetchType, TooOld
<1> QED
  BY MonitorInvariant, <1>1, PTL

\* initiate_hedge sells only on a breach by the newest price that the chain has seen,
\* less than MAX_PRICE_AGE_SECS old, however the answers of Hermes overtake each other.
THEOREM SalesAreInBreach == Spec => SoldInBreach
<1>1. MonitorInv /\ [Next]_vars => [SellsInBreach]_vars
  BY NextMonitor
<1> QED
  BY MonitorInvariant, <1>1, PTL DEF Spec, SoldInBreach, SellsInBreach

----------------------------------------------------------------------------
(* The loop of pow10.  That its recursive definition defines a function has to be     *)
(* proved: there are tables of the powers up to any exponent, and they agree.         *)

\* Induction over exponents: if some are bad, one of them has only good ones below.
LEMMA LeastBad ==
    ASSUME NEW Bad \in SUBSET Nat, Bad # {}
    PROVE  \E n \in Bad : \A m \in Nat : m < n => m \notin Bad
<1>1. PICK n \in Bad : \A m \in Bad : ~(<<m, n>> \in OpToRel(<, Nat))
  BY NatLessThanWellFounded, WFMin, Zenon
<1>2. ASSUME NEW m \in Nat, m < n, m \in Bad
      PROVE  FALSE
  <2>1. n \in Nat
    OBVIOUS
  <2>2. <<m, n>> \in OpToRel(<, Nat)
    BY <1>2, <2>1 DEF OpToRel
  <2> QED
    BY <1>1, <1>2, <2>2
<1> QED
  BY <1>2

\* The powers of ten up to the exponent top, as the loop computes them.
Powers(top, t) ==
    /\ t \in [0 .. top -> Nat \ {0}]
    /\ t[0] = 1
    /\ \A n \in 1 .. top : t[n] = 10 * t[n - 1]

\* The loop can go on for as long as one likes.
LEMMA PowersExist ==
    ASSUME NEW top \in Nat
    PROVE  \E t : Powers(top, t)
<1> DEFINE Bad == {n \in Nat : ~ \E t : Powers(n, t)}
<1>1. SUFFICES ASSUME Bad # {} PROVE FALSE
  OBVIOUS
<1>2. PICK n \in Bad : \A m \in Nat : m < n => m \notin Bad
  <2>1. Bad \in SUBSET Nat
    OBVIOUS
  <2> HIDE DEF Bad
  <2> QED
    BY <1>1, <2>1, LeastBad
<1>3. n \in Nat /\ ~ \E t : Powers(n, t)
  OBVIOUS
<1>4. CASE n = 0
  <2>1. Powers(0, [i \in 0 .. 0 |-> 1])
    BY DEF Powers
  <2> QED
    BY <1>3, <1>4, <2>1
<1>5. CASE n > 0
  <2>1. n - 1 \in Nat /\ n - 1 < n /\ n - 1 \in 0 .. n - 1
    BY <1>3, <1>5
  <2>2. PICK t : Powers(n - 1, t)
    BY <1>2, <2>1
  <2> DEFINE next == 10 * t[n - 1]
             u == [i \in 0 .. n |-> IF i = n THEN next ELSE t[i]]
  <2>3. /\ t \in [0 .. n - 1 -> Nat \ {0}] /\ t[0] = 1
        /\ \A i \in 1 .. n - 1 : t[i] = 10 * t[i - 1]
    BY <2>2 DEF Powers
  <2>4. next \in Nat \ {0}
    <3>1. t[n - 1] \in Nat \ {0}
      BY <2>1, <2>3
    <3> QED
      BY <3>1
  <2> HIDE DEF next
  <2>5. \A i \in 0 .. n : i # n => i \in 0 .. n - 1
    BY <1>3
  <2>6. u \in [0 .. n -> Nat \ {0}]
    BY <2>3, <2>4, <2>5
  <2>7. u[0] = 1
    BY <1>3, <1>5, <2>3
  <2>8. ASSUME NEW i \in 1 .. n PROVE u[i] = 10 * u[i - 1]
    <3>1. i \in 0 .. n /\ i - 1 \in 0 .. n /\ i - 1 # n
      BY <1>3
    <3>2. u[i - 1] = t[i - 1]
      BY <3>1
    <3>3. CASE i = n
      BY <3>1, <3>2, <3>3 DEF next
    <3>4. CASE i # n
      <4>1. i \in 1 .. n - 1
        BY <1>3, <3>4
      <4> QED
        BY <2>3, <3>1, <3>2, <3>4, <4>1
    <3> QED
      BY <3>3, <3>4
  <2>9. Powers(n, u)
    BY <2>6, <2>7, <2>8 DEF Powers
  <2> QED
    BY <1>3, <2>9
<1> QED
  BY <1>3, <1>4, <1>5

\* Two runs of the loop agree as far as both go.
LEMMA PowersAgree ==
    ASSUME NEW a \in Nat, NEW b \in Nat, NEW t, NEW u, Powers(a, t), Powers(b, u),
           NEW top \in Nat, top <= a, top <= b
    PROVE  t[top] = u[top]
<1> DEFINE Bad == {n \in Nat : n <= a /\ n <= b /\ t[n] # u[n]}
<1>1. SUFFICES ASSUME Bad # {} PROVE FALSE
  OBVIOUS
<1>2. PICK n \in Bad : \A m \in Nat : m < n => m \notin Bad
  <2>1. Bad \in SUBSET Nat
    OBVIOUS
  <2> HIDE DEF Bad
  <2> QED
    BY <1>1, <2>1, LeastBad
<1>3. n \in Nat /\ n <= a /\ n <= b /\ t[n] # u[n]
  OBVIOUS
<1>4. n # 0
  BY <1>3 DEF Powers
<1>5. n \in 1 .. a /\ n \in 1 .. b /\ n - 1 \in Nat /\ n - 1 < n /\ n - 1 <= a /\ n - 1 <= b
  BY <1>3, <1>4
<1>6. t[n - 1] = u[n - 1]
  BY <1>2, <1>5
<1>7. t[n] = 10 * t[n - 1] /\ u[n] = 10 * u[n - 1]
  BY <1>5 DEF Powers
<1> QED
  BY <1>3, <1>6, <1>7

\* So pow10 is what its definition says, and never zero.
LEMMA Pow10 ==
    /\ pow10 = [n \in Nat |-> IF n = 0 THEN 1 ELSE 10 * pow10[n - 1]]
    /\ \A n \in Nat : pow10[n] \in Nat \ {0}
<1> DEFINE T(n) == CHOOSE t : Powers(n, t)
           F == [n \in Nat |-> T(n)[n]]
<1>1. \A n \in Nat : Powers(n, T(n))
  BY PowersExist
<1> HIDE DEF T
<1>2. ASSUME NEW n \in Nat
      PROVE  F[n] = IF n = 0 THEN 1 ELSE 10 * F[n - 1]
  <2>1. CASE n = 0
    BY <1>1, <2>1 DEF Powers
  <2>2. CASE n # 0
    <3>1. n - 1 \in Nat /\ n - 1 <= n - 1 /\ n - 1 <= n /\ n \in 1 .. n
      BY <2>2
    <3>2. T(n)[n - 1] = T(n - 1)[n - 1]
      BY <1>1, <3>1, PowersAgree
    <3>3. T(n)[n] = 10 * T(n)[n - 1]
      BY <1>1, <3>1 DEF Powers
    <3> QED
      BY <2>2, <3>1, <3>2, <3>3
  <2> QED
    BY <2>1, <2>2
<1>3. F = [n \in Nat |-> IF n = 0 THEN 1 ELSE 10 * F[n - 1]]
  <2>1. F = [n \in Nat |-> F[n]]
    OBVIOUS
  <2> HIDE DEF F
  <2> QED
    BY <1>2, <2>1
<1> HIDE DEF F
<1>4. pow10 = [n \in Nat |-> IF n = 0 THEN 1 ELSE 10 * pow10[n - 1]]
  BY <1>3, Zenon DEF pow10
<1> DEFINE Bad == {n \in Nat : pow10[n] \notin Nat \ {0}}
<1>5. ASSUME Bad # {} PROVE FALSE
  <2>1. Bad \in SUBSET Nat
    OBVIOUS
  <2>2. PICK n \in Bad : \A m \in Nat : m < n => m \notin Bad
    <3> HIDE DEF Bad
    <3> QED
      BY <1>5, <2>1, LeastBad
  <2>3. n \in Nat /\ pow10[n] \notin Nat \ {0}
    OBVIOUS
  <2>4. pow10[n] = IF n = 0 THEN 1 ELSE 10 * pow10[n - 1]
    BY <1>4, <2>3, Zenon
  <2>5. n # 0
    BY <2>3, <2>4
  <2>6. n - 1 \in Nat /\ n - 1 < n
    BY <2>3, <2>5
  <2>7. pow10[n - 1] \in Nat \ {0}
    BY <2>2, <2>6
  <2> HIDE DEF Bad
  <2> QED
    BY <2>3, <2>4, <2>5, <2>7
<1> QED
  BY <1>4, <1>5

----------------------------------------------------------------------------
(* The verdicts of keeper and contract *)

Scale(p) == IF -p.expo <= PRICE_DECIMALS THEN pow10[PRICE_DECIMALS + p.expo]
            ELSE pow10[-p.expo - PRICE_DECIMALS]

\* The scale of a price is a power of ten.
LEMMA ScaleIsPositive ==
    ASSUME NEW p, p.price \in Int, p.expo \in Int, p.expo <= 0
    PROVE  Scale(p) \in Nat \ {0}
<1>1. p.expo \in Int /\ PRICE_DECIMALS \in Nat
  BY UnitAssumption
<1>2. CASE -p.expo <= PRICE_DECIMALS
  <2>1. PRICE_DECIMALS + p.expo \in Nat
    BY <1>1, <1>2
  <2> QED
    BY <1>2, <2>1, Pow10 DEF Scale
<1>3. CASE ~(-p.expo <= PRICE_DECIMALS)
  <2>1. -p.expo - PRICE_DECIMALS \in Nat
    BY <1>1, <1>3
  <2> QED
    BY <1>3, <2>1, Pow10 DEF Scale
<1> QED
  BY <1>2, <1>3

\* normalizedPrice and normalize_price agree on a price that is not negative.
LEMMA SameNormalisation ==
    ASSUME NEW p, p.price \in Int, p.expo \in Int, p.expo <= 0, p.price >= 0
    PROVE  normalizedPrice(p) = normalize_price(p)
<1>1. CASE p.expo < 0
  <2>1. PRICE_DECIMALS - (-p.expo) = PRICE_DECIMALS + p.expo
    BY UnitAssumption
  <2> QED
    BY <1>1, <2>1, UnitAssumption DEF normalizedPrice, normalize_price, bigint_div
<1>2. CASE p.expo = 0
  <2>1. \A x \in Int, d \in Nat : x = 0 => -x <= d /\ x <= d /\ d - x = d /\ d + x = d
    OBVIOUS
  <2>2. normalizedPrice(p) = p.price * pow10[PRICE_DECIMALS]
    BY <1>2, <2>1, UnitAssumption DEF normalizedPrice
  <2>3. normalize_price(p) = p.price * pow10[PRICE_DECIMALS]
    BY <1>2, <2>1, UnitAssumption DEF normalize_price
  <2> QED
    BY <2>2, <2>3
<1> QED
  BY <1>1, <1>2

\* A negative price is normalised to something that is not positive by the keeper and
\* to zero by the contract.
LEMMA NegativePrices ==
    ASSUME NEW p, p.price \in Int, p.expo \in Int, p.expo <= 0, p.price < 0
    PROVE  normalizedPrice(p) \in Int /\ normalizedPrice(p) <= 0 /\ normalize_price(p) = 0
<1>0. Scale(p) \in Nat \ {0}
  BY ScaleIsPositive
<1>1. normalize_price(p) = 0
  BY DEF normalize_price
<1> DEFINE e == IF p.expo < 0 THEN -p.expo ELSE p.expo
<1>2. e = -p.expo
  OBVIOUS
<1>3. CASE e <= PRICE_DECIMALS
  <2>1. PRICE_DECIMALS - e = PRICE_DECIMALS + p.expo
    BY <1>2, UnitAssumption
  <2>2. normalizedPrice(p) = p.price * Scale(p)
    BY <1>2, <1>3, <2>1 DEF normalizedPrice, Scale
  <2> HIDE DEF e
  <2>3. \A a \in Int, b \in Nat : a < 0 => a * b \in Int /\ a * b <= 0
    OBVIOUS
  <2> QED
    BY <1>0, <1>1, <2>2, <2>3
<1>4. CASE e > PRICE_DECIMALS
  <2>1. normalizedPrice(p) = -((-p.price) \div Scale(p))
    BY <1>2, <1>4, UnitAssumption DEF normalizedPrice, Scale, bigint_div
  <2>2. \A a \in Nat, b \in Nat \ {0} : a \div b \in Nat
    OBVIOUS
  <2>3. -p.price \in Nat
    OBVIOUS
  <2> HIDE DEF e
  <2> QED
    BY <1>0, <1>1, <2>1, <2>2, <2>3
<1> QED
  BY <1>2, <1>3, <1>4, UnitAssumption

\* isInBreach and should_hedge agree on every stream and every price whose exponent is not
\* positive, although they normalise negative prices differently.
THEOREM VerdictsAgreeOnAll ==
    ASSUME NEW k \in [strike_price : Nat,
                      hedge_direction : {HEDGE_FLOOR, HEDGE_CEILING, HEDGE_NONE}],
           NEW p, p.price \in Int, p.expo \in Int
    PROVE  AgreeOn(k, p)
<1> SUFFICES ASSUME p.expo <= 0
             PROVE  breach_detected(k, normalizedPrice(p)) <=> contract_detects(k, p)
  BY DEF AgreeOn
<1>1. CASE p.price >= 0
  BY <1>1, SameNormalisation
     DEF breach_detected, contract_detects, isInBreach, should_hedge, HEDGE_FLOOR,
         HEDGE_CEILING, HEDGE_NONE
<1>2. CASE p.price < 0
  <2>1. normalizedPrice(p) \in Int /\ normalizedPrice(p) <= 0 /\ normalize_price(p) = 0
    BY <1>2, NegativePrices
  <2> QED
    BY <2>1 DEF breach_detected, contract_detects, isInBreach, should_hedge,
                HEDGE_FLOOR, HEDGE_CEILING, HEDGE_NONE
<1> QED
  BY <1>1, <1>2

\* The keeper and the contract give the same verdict on whatever Pyth publishes: the keeper
\* sends no transaction that the contract refuses for the price it was decided with, and
\* overlooks no breach that the contract would accept.
THEOREM VerdictsAlwaysAgree == Spec => []VerdictsAgree
<1>1. MonitorInv => VerdictsAgree
  <2> SUFFICES ASSUME MonitorInv PROVE VerdictsAgree
    OBVIOUS
  <2>1. hermes.price \in Int /\ hermes.expo \in Int
    BY DEF MonitorInv, Publication
  <2>2. \A k \in ComparedStrikes : AgreeOn(k, hermes)
    BY <2>1, VerdictsAgreeOnAll, MonitorAssumption
  <2>3. \A p \in ComparedPrices : p.price \in Int /\ p.expo \in Int
    BY MonitorAssumption
  <2>4. SamplesAgree
    BY <2>3, VerdictsAgreeOnAll, MonitorAssumption DEF SamplesAgree
  <2> QED
    BY <2>2, <2>4 DEF VerdictsAgree
<1> QED
  BY MonitorInvariant, <1>1, PTL

=============================================================================
