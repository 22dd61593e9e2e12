------------------------ MODULE PeachLifecycleProofs ------------------------
(***************************************************************************)
(* PeachStream implements HedgeLifecycle: every step of the contracts is a *)
(* step of the life cycle of one object, a tick, or changes nothing that   *)
(* the life cycle shows.  So the chain that Indexer and Keeper are checked *)
(* and proved against is one the contracts keep to.                        *)
(***************************************************************************)
EXTENDS PeachStreamProofs, PeachLifecycle

----------------------------------------------------------------------------
(* The refinement mapping, by name *)

DeletedLifecycle == [NoStreamLifecycle EXCEPT !.state = "deleted"]

ObjectAt(exists, st, r) ==
    IF exists THEN LifecycleOf(st)
    ELSE IF r.status = STATUS_CANCELED THEN DeletedLifecycle ELSE NoStreamLifecycle

ObjectOf == [s \in Streams |-> ObjectAt(s \in live, stream[s], record[s])]

KnownTerms == {TermsOf(o) : o \in PresetKnown}

\* The object of an offer that was accepted.
OpenedLifecycle(t) ==
    [NoStreamLifecycle EXCEPT !.state = "open", !.sui = TRUE, !.hedged = t.hedged,
                              !.twap_tranches = t.twap_tranches,
                              !.twap_interval_ms = t.twap_interval_ms,
                              !.end_time = t.end_time]

\* The actions of the life cycle, spelt with the names above.
LEMMA InitIs ==
    Lifecycle!InitChain <=> clock = 0 /\ ObjectOf = [s \in Streams |-> NoStreamLifecycle]
  BY Zenon DEF ObjectOf, ObjectAt, DeletedLifecycle, NoStreamLifecycle, Lifecycle!InitChain,
     Lifecycle!NoObject

\* The clock's step, and what the life cycle does not see.
LEMMA TickIs ==
    /\ Lifecycle!TickChain <=> clock < MaxClock /\ clock' = clock + 1 /\ ObjectOf' = ObjectOf
    /\ (UNCHANGED Lifecycle!chainVars) <=> clock' = clock /\ ObjectOf' = ObjectOf
<1>1. Lifecycle!TickChain <=> clock < MaxClock /\ clock' = clock + 1 /\ ObjectOf' = ObjectOf
  BY Zenon DEF ObjectOf, ObjectAt, DeletedLifecycle, Lifecycle!TickChain
<1>2. (UNCHANGED Lifecycle!chainVars) <=> clock' = clock /\ ObjectOf' = ObjectOf
  BY Zenon DEF ObjectOf, ObjectAt, DeletedLifecycle, Lifecycle!chainVars
<1>. QED  BY <1>1, <1>2, Zenon

\* A creation.
LEMMA CreateIs ==
    ASSUME NEW s \in Streams
    PROVE  Lifecycle!Create(s) <=>
              /\ ObjectOf[s].state = "absent"
              /\ \E t \in KnownTerms : ObjectOf' = [ObjectOf EXCEPT ![s] = OpenedLifecycle(t)]
              /\ clock' = clock
  BY Zenon DEF ObjectOf, ObjectAt, KnownTerms, OpenedLifecycle, DeletedLifecycle, NoStreamLifecycle,
     Lifecycle!Create, Lifecycle!NoObject

\* A tranche: the sale, and when the first and a later one may come.
LEMMA SellIs ==
    ASSUME NEW s \in Streams
    PROVE  /\ Lifecycle!SellTranche(s) <=>
                /\ ObjectOf[s].state = "open"
                /\ ObjectOf[s].hedged
                /\ \E sui, usdc \in BOOLEAN :
                     /\ sui => ObjectOf[s].sui
                     /\ ObjectOf[s].usdc => usdc
                     /\ usdc => ObjectOf[s].sui \/ ObjectOf[s].usdc
                     /\ ObjectOf' = [ObjectOf EXCEPT ![s] =
                                       Lifecycle!AfterTranche(ObjectOf[s], sui, usdc)]
                /\ clock' = clock
           /\ Lifecycle!TrancheDue(s) <=>
                /\ ObjectOf[s].status = "TWAP_ACTIVE"
                /\ clock - ObjectOf[s].last_tranche_timestamp >= ObjectOf[s].twap_interval_ms
           /\ Lifecycle!Initiate(s) <=>
                ObjectOf[s].status = "HEALTHY" /\ Lifecycle!SellTranche(s)
           /\ Lifecycle!NextTranche(s) <=>
                Lifecycle!TrancheDue(s) /\ Lifecycle!SellTranche(s)
<1>1. Lifecycle!SellTranche(s) <=>
        /\ ObjectOf[s].state = "open"
        /\ ObjectOf[s].hedged
        /\ \E sui, usdc \in BOOLEAN :
             /\ sui => ObjectOf[s].sui
             /\ ObjectOf[s].usdc => usdc
             /\ usdc => ObjectOf[s].sui \/ ObjectOf[s].usdc
             /\ ObjectOf' = [ObjectOf EXCEPT ![s] =
                               Lifecycle!AfterTranche(ObjectOf[s], sui, usdc)]
        /\ clock' = clock
  BY Zenon DEF ObjectOf, ObjectAt, DeletedLifecycle, Lifecycle!SellTranche, Lifecycle!IsOpen,
     Lifecycle!Funded
<1>2. Lifecycle!TrancheDue(s) <=>
        /\ ObjectOf[s].status = "TWAP_ACTIVE"
        /\ clock - ObjectOf[s].last_tranche_timestamp >= ObjectOf[s].twap_interval_ms
  BY Zenon DEF ObjectOf, ObjectAt, DeletedLifecycle, Lifecycle!TrancheDue
<1>3. Lifecycle!Initiate(s) <=> ObjectOf[s].status = "HEALTHY" /\ Lifecycle!SellTranche(s)
  BY Zenon DEF ObjectOf, ObjectAt, DeletedLifecycle, Lifecycle!Initiate
<1>4. Lifecycle!NextTranche(s) <=> Lifecycle!TrancheDue(s) /\ Lifecycle!SellTranche(s)
  BY Zenon DEF ObjectOf, ObjectAt, DeletedLifecycle, Lifecycle!NextTranche
<1>. QED  BY <1>1, <1>2, <1>3, <1>4, Zenon

\* A claim.
LEMMA ClaimIs ==
    ASSUME NEW s \in Streams
    PROVE  Lifecycle!Claim(s) <=>
             /\ ObjectOf[s].state = "open"
             /\ ~ObjectOf[s].settled
             /\ \E sui, usdc \in BOOLEAN :
                  /\ sui => ObjectOf[s].sui
                  /\ usdc => ObjectOf[s].usdc
                  /\ ~ObjectOf[s].hedged => sui = ~(clock >= ObjectOf[s].end_time)
                  /\ ObjectOf' = [ObjectOf EXCEPT ![s] =
                                    [ObjectOf[s] EXCEPT
                                       !.settled = clock >= ObjectOf[s].end_time,
                                       !.sui = sui, !.usdc = usdc]]
             /\ clock' = clock
  BY Zenon DEF ObjectOf, ObjectAt, DeletedLifecycle, Lifecycle!Claim, Lifecycle!IsOpen

\* A cancellation.
LEMMA CancelIs ==
    ASSUME NEW s \in Streams
    PROVE  Lifecycle!Cancel(s) <=>
             /\ ObjectOf[s].state = "open"
             /\ ObjectOf' = [ObjectOf EXCEPT ![s] = DeletedLifecycle]
             /\ clock' = clock
  BY Zenon DEF ObjectOf, ObjectAt, DeletedLifecycle, NoStreamLifecycle, Lifecycle!Cancel,
     Lifecycle!IsOpen, Lifecycle!Deleted, Lifecycle!NoObject

----------------------------------------------------------------------------
(* The object of one stream *)

\* Only the object of the stream that a step is about changes.
LEMMA ObjectChanges ==
    ASSUME IndInv, NEW s \in Streams, NEW new,
           stream' = [stream EXCEPT ![s] = new],
           live' \ {s} = live \ {s},
           \A t \in Streams \ {s} : record'[t] = record[t]
    PROVE  /\ s \in live' => ObjectOf' = [ObjectOf EXCEPT ![s] = LifecycleOf(new)]
           /\ s \notin live' /\ record'[s].status = STATUS_CANCELED
                => ObjectOf' = [ObjectOf EXCEPT ![s] = DeletedLifecycle]
<1>1. stream \in [Streams -> StreamType]
  BY Zenon DEF IndInv, TypeOK
<1>2. stream'[s] = new /\ \A t \in Streams \ {s} : stream'[t] = stream[t]
  BY <1>1, Zenon
<1>3. /\ \A t \in Streams : ObjectOf[t] = ObjectAt(t \in live, stream[t], record[t])
      /\ \A t \in Streams : ObjectOf'[t] = ObjectAt(t \in live', stream'[t], record'[t])
  BY Zenon DEF ObjectOf
<1>4. ASSUME NEW t \in Streams \ {s} PROVE ObjectOf'[t] = ObjectOf[t]
  <2>1. (t \in live') = (t \in live) /\ stream'[t] = stream[t] /\ record'[t] = record[t]
    BY <1>2
  <2>2. /\ ObjectOf[t] = ObjectAt(t \in live, stream[t], record[t])
        /\ ObjectOf'[t] = ObjectAt(t \in live', stream'[t], record'[t])
    BY <1>3, Zenon
  <2>. QED  BY <2>1, <2>2, Zenon
<1>5. /\ s \in live' => ObjectOf'[s] = LifecycleOf(new)
      /\ s \notin live' /\ record'[s].status = STATUS_CANCELED
           => ObjectOf'[s] = DeletedLifecycle
  <2>1. ObjectOf'[s] = IF s \in live' THEN LifecycleOf(new)
                       ELSE IF record'[s].status = STATUS_CANCELED THEN DeletedLifecycle
                       ELSE NoStreamLifecycle
    BY <1>2, <1>3, Zenon DEF ObjectAt
  <2>. QED  BY <2>1, Zenon
<1>6. /\ DOMAIN ObjectOf = Streams
      /\ ObjectOf' = [t \in Streams |-> ObjectOf'[t]]
  BY DEF ObjectOf
<1>7. ASSUME NEW x, ObjectOf'[s] = x
      PROVE  ObjectOf' = [ObjectOf EXCEPT ![s] = x]
  BY <1>4, <1>6, <1>7, Zenon
<1>. QED  BY <1>5, <1>7, Zenon

\* What the life cycle shows of a stream.
LEMMA LifecycleFields ==
    ASSUME NEW st
    PROVE  LET o == LifecycleOf(st)
           IN  /\ o.state = "open"
               /\ o.hedged = ~Unhedged(st)
               /\ o.status = StatusName(st.liquidation_status)
               /\ o.tranches_executed = st.tranches_executed
               /\ o.twap_tranches = st.twap_tranches
               /\ o.twap_interval_ms = st.twap_interval_ms
               /\ o.last_tranche_timestamp = st.last_tranche_timestamp
               /\ o.end_time = st.end_time
               /\ o.settled = (st.withdrawn = st.total_amount)
               /\ o.sui = (st.balance > 0)
               /\ o.usdc = (st.usdc_balance > 0)
<1>. DEFINE o == LifecycleOf(st)
<1>1. o.state = "open" /\ o.hedged = ~Unhedged(st)
  BY Zenon DEF LifecycleOf
<1>2. o.status = StatusName(st.liquidation_status)
  BY Zenon DEF LifecycleOf
<1>3. o.tranches_executed = st.tranches_executed /\ o.twap_tranches = st.twap_tranches
  BY Zenon DEF LifecycleOf
<1>4. /\ o.twap_interval_ms = st.twap_interval_ms
      /\ o.last_tranche_timestamp = st.last_tranche_timestamp
  BY Zenon DEF LifecycleOf
<1>5. o.end_time = st.end_time /\ o.settled = (st.withdrawn = st.total_amount)
  BY Zenon DEF LifecycleOf
<1>6. o.sui = (st.balance > 0) /\ o.usdc = (st.usdc_balance > 0)
  BY Zenon DEF LifecycleOf
<1>. QED  BY <1>1, <1>2, <1>3, <1>4, <1>5, <1>6, Zenon

\* An existing object is shown as its stream.
LEMMA OpenObject ==
    ASSUME NEW s \in Streams, s \in live
    PROVE  ObjectOf[s] = LifecycleOf(stream[s])
  BY Zenon DEF ObjectOf, ObjectAt

\* The statuses and their names.
LEMMA StatusNames ==
    /\ StatusName(STATUS_HEALTHY) = "HEALTHY"
    /\ StatusName(STATUS_TWAP_ACTIVE) = "TWAP_ACTIVE"
    /\ StatusName(STATUS_FULLY_HEDGED) = "FULLY_HEDGED"
  BY DEF StatusName, STATUS_HEALTHY, STATUS_TWAP_ACTIVE, STATUS_FULLY_HEDGED

\* Everything has vested exactly from the end on.
LEMMA VestedAtTheEnd ==
    ASSUME NEW total \in Nat \ {0}, NEW start \in Nat, NEW end \in Nat, NEW now \in Nat,
           start < end
    PROVE  vested_total(total, start, end, now) = total <=> now >= end
<1>1. CASE now <= start
  BY <1>1 DEF vested_total
<1>2. CASE now >= end
  BY <1>2 DEF vested_total
<1>3. CASE start < now /\ now < end
  <2>. DEFINE e == now - start  d == end - start  q == (e * total) \div d
  <2>1. e \in Nat /\ d \in Nat \ {0} /\ e + 1 <= d
    BY <1>3
  <2>. HIDE DEF e, d
  <2>2. e * total \in Nat /\ e * total < d * total
    BY <2>1, SMT
  <2>3. q \in Nat /\ d * q <= e * total
    BY <2>1, <2>2, DivBounds, Zenon
  <2>. HIDE DEF q
  <2>4. q # total
    BY <2>1, <2>2, <2>3
  <2>5. vested_total(total, start, end, now) = q
    BY <1>3 DEF vested_total, q, e, d
  <2>. QED  BY <1>3, <2>4, <2>5
<1>. QED  BY <1>1, <1>2, <1>3

----------------------------------------------------------------------------
(* One step at a time *)

\* Before anything is created no id has an object.
LEMMA InitRefines == Init => Lifecycle!InitChain
<1>. SUFFICES ASSUME Init PROVE Lifecycle!InitChain
  BY Zenon
<1>1. ASSUME NEW s \in Streams
      PROVE  s \notin live /\ record[s].status # STATUS_CANCELED
  BY EmptyFields, Zenon DEF Init, RECORD_NONE, STATUS_CANCELED
<1>2. ObjectOf = [s \in Streams |-> NoStreamLifecycle]
  BY <1>1, Zenon DEF ObjectOf, ObjectAt
<1>. QED  BY <1>2, InitIs, Zenon DEF Init

\* A cancellation deletes the object for good.
LEMMA CancelRefines ==
    ASSUME IndInv, NEW s \in Streams, Cancelled(s)
    PROVE  Lifecycle!Cancel(s)
<1>1. ObjectOf' = [ObjectOf EXCEPT ![s] = DeletedLifecycle]
  <2>1. live' \ {s} = live \ {s} /\ s \notin live'
    BY Zenon DEF Cancelled
  <2>. QED  BY <2>1, ObjectChanges, Zenon DEF Cancelled
<1>2. ObjectOf[s].state = "open"
  <2>1. ObjectOf[s] = LifecycleOf(stream[s])
    BY OpenObject, Zenon DEF Cancelled
  <2>. QED  BY <2>1, LifecycleFields, ZenonT(40)
<1>. QED  BY <1>1, <1>2, CancelIs, Zenon DEF Cancelled

\* Records of the life cycle with values in X.
Fields(X) ==
    [state : X, hedged : X, status : X, tranches_executed : X, twap_tranches : X,
     twap_interval_ms : X, last_tranche_timestamp : X, end_time : X,
     settled : X, sui : X, usdc : X]

\* Records with the same fields are the same.
LEMMA SameFields ==
    ASSUME NEW X, NEW p \in Fields(X), NEW q \in Fields(X),
           p.state = q.state, p.hedged = q.hedged, p.status = q.status,
           p.tranches_executed = q.tranches_executed, p.twap_tranches = q.twap_tranches,
           p.twap_interval_ms = q.twap_interval_ms,
           p.last_tranche_timestamp = q.last_tranche_timestamp, p.end_time = q.end_time,
           p.settled = q.settled, p.sui = q.sui, p.usdc = q.usdc
    PROVE  p = q
  BY DEF Fields

\* A record r that differs from p in what a creation writes is p with that written.
LEMMA OpenEdit ==
    ASSUME NEW X, NEW p \in Fields(X), NEW r \in Fields(X),
           r.status = p.status, r.tranches_executed = p.tranches_executed,
           r.last_tranche_timestamp = p.last_tranche_timestamp, r.settled = p.settled,
           r.usdc = p.usdc
    PROVE  [p EXCEPT !.state = r.state, !.sui = r.sui, !.hedged = r.hedged,
                     !.twap_tranches = r.twap_tranches,
                     !.twap_interval_ms = r.twap_interval_ms, !.end_time = r.end_time]
             = r
<1>. DEFINE q == [p EXCEPT !.state = r.state, !.sui = r.sui, !.hedged = r.hedged,
                           !.twap_tranches = r.twap_tranches,
                           !.twap_interval_ms = r.twap_interval_ms,
                           !.end_time = r.end_time]
<1>1. /\ q \in Fields(X) /\ q.state = r.state /\ q.hedged = r.hedged
      /\ q.status = p.status /\ q.tranches_executed = p.tranches_executed
      /\ q.twap_tranches = r.twap_tranches /\ q.twap_interval_ms = r.twap_interval_ms
      /\ q.last_tranche_timestamp = p.last_tranche_timestamp /\ q.end_time = r.end_time
      /\ q.settled = p.settled /\ q.sui = r.sui /\ q.usdc = p.usdc
  BY Zenon DEF Fields
<1>. HIDE DEF q
<1>2. q = r
  BY <1>1, SameFields, Zenon
<1>. QED  BY <1>2, Zenon DEF q

\* The same for what a tranche writes.
LEMMA TrancheEdit ==
    ASSUME NEW X, NEW p \in Fields(X), NEW r \in Fields(X),
           r.state = p.state, r.hedged = p.hedged, r.twap_tranches = p.twap_tranches,
           r.twap_interval_ms = p.twap_interval_ms, r.end_time = p.end_time,
           r.settled = p.settled
    PROVE  [p EXCEPT !.tranches_executed = r.tranches_executed,
                     !.last_tranche_timestamp = r.last_tranche_timestamp, !.sui = r.sui,
                     !.usdc = r.usdc, !.status = r.status]
             = r
<1>. DEFINE q == [p EXCEPT !.tranches_executed = r.tranches_executed,
                           !.last_tranche_timestamp = r.last_tranche_timestamp,
                           !.sui = r.sui, !.usdc = r.usdc, !.status = r.status]
<1>1. /\ q \in Fields(X) /\ q.state = p.state /\ q.hedged = p.hedged
      /\ q.status = r.status /\ q.tranches_executed = r.tranches_executed
      /\ q.twap_tranches = p.twap_tranches /\ q.twap_interval_ms = p.twap_interval_ms
      /\ q.last_tranche_timestamp = r.last_tranche_timestamp /\ q.end_time = p.end_time
      /\ q.settled = p.settled /\ q.sui = r.sui /\ q.usdc = r.usdc
  BY Zenon DEF Fields
<1>. HIDE DEF q
<1>2. q = r
  BY <1>1, SameFields, Zenon
<1>. QED  BY <1>2, Zenon DEF q

\* The same for what a claim writes.
LEMMA ClaimEdit ==
    ASSUME NEW X, NEW p \in Fields(X), NEW r \in Fields(X),
           r.state = p.state, r.hedged = p.hedged, r.status = p.status,
           r.tranches_executed = p.tranches_executed, r.twap_tranches = p.twap_tranches,
           r.twap_interval_ms = p.twap_interval_ms,
           r.last_tranche_timestamp = p.last_tranche_timestamp, r.end_time = p.end_time
    PROVE  [p EXCEPT !.settled = r.settled, !.sui = r.sui, !.usdc = r.usdc]
             = r
<1>. DEFINE q == [p EXCEPT !.settled = r.settled, !.sui = r.sui, !.usdc = r.usdc]
<1>1. /\ q \in Fields(X) /\ q.state = p.state /\ q.hedged = p.hedged
      /\ q.status = p.status /\ q.tranches_executed = p.tranches_executed
      /\ q.twap_tranches = p.twap_tranches /\ q.twap_interval_ms = p.twap_interval_ms
      /\ q.last_tranche_timestamp = p.last_tranche_timestamp /\ q.end_time = p.end_time
      /\ q.settled = r.settled /\ q.sui = r.sui /\ q.usdc = r.usdc
  BY Zenon DEF Fields
<1>. HIDE DEF q
<1>2. q = r
  BY <1>1, SameFields, Zenon
<1>. QED  BY <1>2, Zenon DEF q

Values ==
    {"absent", "open", "deleted"} \cup {"HEALTHY", "TWAP_ACTIVE", "FULLY_HEDGED"}
        \cup Nat \cup BOOLEAN

\* What the life cycle shows of a stream, or of its absence, is such a record.
LEMMA LifecycleTyped ==
    /\ NoStreamLifecycle \in Fields(Values)
    /\ \A st \in StreamType : LifecycleOf(st) \in Fields(Values)
<1>1. NoStreamLifecycle \in Fields(Values)
  <2>1. "absent" \in Values /\ "HEALTHY" \in Values /\ 0 \in Values /\ FALSE \in Values
    BY Zenon DEF Values
  <2>. QED  BY <2>1, Zenon DEF NoStreamLifecycle, Fields
<1>2. ASSUME NEW st \in StreamType
      PROVE  LifecycleOf(st) \in Fields(Values)
  <2>1. "open" \in Values /\ StatusName(st.liquidation_status) \in Values
    BY StatusNames, Zenon DEF Values, StreamType
  <2>2. /\ st.tranches_executed \in Values /\ st.twap_tranches \in Values
        /\ st.twap_interval_ms \in Values /\ st.last_tranche_timestamp \in Values
        /\ st.end_time \in Values
    BY Zenon DEF Values, StreamType
  <2>3. /\ (~Unhedged(st)) \in Values /\ (st.withdrawn = st.total_amount) \in Values
        /\ (st.balance > 0) \in Values /\ (st.usdc_balance > 0) \in Values
    <3>1. TRUE \in Values /\ FALSE \in Values
      BY Zenon DEF Values
    <3>2. (~Unhedged(st)) \in Values
      BY <3>1, Zenon
    <3>3. (st.withdrawn = st.total_amount) \in Values
      BY <3>1, Zenon
    <3>4. (st.balance > 0) \in Values
      <4>1. (st.balance > 0) = TRUE \/ (st.balance > 0) = FALSE
        BY DEF StreamType
      <4>. QED  BY <3>1, <4>1, Zenon
    <3>5. (st.usdc_balance > 0) \in Values
      <4>1. (st.usdc_balance > 0) = TRUE \/ (st.usdc_balance > 0) = FALSE
        BY DEF StreamType
      <4>. QED  BY <3>1, <4>1, Zenon
    <3>. QED  BY <3>2, <3>3, <3>4, <3>5, Zenon
  <2>. QED  BY <2>1, <2>2, <2>3, Zenon DEF LifecycleOf, Fields
<1>. QED  BY <1>1, <1>2, Zenon

\* The fields of a new stream that the life cycle shows.
LEMMA NewStreamFields ==
    ASSUME NEW o \in Offers, NEW sender \in Accounts
    PROVE  LET st == new_stream(o, sender)
               twap == resolve_twap_preset(o.twap_preset, o.hedge_direction)
           IN  /\ st.total_amount = o.deposit /\ st.withdrawn = 0
               /\ st.balance = o.deposit /\ st.usdc_balance = 0
               /\ st.end_time = o.end_time /\ st.strike_price = o.strike_price
               /\ st.hedge_direction = o.hedge_direction
               /\ st.liquidation_status = STATUS_HEALTHY
               /\ st.twap_tranches = twap.tranches
               /\ st.twap_interval_ms = twap.interval_ms
               /\ st.tranches_executed = 0 /\ st.last_tranche_timestamp = 0
  BY Zenon DEF new_stream, NoStream

\* A new stream is open, funded and as protected as its offer asks.
LEMMA OpenedIs ==
    ASSUME NEW o \in Offers, NEW sender \in Accounts, o.deposit > 0,
           new_stream(o, sender) \in StreamType
    PROVE  LifecycleOf(new_stream(o, sender)) = OpenedLifecycle(TermsOf(o))
<1>. DEFINE st == new_stream(o, sender)
            p == NoStreamLifecycle
            r == LifecycleOf(st)
            t == TermsOf(o)
            twap == resolve_twap_preset(o.twap_preset, o.hedge_direction)
            hedged == o.hedge_direction # HEDGE_NONE /\ o.strike_price # 0
<1>1. /\ (~Unhedged(st)) = hedged
      /\ (st.withdrawn = st.total_amount) = FALSE
      /\ (st.balance > 0) = TRUE /\ (st.usdc_balance > 0) = FALSE
  BY NewStreamFields, OfferAssumption DEF Unhedged
<1>2. /\ StatusName(st.liquidation_status) = "HEALTHY"
      /\ st.tranches_executed = 0 /\ st.last_tranche_timestamp = 0
      /\ st.twap_tranches = twap.tranches /\ st.twap_interval_ms = twap.interval_ms
      /\ st.end_time = o.end_time
  BY NewStreamFields, StatusNames, Zenon
<1>. HIDE DEF st, twap, hedged
<1>3. /\ t.hedged = hedged /\ t.twap_tranches = twap.tranches
      /\ t.twap_interval_ms = twap.interval_ms /\ t.end_time = o.end_time
  BY Zenon DEF TermsOf, hedged, twap
<1>4. /\ r.state = "open" /\ r.sui = TRUE /\ r.hedged = t.hedged
      /\ r.twap_tranches = t.twap_tranches /\ r.twap_interval_ms = t.twap_interval_ms
      /\ r.end_time = t.end_time
  BY <1>1, <1>2, <1>3, LifecycleFields, Zenon
<1>5. /\ r.status = p.status /\ r.tranches_executed = p.tranches_executed
      /\ r.last_tranche_timestamp = p.last_tranche_timestamp
  BY <1>2, LifecycleFields, Zenon DEF NoStreamLifecycle
<1>6. r.settled = p.settled /\ r.usdc = p.usdc
  BY <1>1, LifecycleFields, Zenon DEF NoStreamLifecycle
<1>7. r \in Fields(Values) /\ p \in Fields(Values)
  BY LifecycleTyped, Zenon DEF st
<1>. HIDE DEF p, r, t
<1>8. r = [p EXCEPT !.state = r.state, !.sui = r.sui, !.hedged = r.hedged,
                    !.twap_tranches = r.twap_tranches,
                    !.twap_interval_ms = r.twap_interval_ms, !.end_time = r.end_time]
  BY <1>5, <1>6, <1>7, OpenEdit, Zenon
<1>9. r = OpenedLifecycle(t)
  BY <1>4, <1>8, Zenon DEF OpenedLifecycle, p
<1>. QED  BY <1>9, Zenon DEF st, r, t

\* create_stream opens an object where there never was one.
LEMMA CreateRefines ==
    ASSUME IndInv, IndInv', NEW s \in Streams, Created(s)
    PROVE  Lifecycle!Create(s)
<1>1. PICK o \in Offers, sender \in Accounts :
        /\ o.deposit > 0
        /\ o.hedge_direction # HEDGE_NONE => o.twap_preset \in DOMAIN TWAP_PRESETS
        /\ stream' = [stream EXCEPT ![s] = new_stream(o, sender)]
  BY Zenon DEF Created
<1>2. TermsOf(o) \in KnownTerms
  BY <1>1, Zenon DEF KnownTerms, PresetKnown
<1>3. ObjectOf' = [ObjectOf EXCEPT ![s] = OpenedLifecycle(TermsOf(o))]
  <2>1. live' \ {s} = live \ {s} /\ s \in live'
    BY Zenon DEF Created
  <2>2. ObjectOf' = [ObjectOf EXCEPT ![s] = LifecycleOf(new_stream(o, sender))]
    BY <1>1, <2>1, ObjectChanges, Zenon DEF Created
  <2>3. new_stream(o, sender) \in StreamType
    BY <1>1, Zenon DEF IndInv, TypeOK
  <2>. QED  BY <1>1, <2>2, <2>3, OpenedIs, Zenon
<1>4. ObjectOf[s].state = "absent"
  <2>1. s \notin live /\ record[s].status # STATUS_CANCELED
    BY Zenon DEF Created, RECORD_NONE, STATUS_CANCELED
  <2>2. ObjectOf[s] = NoStreamLifecycle
    BY <2>1, Zenon DEF ObjectOf, ObjectAt
  <2>3. NoStreamLifecycle.state = "absent"
    BY Zenon DEF NoStreamLifecycle
  <2>. QED  BY <2>2, <2>3, Zenon
<1>. QED  BY <1>2, <1>3, <1>4, CreateIs, Zenon DEF Created

\* after_tranche does to the shown record what AfterTranche does.
LEMMA TrancheIs ==
    ASSUME NEW old \in StreamType, NEW new \in StreamType, TrancheEffect(old, new)
    PROVE  LifecycleOf(new) = Lifecycle!AfterTranche(LifecycleOf(old), new.balance > 0,
                                                     new.usdc_balance > 0)
<1>. DEFINE p == LifecycleOf(old)
            r == LifecycleOf(new)
            sui == new.balance > 0
            usdc == new.usdc_balance > 0
<1>1. /\ (~Unhedged(new)) = (~Unhedged(old))
      /\ (new.withdrawn = new.total_amount) = (old.withdrawn = old.total_amount)
  BY Zenon DEF TrancheEffect, Unhedged
<1>2. /\ new.tranches_executed = old.tranches_executed + 1
      /\ new.last_tranche_timestamp = clock
      /\ new.end_time = old.end_time
      /\ new.twap_tranches = old.twap_tranches
      /\ new.twap_interval_ms = old.twap_interval_ms
  BY Zenon DEF TrancheEffect
<1>3. StatusName(new.liquidation_status)
        = IF old.tranches_executed + 1 >= old.twap_tranches \/ ~sui
          THEN "FULLY_HEDGED" ELSE "TWAP_ACTIVE"
  <2>1. new.balance = 0 <=> ~sui
    BY DEF StreamType
  <2>2. new.liquidation_status =
          IF old.tranches_executed + 1 >= old.twap_tranches \/ ~sui
          THEN STATUS_FULLY_HEDGED ELSE STATUS_TWAP_ACTIVE
    BY <2>1, Zenon DEF TrancheEffect
  <2>. HIDE DEF sui
  <2>. QED  BY <2>2, StatusNames, Zenon
<1>. HIDE DEF sui, usdc
<1>4. /\ r.tranches_executed = p.tranches_executed + 1 /\ r.last_tranche_timestamp = clock
      /\ r.twap_tranches = p.twap_tranches /\ r.twap_interval_ms = p.twap_interval_ms
      /\ r.end_time = p.end_time
  BY <1>2, LifecycleFields, Zenon
<1>5. /\ r.state = p.state /\ r.hedged = p.hedged /\ r.settled = p.settled
      /\ r.sui = sui /\ r.usdc = usdc
  BY <1>1, LifecycleFields, ZenonT(40) DEF sui, usdc
<1>6. r.status = IF p.tranches_executed + 1 >= p.twap_tranches \/ ~sui
                 THEN "FULLY_HEDGED" ELSE "TWAP_ACTIVE"
  BY <1>3, LifecycleFields, Zenon
<1>7. r \in Fields(Values) /\ p \in Fields(Values)
  BY LifecycleTyped, Zenon
<1>. HIDE DEF p, r
<1>8. r = [p EXCEPT !.tranches_executed = r.tranches_executed,
                    !.last_tranche_timestamp = r.last_tranche_timestamp,
                    !.sui = r.sui, !.usdc = r.usdc, !.status = r.status]
  BY <1>4, <1>5, <1>7, TrancheEdit, Zenon
<1>9. r = Lifecycle!AfterTranche(p, sui, usdc)
  BY <1>4, <1>5, <1>6, <1>8, Zenon DEF Lifecycle!AfterTranche
<1>. QED  BY <1>9, Zenon DEF p, r, sui, usdc

\* A hedge call is the first tranche of a healthy object or the next, due, one.
LEMMA SellRefines ==
    ASSUME IndInv, NEW s \in Streams, Sold(s)
    PROVE  Lifecycle!Initiate(s) \/ Lifecycle!NextTranche(s)
<1>. DEFINE old == stream[s]  p == ObjectOf[s]
<1>1. PICK new \in StreamType : Changes(s, new) /\ TrancheEffect(old, new)
  BY Zenon DEF Sold
<1>2. old \in StreamType
  BY Zenon DEF IndInv, TypeOK
<1>. DEFINE sui == new.balance > 0  usdc == new.usdc_balance > 0
<1>3. p = LifecycleOf(old)
  BY OpenObject, Zenon DEF Sold
<1>4. /\ p.state = "open" /\ p.hedged = ~Unhedged(old)
      /\ p.status = StatusName(old.liquidation_status)
      /\ p.last_tranche_timestamp = old.last_tranche_timestamp
      /\ p.twap_interval_ms = old.twap_interval_ms
      /\ p.sui = (old.balance > 0) /\ p.usdc = (old.usdc_balance > 0)
  <2>. HIDE DEF p, old
  <2>. QED  BY <1>3, LifecycleFields, Zenon
<1>5. /\ sui => old.balance > 0
      /\ old.usdc_balance > 0 => usdc
      /\ usdc => old.balance > 0 \/ old.usdc_balance > 0
  BY <1>1, <1>2 DEF TrancheEffect, StreamType
<1>6. sui \in BOOLEAN /\ usdc \in BOOLEAN
  BY DEF StreamType
<1>7. ObjectOf' = [ObjectOf EXCEPT ![s] = Lifecycle!AfterTranche(p, sui, usdc)]
  <2>1. live' \ {s} = live \ {s} /\ s \in live'
    BY <1>1, Zenon DEF Changes, Sold
  <2>2. ObjectOf' = [ObjectOf EXCEPT ![s] = LifecycleOf(new)]
    BY <1>1, <2>1, ObjectChanges, Zenon DEF Changes
  <2>. QED  BY <1>1, <1>2, <1>3, <2>2, TrancheIs, Zenon
<1>8. clock' = clock
  BY <1>1, Zenon DEF Changes
<1>9. \/ p.status = "HEALTHY"
      \/ /\ p.status = "TWAP_ACTIVE"
         /\ clock - p.last_tranche_timestamp >= p.twap_interval_ms
  <2>1. \/ old.liquidation_status = STATUS_HEALTHY
        \/ /\ old.liquidation_status = STATUS_TWAP_ACTIVE
           /\ clock - old.last_tranche_timestamp >= old.twap_interval_ms
    BY <1>1, Zenon DEF TrancheEffect, next_tranche_due
  <2>. QED  BY <1>4, <2>1, StatusNames, Zenon
<1>10. p.hedged
  BY <1>1, <1>4, Zenon DEF TrancheEffect
<1>11. /\ sui => p.sui
       /\ p.usdc => usdc
       /\ usdc => p.sui \/ p.usdc
  <2>. HIDE DEF sui, usdc
  <2>. QED  BY <1>4, <1>5, Zenon
<1>. HIDE DEF sui, usdc
<1>12. Lifecycle!SellTranche(s)
  BY <1>4, <1>6, <1>7, <1>8, <1>10, <1>11, SellIs, Zenon
<1>. QED  BY <1>9, <1>12, SellIs, Zenon

\* A claim withdraws all that has vested: before it something is left, after it
\* nothing is exactly from the end on.
LEMMA ClaimSettles ==
    ASSUME NEW old \in StreamType, NEW new \in StreamType, clock \in Nat,
           old.total_amount > 0, old.start_time < old.end_time,
           newly_vested(old, clock) > 0, SameTerms(old, new),
           new.withdrawn = old.withdrawn + newly_vested(old, clock)
    PROVE  /\ old.withdrawn # old.total_amount
           /\ new.withdrawn = new.total_amount <=> clock >= old.end_time
           /\ new.withdrawn <= new.total_amount
<1>. DEFINE vested == vested_total(old.total_amount, old.start_time, old.end_time, clock)
<1>1. /\ old.total_amount \in Nat \ {0} /\ old.start_time \in Nat /\ old.end_time \in Nat
      /\ old.withdrawn \in Nat
  BY DEF StreamType
<1>2. vested \in Nat /\ vested <= old.total_amount
  BY <1>1, VestedBound, Zenon
<1>3. vested = old.total_amount <=> clock >= old.end_time
  BY <1>1, VestedAtTheEnd, Zenon
<1>4. newly_vested(old, clock) = IF vested > old.withdrawn THEN vested - old.withdrawn ELSE 0
  BY Zenon DEF newly_vested
<1>. HIDE DEF vested
<1>5. vested > old.withdrawn /\ new.withdrawn = vested
  BY <1>1, <1>2, <1>4
<1>. QED  BY <1>1, <1>2, <1>3, <1>5 DEF SameTerms

\* What a claim does to the shown record.
LEMMA ClaimShown ==
    ASSUME NEW old \in StreamType, NEW new \in StreamType, SameTerms(old, new)
    PROVE  LifecycleOf(new)
             = [LifecycleOf(old) EXCEPT !.settled = new.withdrawn = new.total_amount,
                                        !.sui = new.balance > 0,
                                        !.usdc = new.usdc_balance > 0]
<1>. DEFINE p == LifecycleOf(old)
            r == LifecycleOf(new)
            last == new.withdrawn = new.total_amount
            sui == new.balance > 0
            usdc == new.usdc_balance > 0
<1>1. (~Unhedged(new)) = (~Unhedged(old))
  BY Zenon DEF SameTerms, Unhedged
<1>2. /\ r.state = p.state /\ r.hedged = p.hedged /\ r.status = p.status
      /\ r.tranches_executed = p.tranches_executed
  BY <1>1, LifecycleFields, ZenonT(40) DEF SameTerms
<1>3. /\ r.last_tranche_timestamp = p.last_tranche_timestamp
      /\ r.twap_tranches = p.twap_tranches /\ r.twap_interval_ms = p.twap_interval_ms
      /\ r.end_time = p.end_time
  BY LifecycleFields, Zenon DEF SameTerms
<1>4. r.settled = last /\ r.sui = sui /\ r.usdc = usdc
  BY LifecycleFields, Zenon
<1>5. r \in Fields(Values) /\ p \in Fields(Values)
  BY LifecycleTyped, Zenon
<1>. HIDE DEF p, r, last, sui, usdc
<1>6. r = [p EXCEPT !.settled = r.settled, !.sui = r.sui, !.usdc = r.usdc]
  BY <1>2, <1>3, <1>5, ClaimEdit, Zenon
<1>7. r = [p EXCEPT !.settled = last, !.sui = sui, !.usdc = usdc]
  BY <1>4, <1>6, Zenon
<1>. QED  BY <1>7, Zenon DEF p, r, last, sui, usdc

\* A claim settles the object exactly from its end on, and leaves a protected one
\* no pool it did not have.
LEMMA ClaimRefines ==
    ASSUME IndInv, IndInv', NEW s \in Streams, Claimed(s)
    PROVE  Lifecycle!Claim(s)
<1>. DEFINE old == stream[s]  p == ObjectOf[s]
<1>1. PICK new \in StreamType :
         /\ Changes(s, new)
         /\ SameTerms(old, new)
         /\ new.withdrawn = old.withdrawn + newly_vested(old, clock)
         /\ new.balance <= old.balance
         /\ new.usdc_balance <= old.usdc_balance
  BY Zenon DEF Claimed
<1>. DEFINE sui == new.balance > 0  usdc == new.usdc_balance > 0
            last == clock >= old.end_time
<1>2. /\ old \in StreamType /\ clock \in Nat /\ s \in live /\ s \in live' /\ stream'[s] = new
      /\ live' \ {s} = live \ {s} /\ clock' = clock
  BY <1>1, Zenon DEF IndInv, TypeOK, Claimed, Changes
<1>3. /\ old.withdrawn # old.total_amount
      /\ new.withdrawn = new.total_amount <=> last
      /\ new.withdrawn <= new.total_amount
  <2>1. old.total_amount > 0 /\ old.start_time < old.end_time
    <3>1. /\ Bookkept(s \in live, stream[s], vault[s], record[s], ledger[s], clock)
          /\ RecordMatches(s \in live, stream[s], vault[s], record[s], ledger[s])
      BY Zenon DEF IndInv, StateBookkept, RecordMatchesObject
    <3>. QED  BY <1>2, <3>1, Zenon DEF Bookkept, RecordMatches, RECORD_NONE, STATUS_ACTIVE,
                 STATUS_COMPLETED
  <2>2. newly_vested(old, clock) > 0
    BY Zenon DEF Claimed
  <2>. HIDE DEF old
  <2>. QED  BY <1>1, <1>2, <2>1, <2>2, ClaimSettles, Zenon
<1>4. Unhedged(old) => (sui <=> ~last)
  <2>1. FullyBacked(s \in live', stream'[s], record'[s], ledger'[s])
    BY Zenon DEF IndInv, UnhedgedIsFullyBacked
  <2>2. Unhedged(new) <=> Unhedged(old)
    BY <1>1, Zenon DEF SameTerms, Unhedged
  <2>3. Unhedged(old) => new.balance = new.total_amount - new.withdrawn
    BY <1>2, <2>1, <2>2, Zenon DEF FullyBacked
  <2>4. new.total_amount \in Nat /\ new.withdrawn \in Nat
    BY Zenon DEF StreamType
  <2>. HIDE DEF last
  <2>. QED  BY <1>3, <2>3, <2>4
<1>5. p = LifecycleOf(old)
  BY <1>2, OpenObject, Zenon
<1>6. /\ p.state = "open" /\ p.hedged = ~Unhedged(old)
      /\ p.settled = (old.withdrawn = old.total_amount) /\ p.end_time = old.end_time
      /\ p.sui = (old.balance > 0) /\ p.usdc = (old.usdc_balance > 0)
  <2>. HIDE DEF p, old
  <2>. QED  BY <1>5, LifecycleFields, Zenon
<1>7. sui \in BOOLEAN /\ usdc \in BOOLEAN /\ last \in BOOLEAN
  BY <1>2 DEF StreamType
<1>8. (sui => old.balance > 0) /\ (usdc => old.usdc_balance > 0)
  BY <1>1, <1>2 DEF StreamType
<1>9. (new.withdrawn = new.total_amount) = last
  <2>. HIDE DEF last
  <2>. QED  BY <1>3, <1>7, Zenon
<1>10. (new.balance > 0) = sui /\ (new.usdc_balance > 0) = usdc
  BY Zenon
<1>11. last = (clock >= p.end_time)
  <2>. HIDE DEF p, old
  <2>. QED  BY <1>6, Zenon
<1>. HIDE DEF sui, usdc, last
<1>12. ObjectOf' = [ObjectOf EXCEPT ![s] = [p EXCEPT !.settled = last, !.sui = sui,
                                                     !.usdc = usdc]]
  <2>1. ObjectOf' = [ObjectOf EXCEPT ![s] = LifecycleOf(new)]
    BY <1>1, <1>2, ObjectChanges, Zenon DEF Changes
  <2>2. LifecycleOf(new) = [p EXCEPT !.settled = last, !.sui = sui, !.usdc = usdc]
    <3>. HIDE DEF p, old
    <3>1. old \in StreamType /\ SameTerms(old, new)
      BY <1>1, <1>2, Zenon
    <3>2. LifecycleOf(new)
            = [LifecycleOf(old) EXCEPT !.settled = new.withdrawn = new.total_amount,
                                       !.sui = new.balance > 0,
                                       !.usdc = new.usdc_balance > 0]
      BY <3>1, ClaimShown, Zenon
    <3>. QED  BY <1>5, <1>9, <1>10, <3>2, Zenon
  <2>. QED  BY <2>1, <2>2, Zenon
<1>13. ~p.settled /\ (sui => p.sui) /\ (usdc => p.usdc)
  BY <1>3, <1>6, <1>8, Zenon
<1>14. ~p.hedged => sui = ~last
  BY <1>4, <1>6, <1>7, Zenon
<1>15. /\ ~p.hedged => sui = ~(clock >= p.end_time)
       /\ ObjectOf' = [ObjectOf EXCEPT ![s] = [p EXCEPT !.settled = clock >= p.end_time,
                                                        !.sui = sui, !.usdc = usdc]]
  <2>. HIDE DEF p
  <2>. QED  BY <1>11, <1>12, <1>14, Zenon
<1>. QED  BY <1>2, <1>6, <1>7, <1>13, <1>15, ClaimIs, Zenon

----------------------------------------------------------------------------
(* The theorem *)

\* Every step of the contracts is a step of the life cycle or hidden from it.
LEMMA NextRefines ==
    ASSUME IndInv, IndInv', [Next]_vars
    PROVE  [Lifecycle!NextChain]_(Lifecycle!chainVars)
<1>1. ASSUME NEW s \in Streams, Created(s) \/ Sold(s) \/ Claimed(s) \/ Cancelled(s)
      PROVE  Lifecycle!ChainStep(s)
  <2>1. \/ Lifecycle!Create(s) \/ Lifecycle!Initiate(s) \/ Lifecycle!NextTranche(s)
        \/ Lifecycle!Claim(s) \/ Lifecycle!Cancel(s)
    BY <1>1, CreateRefines, SellRefines, ClaimRefines, CancelRefines, Zenon
  <2>. QED  BY <2>1, Zenon DEF Lifecycle!ChainStep
<1>2. UNCHANGED <<live, stream, record>> => ObjectOf' = ObjectOf
  <2>. SUFFICES ASSUME live' = live, stream' = stream, record' = record
                PROVE  ObjectOf' = ObjectOf
    BY Zenon
  <2>. QED  BY Zenon DEF ObjectOf
<1>3. Tick => Lifecycle!TickChain
  BY <1>2, TickIs, Zenon DEF Tick
<1>4. UNCHANGED <<clock, live, stream, record>> => UNCHANGED Lifecycle!chainVars
  BY <1>2, TickIs, Zenon
<1>5. \/ \E s \in Streams : Lifecycle!ChainStep(s)
      \/ Lifecycle!TickChain
      \/ UNCHANGED Lifecycle!chainVars
  BY <1>1, <1>3, <1>4, NextEffect, Zenon
<1>. QED  BY <1>5, Zenon DEF Lifecycle!NextChain

\* The contracts implement the life cycle of their objects, for every number of
\* streams and every choice of offers, prices and pools: the chain that the keeper
\* is checked against is the one the contracts produce.
THEOREM ImplementsLifecycle == Spec => FollowsLifecycle
<1>1. Init => Lifecycle!InitChain
  BY InitRefines, Zenon
<1>2. IndInv /\ IndInv' /\ [Next]_vars => [Lifecycle!NextChain]_(Lifecycle!chainVars)
  BY NextRefines, Zenon
<1>. QED  BY <1>1, <1>2, InductiveInvariant, PTL DEF Spec, FollowsLifecycle, Lifecycle!SpecChain

=============================================================================
