---------------------------- MODULE KeeperProofs ----------------------------
(***************************************************************************)
(* Proofs about the keeper's ticks and auto-claims beside the indexer, for *)
(* any number of streams, ticks and refreshes.                             *)
(***************************************************************************)
EXTENDS Keeper, IndexerProofs

----------------------------------------------------------------------------
(* The inductive invariant of the keeper *)

ItemType ==
    [s : Streams, action : {"initiate", "execute_tranche", "claim"},
     detached : Seq(CachedType)]

TickType ==
    [phase : {"idle", "hedging", "claiming"}, todo : Seq(ItemType),
     item : ItemType \cup {NoItem}, tx : {"none", "building", "submitted", "executed"}]

TickOK(k) ==
    /\ k \in TickType
    /\ k.phase = "idle" <=> k.tx = "none"
    /\ k.phase # "idle" => k.item \in ItemType

TicksOK == ticks \in [Ticks -> TickType] /\ \A t \in Ticks : TickOK(ticks[t])

\* The marks F and timers R are those of the claims of all ticks but t.
MarksOf(t, F, R) ==
    /\ F \subseteq Streams
    /\ R \subseteq F
    /\ \A u \in Ticks \ {t} : ticks[u].phase = "claiming" => ticks[u].item.s \in F \ R
    /\ \A u, v \in Ticks \ {t} :
         /\ ticks[u].phase = "claiming"
         /\ ticks[v].phase = "claiming"
         /\ ticks[u].item.s = ticks[v].item.s
         => u = v

\* Ticks that claim have claimed different streams, each of them marked, and none of
\* them with a timer that would take the mark away.
MarksOK ==
    /\ autoClaimInFlight \subseteq Streams
    /\ releasing \subseteq autoClaimInFlight
    /\ \A t \in Ticks : ticks[t].phase = "claiming" =>
         ticks[t].item.s \in autoClaimInFlight \ releasing
    /\ \A t, u \in Ticks :
         /\ ticks[t].phase = "claiming"
         /\ ticks[u].phase = "claiming"
         /\ ticks[t].item.s = ticks[u].item.s
         => t = u

KeeperInv == IndexerInv /\ TicksOK /\ MarksOK

----------------------------------------------------------------------------
(* The steps of the keeper *)

\* A tick that is not running.
LEMMA RestingOK ==
    TickOK(Resting) /\ Resting.phase = "idle"
BY DEF TickOK, Resting, TickType

\* A tick that builds the transaction of one item.
LEMMA WorkingOK ==
    ASSUME NEW phase \in {"hedging", "claiming"}, NEW item \in ItemType,
           NEW todo \in Seq(ItemType)
    PROVE  LET k == Working(phase, item, todo)
           IN  TickOK(k) /\ k.phase = phase /\ k.item = item
BY Zenon DEF TickOK, Working, TickType

\* One tick changes, and its claim, if it makes one, is of a marked stream that no
\* other tick claims.
LEMMA TickBecomes ==
    ASSUME TicksOK, NEW t \in Ticks, NEW k, TickOK(k), ticks' = [ticks EXCEPT ![t] = k],
           MarksOf(t, autoClaimInFlight', releasing'),
           k.phase = "claiming" =>
             /\ k.item.s \in autoClaimInFlight' \ releasing'
             /\ \A u \in Ticks \ {t} :
                  ticks[u].phase = "claiming" => ticks[u].item.s # k.item.s
    PROVE  TicksOK' /\ MarksOK'
<1>1. \A u \in Ticks : ticks'[u] = IF u = t THEN k ELSE ticks[u]
  BY Zenon DEF TicksOK
<1>2. TicksOK'
  BY <1>1, Zenon DEF TicksOK, TickOK
<1>3. MarksOK'
  BY <1>1 DEF MarksOK, MarksOf
<1> QED
  BY <1>2, <1>3, Zenon

\* The auto-claim loop goes to the next stream without mark and marks it, or ends.
LEMMA ClaimNext ==
    ASSUME TicksOK, NEW t \in Ticks, NEW todo \in Seq(ItemType), NEW inFlight,
           MarksOf(t, inFlight, releasing'), claim_next(t, todo, inFlight)
    PROVE  TicksOK' /\ MarksOK'
<1> DEFINE free == {k \in DOMAIN todo : todo[k].s \notin inFlight}
<1>1. CASE /\ ticks' = [ticks EXCEPT ![t] = Resting]
           /\ autoClaimInFlight' = inFlight
  BY <1>1, RestingOK, TickBecomes, Zenon
<1>2. ASSUME NEW k \in free,
             ticks' = [ticks EXCEPT ![t] =
               Working("claiming", todo[k], SubSeq(todo, k + 1, Len(todo)))],
             autoClaimInFlight' = mark_in_flight(inFlight, todo[k].s)
      PROVE  TicksOK' /\ MarksOK'
  <2> DEFINE w == Working("claiming", todo[k], SubSeq(todo, k + 1, Len(todo)))
  <2>1. k \in 1 .. Len(todo) /\ Len(todo) \in Nat
    OBVIOUS
  <2>2. todo[k] \in ItemType /\ SubSeq(todo, k + 1, Len(todo)) \in Seq(ItemType)
    BY <2>1
  <2>3. todo[k].s \in Streams \ inFlight
    BY <2>2, Zenon DEF ItemType
  <2>4. TickOK(w) /\ w.phase = "claiming" /\ w.item = todo[k]
    BY <2>2, WorkingOK, Zenon
  <2>5. autoClaimInFlight' = inFlight \cup {todo[k].s}
    BY <1>2, Zenon DEF mark_in_flight
  <2> HIDE DEF w
  <2>6. MarksOf(t, autoClaimInFlight', releasing')
    BY <2>3, <2>5, Zenon DEF MarksOf
  <2>7. w.item.s \in autoClaimInFlight' \ releasing'
    BY <2>3, <2>4, <2>5, Zenon DEF MarksOf
  <2>8. \A u \in Ticks \ {t} : ticks[u].phase = "claiming" => ticks[u].item.s # w.item.s
    BY <2>3, <2>4, Zenon DEF MarksOf
  <2>9. ticks' = [ticks EXCEPT ![t] = w]
    BY <1>2, Zenon DEF w
  <2> QED
    BY <2>4, <2>6, <2>7, <2>8, <2>9, TickBecomes, Zenon
<1> QED
  BY <1>1, <1>2, Zenon DEF claim_next

\* getMaturedStreams lists claims of tracked streams.
LEMMA MaturedType ==
    ASSUME tracked' \subseteq Streams, NEW list \in getMaturedStreams
    PROVE  list \in Seq(ItemType)
<1> DEFINE ids == {s \in DOMAIN streams' : is_matured(streams'[s])}
<1>1. PICK q \in InOrder(order', ids) : list = [k \in DOMAIN q |-> Item(q[k], "claim")]
  BY Zenon DEF getMaturedStreams
<1>2. ids \subseteq Streams
  BY Zenon DEF tracked
<1> HIDE DEF ids
<1>3. q \in Seq(Streams)
  BY <1>2, OrdersType, Zenon DEF InOrder
<1>4. \A s \in Streams : Item(s, "claim") \in ItemType
  BY DEF Item, ItemType
<1> QED
  BY <1>1, <1>3, <1>4

\* detectBreaches lists hedges of tracked streams.
LEMMA BreachesType ==
    ASSUME tracked \subseteq Streams, NEW inBreach, NEW list \in detectBreaches(inBreach)
    PROVE  list \in Seq(ItemType)
<1> DEFINE ids == {s \in tracked : action_for(s, inBreach) # "none"}
<1>1. PICK q \in InOrder(order, ids) :
        list = [k \in DOMAIN q |-> Item(q[k], action_for(q[k], inBreach))]
  BY Zenon DEF detectBreaches
<1>2. \A s \in ids : Item(s, action_for(s, inBreach)) \in ItemType
  BY DEF action_for, Item, ItemType
<1>3. ids \subseteq Streams
  BY Zenon
<1> HIDE DEF ids
<1>4. q \in Seq(ids)
  BY <1>3, OrdersType, Zenon DEF InOrder
<1> QED
  BY <1>1, <1>2, <1>4

\* The hedge loop goes to its next breach, or the claims begin.
LEMMA HedgeNext ==
    ASSUME TicksOK, NEW t \in Ticks, NEW todo \in Seq(ItemType), tracked' \subseteq Streams,
           MarksOf(t, autoClaimInFlight, releasing'), hedge_next(t, todo)
    PROVE  TicksOK' /\ MarksOK'
<1>1. CASE /\ todo # <<>>
           /\ ticks' = [ticks EXCEPT ![t] = Working("hedging", Head(todo), Tail(todo))]
           /\ UNCHANGED autoClaimInFlight
  <2> DEFINE head == Head(todo)
             tail == Tail(todo)
             w == Working("hedging", head, tail)
  <2>1. head \in ItemType /\ tail \in Seq(ItemType)
    BY <1>1
  <2> HIDE DEF head, tail
  <2>2. TickOK(w) /\ w.phase = "hedging"
    BY <2>1, WorkingOK, Zenon
  <2> HIDE DEF w
  <2>3. ticks' = [ticks EXCEPT ![t] = w]
    BY <1>1, Zenon DEF w, head, tail
  <2> QED
    BY <1>1, <2>2, <2>3, TickBecomes, Zenon
<1>2. CASE \E list \in getMaturedStreams : claim_next(t, list, autoClaimInFlight)
  BY <1>2, MaturedType, ClaimNext, Zenon
<1> QED
  BY <1>1, <1>2, Zenon DEF hedge_next

\* What is left of the marks when a tick is taken out of them.
LEMMA MarksOfOthers ==
    ASSUME MarksOK, NEW t \in Ticks
    PROVE  MarksOf(t, autoClaimInFlight, releasing)
BY Zenon DEF MarksOK, MarksOf

\* A recorded hedge or claim changes a cached state, and nothing else of the indexer.
LEMMA Recorded ==
    ASSUME IndexerInv, others_unchanged, DOMAIN streams' = tracked,
           streams' \in [tracked -> CachedType]
    PROVE  IndexerInv'
<1>1. MapOK' /\ FileOK'
  BY Zenon DEF IndexerInv, MapOK, FileOK, others_unchanged, chainVars, tracked, Gone, HoldsCoins,
         IsOpen, Funded
<1>2. TasksOK' /\ ChainTypeOK'
  BY Zenon DEF IndexerInv, TasksOK, RefreshOK, RegisteringOK, ChainTypeOK, others_unchanged,
         chainVars, Gone, HoldsCoins, IsOpen, Funded
<1> QED
  BY <1>1, <1>2, Zenon DEF IndexerInv

\* A recorded hedge leaves a cached state behind.
LEMMA HedgeRecordedType ==
    ASSUME MapOK, clock \in Nat, NEW i \in ItemType
    PROVE  hedge_recorded(i) \in [tracked -> CachedType]
<1>1. CASE i.s \notin tracked
  BY <1>1, Zenon DEF hedge_recorded, MapOK
<1>2. CASE i.s \in tracked
  <2>1. streams[i.s] \in CachedType
    BY <1>2, Zenon DEF MapOK
  <2>2. referenced(i) \in CachedType
    BY <2>1 DEF referenced, ItemType
  <2>3. referenced(i).tranches_executed \in Nat
    BY <2>2, Zenon DEF CachedType
  <2> DEFINE n == IF i.action = "initiate" THEN 1 ELSE referenced(i).tranches_executed + 1
             st == IF i.action = "execute_tranche" /\ n >= referenced(i).twap_tranches
                   THEN "FULLY_HEDGED" ELSE "TWAP_ACTIVE"
             new == [streams[i.s] EXCEPT !.status = st, !.tranches_executed = n,
                                         !.last_tranche_timestamp = clock]
  <2>4. n \in Nat /\ st \in Statuses
    BY <2>3 DEF Statuses
  <2>5. hedge_recorded(i) = [streams EXCEPT ![i.s] = new]
    BY <1>2, Zenon DEF hedge_recorded, updateStreamState
  <2> HIDE DEF n, st
  <2>6. new \in CachedType
    BY <2>1, <2>4, Zenon DEF CachedType
  <2> HIDE DEF new
  <2> QED
    BY <2>5, <2>6, Zenon DEF MapOK
<1> QED
  BY <1>1, <1>2, Zenon

\* So does a recorded claim.
LEMMA ClaimRecordedType ==
    ASSUME MapOK, NEW i \in ItemType
    PROVE  claim_recorded(i) \in [tracked -> CachedType]
<1>1. CASE i.s \notin tracked
  BY <1>1, Zenon DEF claim_recorded, MapOK
<1>2. CASE i.s \in tracked
  <2> DEFINE new == [streams[i.s] EXCEPT !.sui = FALSE, !.usdc = FALSE]
  <2>1. new \in CachedType
    BY <1>2, ZenonT(40) DEF MapOK, CachedType
  <2>2. claim_recorded(i) = [streams EXCEPT ![i.s] = new]
    BY <1>2, Zenon DEF claim_recorded, updateStreamState
  <2> HIDE DEF new
  <2> QED
    BY <2>1, <2>2, Zenon DEF MapOK
<1> QED
  BY <1>1, <1>2, Zenon

\* An item keeps its stream when the indexer takes that off the map.
LEMMA DetachType ==
    ASSUME MapOK, NEW i \in ItemType
    PROVE  detach(i) \in ItemType /\ detach(i).s = i.s
<1>1. CASE i.detached = <<>> /\ i.s \in tracked /\ i.s \notin tracked'
  <2>1. <<streams[i.s]>> \in Seq(CachedType)
    BY <1>1 DEF MapOK
  <2> QED
    BY <1>1, <2>1, Zenon DEF detach, ItemType
<1>2. CASE ~(i.detached = <<>> /\ i.s \in tracked /\ i.s \notin tracked')
  BY <1>2, Zenon DEF detach
<1> QED
  BY <1>1, <1>2, Zenon

\* The map keeps its ids and the file its contents.
Quiet == tracked' = tracked /\ file' = file

\* A step that touches neither indexer nor chain.
LEMMA SameIndexer ==
    ASSUME IndexerInv, UNCHANGED <<chainVars, indexerVars>>
    PROVE  IndexerInv' /\ Quiet
<1>1. ChainTypeOK' /\ \A s \in Streams : Gone(s) => Gone(s)'
  BY Zenon DEF IndexerInv, ChainTypeOK, chainVars, Gone, HoldsCoins, IsOpen, Funded
<1> QED
  BY <1>1, ChainStepInv, Zenon DEF Quiet, indexerVars, tracked

\* A tick starts with the breaches it found.
LEMMA TickStep ==
    ASSUME KeeperInv, NEW t \in Ticks, NEW inBreach, tick(t, inBreach)
    PROVE  KeeperInv' /\ Quiet
<1>1. IndexerInv' /\ Quiet
  BY SameIndexer, Zenon DEF KeeperInv, tick
<1>2. tracked \subseteq Streams /\ tracked' \subseteq Streams
  BY <1>1, Zenon DEF KeeperInv, IndexerInv, MapOK
<1>3. MarksOf(t, autoClaimInFlight, releasing')
  BY MarksOfOthers, Zenon DEF KeeperInv, tick
<1>4. TicksOK' /\ MarksOK'
  BY <1>2, <1>3, BreachesType, HedgeNext, Zenon DEF KeeperInv, tick
<1> QED
  BY <1>1, <1>4, Zenon DEF KeeperInv

\* The transaction of a tick moves on; the tick keeps its item.
LEMMA TxMoves ==
    ASSUME TicksOK, MarksOK, NEW t \in Ticks, ticks[t].tx # "none",
           NEW x \in {"building", "submitted", "executed"},
           ticks' = [ticks EXCEPT ![t].tx = x], UNCHANGED <<autoClaimInFlight, releasing>>
    PROVE  TicksOK' /\ MarksOK'
<1> DEFINE k == [ticks[t] EXCEPT !.tx = x]
<1>1. ticks' = [ticks EXCEPT ![t] = k]
  BY Zenon DEF TicksOK
<1>2. TickOK(k) /\ k.phase = ticks[t].phase /\ k.item = ticks[t].item
  BY Zenon DEF TicksOK, TickOK, TickType
<1>3. MarksOf(t, autoClaimInFlight', releasing')
  BY MarksOfOthers, Zenon
<1>4. ticks[t].phase = "claiming" =>
        /\ ticks[t].item.s \in autoClaimInFlight' \ releasing'
        /\ \A u \in Ticks \ {t} :
             ticks[u].phase = "claiming" => ticks[u].item.s # ticks[t].item.s
  BY Zenon DEF MarksOK
<1> HIDE DEF k
<1> QED
  BY <1>1, <1>2, <1>3, <1>4, TickBecomes, Zenon

\* A transaction is signed and sent.
LEMMA TxSignedStep ==
    ASSUME KeeperInv, NEW t \in Ticks, tx_signed(t)
    PROVE  KeeperInv' /\ Quiet
<1>1. IndexerInv' /\ Quiet
  BY SameIndexer, Zenon DEF KeeperInv, tx_signed
<1>2. TicksOK' /\ MarksOK'
  BY TxMoves, Zenon DEF KeeperInv, tx_signed
<1> QED
  BY <1>1, <1>2, Zenon DEF KeeperInv

\* The chain executes a transaction of the keeper.
LEMMA TxExecutesStep ==
    ASSUME KeeperInv, NEW t \in Ticks, tx_executes(t)
    PROVE  KeeperInv' /\ Quiet
<1>1. ticks[t].item.s \in Streams
  <2>1. TickOK(ticks[t]) /\ ticks[t].tx = "submitted"
    BY Zenon DEF KeeperInv, TicksOK, tx_executes
  <2>2. ticks[t].item \in ItemType
    BY <2>1, Zenon DEF TickOK
  <2> QED
    BY <2>2, Zenon DEF ItemType
<1>2. ChainStep(ticks[t].item.s)
  BY Zenon DEF tx_executes, ChainStep
<1>3. IndexerInv'
  BY <1>1, <1>2, ChainStepType, ChainStepInv, Zenon DEF KeeperInv, IndexerInv, tx_executes
<1>4. TicksOK' /\ MarksOK'
  BY TxMoves, Zenon DEF KeeperInv, tx_executes
<1> QED
  BY <1>3, <1>4, Zenon DEF KeeperInv, Quiet, tx_executes, indexerVars, tracked

\* The answer arrives: the hedge or claim is recorded, a claim's mark is taken
\* away, and the loop goes on.
LEMMA TxAnsweredStep ==
    ASSUME KeeperInv, NEW t \in Ticks, tx_answered(t)
    PROVE  KeeperInv' /\ Quiet
<1> DEFINE i == ticks[t].item
<1>1. TickOK(ticks[t]) /\ ticks[t].tx = "executed" /\ MapOK /\ clock \in Nat
  BY Zenon DEF KeeperInv, TicksOK, tx_answered, IndexerInv, ChainTypeOK
<1>2. i \in ItemType /\ ticks[t].todo \in Seq(ItemType)
  BY <1>1, Zenon DEF TickOK, TickType
<1>3. MarksOf(t, autoClaimInFlight, releasing')
  BY MarksOfOthers, Zenon DEF KeeperInv, tx_answered
<1>4. others_unchanged /\ UNCHANGED releasing
  BY Zenon DEF tx_answered
<1>5. CASE ticks[t].phase = "hedging" /\ streams' = hedge_recorded(i)
           /\ hedge_next(t, ticks[t].todo)
  <2>1. streams' \in [tracked -> CachedType]
    BY <1>1, <1>2, <1>5, HedgeRecordedType, Zenon
  <2>2. DOMAIN streams' = tracked
    BY <2>1, Zenon
  <2>3. IndexerInv' /\ Quiet
    BY <1>4, <2>1, <2>2, Recorded, Zenon DEF KeeperInv, Quiet, others_unchanged, tracked
  <2>4. tracked' \subseteq Streams
    BY <1>1, <2>3, Zenon DEF Quiet, MapOK
  <2>5. TicksOK' /\ MarksOK'
    BY <1>2, <1>3, <1>5, <2>4, HedgeNext, Zenon DEF KeeperInv
  <2> QED
    BY <2>3, <2>5, Zenon DEF KeeperInv
<1>6. CASE ticks[t].phase = "claiming" /\ streams' = claim_recorded(i)
           /\ claim_next(t, ticks[t].todo, autoClaimInFlight \ {i.s})
  <2>1. streams' \in [tracked -> CachedType]
    BY <1>1, <1>2, <1>6, ClaimRecordedType, Zenon
  <2>2. DOMAIN streams' = tracked
    BY <2>1, Zenon
  <2>3. IndexerInv' /\ Quiet
    BY <1>4, <2>1, <2>2, Recorded, Zenon DEF KeeperInv, Quiet, others_unchanged, tracked
  <2>4. MarksOf(t, autoClaimInFlight \ {i.s}, releasing')
    BY <1>3, <1>4, <1>6, Zenon DEF KeeperInv, MarksOK, MarksOf
  <2>5. TicksOK' /\ MarksOK'
    BY <1>2, <1>6, <2>4, ClaimNext, Zenon DEF KeeperInv
  <2> QED
    BY <2>3, <2>5, Zenon DEF KeeperInv
<1> QED
  BY <1>5, <1>6, Zenon DEF tx_answered

\* A transaction fails: a claim's mark gets a timer and the loop goes on.
LEMMA TxFailedStep ==
    ASSUME KeeperInv, NEW t \in Ticks, tx_failed(t)
    PROVE  KeeperInv' /\ Quiet
<1> DEFINE i == ticks[t].item
<1>1. TickOK(ticks[t]) /\ ticks[t].tx # "none" /\ MapOK
  BY Zenon DEF KeeperInv, TicksOK, tx_failed, IndexerInv
<1>2. ticks[t].todo \in Seq(ItemType)
  BY <1>1, Zenon DEF TickOK, TickType
<1>3. MarksOf(t, autoClaimInFlight, releasing)
  BY MarksOfOthers, Zenon DEF KeeperInv
<1>4. UNCHANGED <<chainVars, indexerVars>>
  BY Zenon DEF tx_failed, others_unchanged, indexerVars
<1>5. IndexerInv' /\ Quiet
  BY <1>4, SameIndexer, Zenon DEF KeeperInv
<1>6. tracked' \subseteq Streams
  BY <1>1, <1>5, Zenon DEF Quiet, MapOK
<1>7. CASE ticks[t].phase = "hedging" /\ UNCHANGED releasing /\ hedge_next(t, ticks[t].todo)
  <2>1. TicksOK' /\ MarksOK'
    BY <1>2, <1>3, <1>6, <1>7, HedgeNext, Zenon DEF KeeperInv
  <2> QED
    BY <1>5, <2>1, Zenon DEF KeeperInv
<1>8. CASE ticks[t].phase = "claiming" /\ release_later(i.s)
           /\ claim_next(t, ticks[t].todo, autoClaimInFlight)
  <2>1. MarksOf(t, autoClaimInFlight, releasing')
    BY <1>3, <1>8 DEF KeeperInv, MarksOK, MarksOf, release_later
  <2>2. TicksOK' /\ MarksOK'
    BY <1>2, <1>8, <2>1, ClaimNext, Zenon DEF KeeperInv
  <2> QED
    BY <1>5, <2>2, Zenon DEF KeeperInv
<1> QED
  BY <1>7, <1>8, Zenon DEF tx_failed

\* A timer takes a mark away, never the one of a claim under way.
LEMMA ReleaseStep ==
    ASSUME KeeperInv, NEW s \in Streams, release(s)
    PROVE  KeeperInv' /\ Quiet
<1>1. IndexerInv' /\ Quiet
  BY SameIndexer, Zenon DEF KeeperInv, release
<1>2. TicksOK'
  BY Zenon DEF KeeperInv, TicksOK, release
<1>3. MarksOK'
  BY Zenon DEF KeeperInv, MarksOK, release
<1> QED
  BY <1>1, <1>2, <1>3, Zenon DEF KeeperInv

\* A tick whose list refers to objects that leave the map keeps them.
LEMMA TicksKeepObjects ==
    ASSUME KeeperInv, ticks_keep_objects, UNCHANGED <<autoClaimInFlight, releasing>>
    PROVE  TicksOK' /\ MarksOK'
<1> DEFINE kept(t) == [ticks[t] EXCEPT !.item = detach(@), !.todo = [k \in DOMAIN @ |-> detach(@[k])]]
<1>1. ASSUME NEW t \in Ticks, ticks[t].phase = "hedging"
      PROVE  TickOK(kept(t)) /\ kept(t).phase = "hedging"
  <2>1. TickOK(ticks[t]) /\ MapOK
    BY Zenon DEF KeeperInv, TicksOK, IndexerInv
  <2>2. ticks[t].item \in ItemType /\ ticks[t].todo \in Seq(ItemType)
    BY <1>1, <2>1, Zenon DEF TickOK, TickType
  <2> DEFINE item == detach(ticks[t].item)
             todo == [k \in DOMAIN ticks[t].todo |-> detach(ticks[t].todo[k])]
  <2>3. item \in ItemType
    BY <2>1, <2>2, DetachType, Zenon
  <2>4. todo \in Seq(ItemType)
    <3>1. \A k \in DOMAIN ticks[t].todo : detach(ticks[t].todo[k]) \in ItemType
      BY <2>1, <2>2, DetachType
    <3>2. DOMAIN ticks[t].todo = 1 .. Len(ticks[t].todo) /\ Len(ticks[t].todo) \in Nat
      BY <2>2
    <3> QED
      BY <3>1, <3>2
  <2>5. kept(t) = [ticks[t] EXCEPT !.item = item, !.todo = todo]
    BY Zenon
  <2> HIDE DEF item, todo, kept
  <2> QED
    BY <1>1, <2>1, <2>3, <2>4, <2>5, Zenon DEF TickOK, TickType
<1>2. \A t \in Ticks : ticks'[t] = IF ticks[t].phase = "hedging" THEN kept(t) ELSE ticks[t]
  BY Zenon DEF ticks_keep_objects
<1>3. DOMAIN ticks' = Ticks /\ ticks' = [t \in Ticks |-> ticks'[t]]
  BY Zenon DEF ticks_keep_objects
<1> HIDE DEF kept
<1>4. TicksOK'
  BY <1>1, <1>2, <1>3 DEF KeeperInv, TicksOK, TickOK
<1>5. MarksOK'
  BY <1>1, <1>2, Zenon DEF KeeperInv, MarksOK
<1> QED
  BY <1>4, <1>5, Zenon

\* A crash loses ticks, marks and timers together with the indexer's memory.
LEMMA KeeperCrashStep ==
    ASSUME KeeperInv, KeeperCrash
    PROVE  KeeperInv' /\ proc' = "down"
<1>1. IndexerInv' /\ proc' = "down"
  BY CrashStep, Zenon DEF KeeperInv, KeeperCrash
<1>2. TicksOK'
  BY RestingOK, Zenon DEF KeeperCrash, TicksOK, TickOK
<1>3. MarksOK'
  BY RestingOK, Zenon DEF KeeperCrash, MarksOK
<1> QED
  BY <1>1, <1>2, <1>3, Zenon DEF KeeperInv

\* A step that leaves ids and file alone drops nothing.
LEMMA QuietDropsNothing ==
    ASSUME Quiet
    PROVE  DropsOnlyDrained /\ SavesFunded
BY Zenon DEF Quiet, DropsOnlyDrained, SavesFunded

\* Every step of the keeper beside indexer and chain keeps the invariant and the
\* indexer's action properties.
LEMMA NextKeeperInv ==
    ASSUME KeeperInv, [NextKeeper]_allVars
    PROVE  KeeperInv' /\ DropsOnlyDrained /\ SavesFunded
<1>1. CASE NextChain /\ UNCHANGED <<indexerVars, keeperVars>>
  <2>1. IndexerInv'
    BY <1>1, NextChainType, ChainStepInv, Zenon DEF KeeperInv, IndexerInv
  <2>2. TicksOK' /\ MarksOK'
    BY <1>1, Zenon DEF KeeperInv, TicksOK, MarksOK, keeperVars
  <2>3. Quiet
    BY <1>1, Zenon DEF Quiet, indexerVars, tracked
  <2> QED
    BY <2>1, <2>2, <2>3, QuietDropsNothing, Zenon DEF KeeperInv
<1>2. CASE /\ IndexerStep
           /\ ticks_keep_objects
           /\ UNCHANGED <<chainVars, autoClaimInFlight, releasing>>
  <2>1. IndexerInv' /\ MapStep /\ FileStep
    BY <1>2, IndexerStepInv, Zenon DEF KeeperInv
  <2>2. TicksOK' /\ MarksOK'
    BY <1>2, TicksKeepObjects, Zenon
  <2>3. proc = "down" => file' = file
    BY <1>2, DownKeepsFile, Zenon DEF KeeperInv
  <2>4. DropsOnlyDrained /\ SavesFunded
    BY <2>1, <2>3, StepDropsOnlyDrained, StepSavesFunded, Zenon DEF KeeperInv, IndexerInv
  <2> QED
    BY <2>1, <2>2, <2>4, Zenon DEF KeeperInv
<1>3. CASE KeeperCrash
  BY <1>3, KeeperCrashStep, Zenon DEF DropsOnlyDrained, SavesFunded
<1>4. CASE \E t \in Ticks : tick_step(t)
  BY <1>4, TickStep, TxSignedStep, TxExecutesStep, TxAnsweredStep, TxFailedStep,
     QuietDropsNothing, Zenon DEF tick_step
<1>5. CASE \E s \in Streams : release(s)
  BY <1>5, ReleaseStep, QuietDropsNothing, Zenon
<1>6. CASE UNCHANGED allVars
  <2>1. IndexerInv' /\ Quiet
    BY <1>6, SameIndexer, Zenon DEF KeeperInv, allVars
  <2>2. TicksOK' /\ MarksOK'
    BY <1>6, Zenon DEF KeeperInv, TicksOK, MarksOK, allVars, keeperVars
  <2> QED
    BY <2>1, <2>2, QuietDropsNothing, Zenon DEF KeeperInv
<1> QED
  BY <1>1, <1>2, <1>3, <1>4, <1>5, <1>6, Zenon DEF NextKeeper

----------------------------------------------------------------------------
(* Theorems about the keeper *)

\* The invariant holds before the first start.
LEMMA InitKeeperInv ==
    InitKeeper => KeeperInv
<1> SUFFICES ASSUME InitKeeper PROVE KeeperInv
  BY Zenon
<1>1. IndexerInv
  BY InitIndexerInv, Zenon DEF InitKeeper
<1>2. TicksOK
  BY RestingOK, Zenon DEF InitKeeper, TicksOK, TickOK
<1>3. MarksOK
  BY RestingOK, Zenon DEF InitKeeper, MarksOK
<1> QED
  BY <1>1, <1>2, <1>3, Zenon DEF KeeperInv

\* The inductive invariant of the keeper.
THEOREM KeeperInvariant == SpecKeeper => []KeeperInv
<1>1. KeeperInv /\ [NextKeeper]_allVars => KeeperInv'
  BY NextKeeperInv, Zenon
<1> QED
  BY InitKeeperInv, <1>1, PTL DEF SpecKeeper

\* A tick has a transaction under way exactly while it works on an item, and every
\* release timer belongs to a mark.
THEOREM KeeperIsTyped == SpecKeeper => []TypeOKKeeper
<1>1. KeeperInv => TypeOKKeeper
  BY IndexerInvTypes, Zenon DEF KeeperInv, TicksOK, TickOK, TickType, MarksOK, TypeOKKeeper
<1> QED
  BY KeeperInvariant, <1>1, PTL

\* Overlapping ticks never have two auto-claims of one stream under way, and a stream
\* under way is marked, with no timer that takes the mark away.
THEOREM ClaimsAreExclusive == SpecKeeper => []OneClaimAtATime
<1>1. ASSUME KeeperInv, NEW s \in Streams
      PROVE  /\ Cardinality({t \in Ticks : claims(t, s)}) <= 1
             /\ (\E t \in Ticks : claims(t, s)) => s \in autoClaimInFlight /\ s \notin releasing
  <2> DEFINE T == {t \in Ticks : claims(t, s)}
  <2>1. \A t, u \in T : t = u
    BY <1>1, Zenon DEF KeeperInv, MarksOK, claims
  <2>2. T = {} \/ \E t : T = {t}
    BY <2>1, Zenon
  <2>3. Cardinality(T) <= 1
    <3> HIDE DEF T
    <3>1. CASE T = {}
      BY <3>1, FS_EmptySet
    <3>2. CASE \E t : T = {t}
      BY <3>2, FS_Singleton
    <3> QED
      BY <2>2, <3>1, <3>2, Zenon
  <2>4. (\E t \in Ticks : claims(t, s)) => s \in autoClaimInFlight /\ s \notin releasing
    BY <1>1, Zenon DEF KeeperInv, MarksOK, claims
  <2> QED
    BY <2>3, <2>4, Zenon
<1>2. KeeperInv => OneClaimAtATime
  BY <1>1, Zenon DEF OneClaimAtATime
<1> QED
  BY KeeperInvariant, <1>2, PTL

\* With the keeper's own updates of the cache, and its ticks beside the refreshes, a
\* running keeper still stops tracking only streams without coins.
THEOREM KeeperDropsOnlyDrained == SpecKeeper => TrackedUntilDrained
<1>1. KeeperInv /\ [NextKeeper]_allVars => [DropsOnlyDrained]_vars
  BY NextKeeperInv, Zenon
<1> QED
  BY KeeperInvariant, <1>1, PTL DEF SpecKeeper, TrackedUntilDrained, DropsOnlyDrained

\* Nor does a save forget a stream with coins because of what ticks wrote to the cache.
THEOREM KeeperSavesFunded == SpecKeeper => FileKeepsFunded
<1>1. KeeperInv /\ [NextKeeper]_allVars => [SavesFunded]_vars
  BY NextKeeperInv, Zenon
<1> QED
  BY KeeperInvariant, <1>1, PTL DEF SpecKeeper, FileKeepsFunded, SavesFunded

=============================================================================
