--------------------------- MODULE IndexerProofs ---------------------------
(***************************************************************************)
(* Proofs about the indexer, for any number of streams, refreshes,         *)
(* registrations and crashes, and any size of a batch.                     *)
(***************************************************************************)
EXTENDS Indexer, TLAPS, FiniteSetTheorems

----------------------------------------------------------------------------
(* The inductive invariant of the indexer *)

ObjectType ==
    [state : {"absent", "open", "deleted"}, hedged : BOOLEAN, status : Statuses,
     tranches_executed : Nat, twap_tranches : Nat, twap_interval_ms : Nat,
     last_tranche_timestamp : Nat, end_time : Nat,
     settled : BOOLEAN, sui : BOOLEAN, usdc : BOOLEAN]

ChainTypeOK ==
    /\ clock \in Nat
    /\ object \in [Streams -> ObjectType]

\* The stream was created and has no coins: it never has any again.
Gone(s) == object[s].state # "absent" /\ ~HoldsCoins(s)

RefreshOK(c, p) ==
    /\ c = [phase |-> c.phase, todo |-> c.todo, snap |-> c.snap]
    /\ c.phase \in {"idle", "booting", "discovering", "reading", "applying"}
    /\ c.todo \in Seq(Streams)
    /\ DOMAIN c.snap \subseteq Streams
    /\ c.snap \in [DOMAIN c.snap -> ObjectType]
    /\ c.phase # "idle" => p # "down"
    /\ \A s \in DOMAIN c.snap : drained(c.snap[s]) => Gone(s)

RegisteringOK(s, g, p) ==
    /\ g \in [phase : {"none", "reading", "applying"}, snap : ObjectType]
    /\ g.phase # "none" => p = "running"
    /\ drained(g.snap) => Gone(s)

MapOK ==
    /\ proc \in {"down", "starting", "running"}
    /\ tracked \subseteq Streams
    /\ streams \in [tracked -> CachedType]
    /\ order \in Orders(tracked)
    /\ proc = "down" => tracked = {}

FileOK ==
    /\ file \subseteq Streams
    /\ proc # "down" => \A s \in file : s \in tracked \/ Gone(s)

TasksOK ==
    /\ refresh = [r \in Refreshers |-> refresh[r]]
    /\ \A r \in Refreshers : RefreshOK(refresh[r], proc)
    /\ registering = [s \in ApiIds |-> registering[s]]
    /\ \A s \in ApiIds : RegisteringOK(s, registering[s], proc)

IndexerInv == ChainTypeOK /\ MapOK /\ FileOK /\ TasksOK

----------------------------------------------------------------------------
(* The chain *)

\* No object exists at the start.
LEMMA InitChainType ==
    InitChain => ChainTypeOK
BY DEF InitChain, ChainTypeOK, ObjectType, NoObject, Statuses

\* A step that changes one object keeps the chain typed, and a drained stream
\* stays drained if that one does.
LEMMA ObjectBecomes ==
    ASSUME ChainTypeOK, NEW s \in Streams, NEW o \in ObjectType,
           object' = [object EXCEPT ![s] = o], UNCHANGED clock,
           Gone(s) => o.state # "absent" /\ ~(o.state = "open" /\ (o.sui \/ o.usdc))
    PROVE  /\ ChainTypeOK'
           /\ \A u \in Streams : Gone(u) => Gone(u)'
BY Zenon DEF ChainTypeOK, Gone, HoldsCoins, IsOpen, Funded

\* No transaction funds a stream again: once drained or deleted it stays so.
LEMMA ChainStepType ==
    ASSUME ChainTypeOK, NEW s \in Streams, ChainStep(s)
    PROVE  /\ ChainTypeOK'
           /\ \A u \in Streams : Gone(u) => Gone(u)'
<1>0. object[s] \in ObjectType /\ clock \in Nat
  BY Zenon DEF ChainTypeOK
<1>1. CASE Create(s)
  <2>1. PICK t \in Terms :
          object' = [object EXCEPT ![s] =
            [NoObject EXCEPT !.state = "open", !.sui = TRUE, !.hedged = t.hedged,
                             !.twap_tranches = t.twap_tranches,
                             !.twap_interval_ms = t.twap_interval_ms,
                             !.end_time = t.end_time]]
    BY <1>1, Zenon DEF Create
  <2> DEFINE o == [NoObject EXCEPT !.state = "open", !.sui = TRUE, !.hedged = t.hedged,
                             !.twap_tranches = t.twap_tranches,
                             !.twap_interval_ms = t.twap_interval_ms,
                             !.end_time = t.end_time]
  <2>2. o \in ObjectType
    BY IndexerAssumption, Zenon DEF NoObject, ObjectType, Statuses
  <2>3. ~Gone(s) /\ UNCHANGED clock
    BY <1>1, Zenon DEF Create, Gone
  <2> HIDE DEF o
  <2> QED
    BY <2>1, <2>2, <2>3, ObjectBecomes, Zenon DEF o
<1>2. CASE SellTranche(s)
  <2>1. PICK sui \in BOOLEAN, usdc \in BOOLEAN :
          /\ sui => object[s].sui
          /\ usdc => Funded(s)
          /\ object' = [object EXCEPT ![s] = AfterTranche(object[s], sui, usdc)]
    BY <1>2, Zenon DEF SellTranche
  <2> DEFINE o == AfterTranche(object[s], sui, usdc)
  <2> DEFINE st == IF object[s].tranches_executed + 1 >= object[s].twap_tranches \/ ~sui
                   THEN "FULLY_HEDGED" ELSE "TWAP_ACTIVE"
  <2>a. st \in Statuses
    BY Zenon DEF Statuses
  <2>b. object[s].tranches_executed + 1 \in Nat
    BY <1>0 DEF ObjectType
  <2>c. o = [object[s] EXCEPT !.tranches_executed = object[s].tranches_executed + 1,
              !.last_tranche_timestamp = clock, !.sui = sui, !.usdc = usdc, !.status = st]
    BY Zenon DEF AfterTranche
  <2>2. o \in ObjectType /\ o.sui = sui /\ o.usdc = usdc /\ o.state = object[s].state
    <3> HIDE DEF st, o
    <3>1. o \in ObjectType
      BY <1>0, <2>a, <2>b, <2>c, Zenon DEF ObjectType
    <3>2. o.sui = sui /\ o.usdc = usdc /\ o.state = object[s].state
      BY <1>0, <2>c, Zenon DEF ObjectType
    <3> QED BY <3>1, <3>2, Zenon
  <2>3. UNCHANGED clock /\ IsOpen(s)
    BY <1>2, Zenon DEF SellTranche
  <2>4. ~Gone(s) \/ ~(o.sui \/ o.usdc)
    BY <2>1, <2>2, <2>3, Zenon DEF Gone, HoldsCoins, Funded
  <2>5. o.state = "open"
    BY <2>2, <2>3, Zenon DEF IsOpen
  <2> HIDE DEF o
  <2> QED
    BY <2>1, <2>2, <2>3, <2>4, <2>5, ObjectBecomes, Zenon DEF o
<1>3. CASE Claim(s)
  <2> DEFINE last == clock >= object[s].end_time
  <2>1. PICK sui \in BOOLEAN, usdc \in BOOLEAN :
          /\ sui => object[s].sui
          /\ usdc => object[s].usdc
          /\ object' = [object EXCEPT ![s] = [object[s] EXCEPT
                          !.settled = last, !.sui = sui, !.usdc = usdc]]
    BY <1>3, Zenon DEF Claim
  <2> DEFINE o == [object[s] EXCEPT !.settled = last, !.sui = sui, !.usdc = usdc]
  <2>a. last \in BOOLEAN
    OBVIOUS
  <2>2. o \in ObjectType /\ o.sui = sui /\ o.usdc = usdc /\ o.state = object[s].state
    <3> HIDE DEF last
    <3>1. o \in ObjectType
      BY <1>0, <2>a, Zenon DEF ObjectType
    <3>2. o.sui = sui /\ o.usdc = usdc /\ o.state = object[s].state
      BY <1>0, Zenon DEF ObjectType
    <3> QED BY <3>1, <3>2, Zenon
  <2>3. UNCHANGED clock /\ IsOpen(s)
    BY <1>3, Zenon DEF Claim
  <2>4. o.state = "open" /\ (~Gone(s) \/ ~(o.sui \/ o.usdc))
    BY <2>1, <2>2, <2>3, Zenon DEF Gone, HoldsCoins, Funded, IsOpen
  <2>5. object' = [object EXCEPT ![s] = o]
    BY <2>1, Zenon
  <2> HIDE DEF o
  <2> QED
    BY <2>2, <2>3, <2>4, <2>5, ObjectBecomes, Zenon
<1>4. CASE Cancel(s)
  <2>1. Deleted \in ObjectType /\ Deleted.state = "deleted"
    BY Zenon DEF Deleted, NoObject, ObjectType, Statuses
  <2> QED
    BY <1>4, <2>1, ObjectBecomes, Zenon DEF Cancel
<1> QED
  BY <1>1, <1>2, <1>3, <1>4, Zenon DEF ChainStep, Initiate, NextTranche

\* The same for every step of the chain, the clock included.
LEMMA NextChainType ==
    ASSUME ChainTypeOK, NextChain
    PROVE  /\ ChainTypeOK'
           /\ \A u \in Streams : Gone(u) => Gone(u)'
<1>1. CASE TickChain
  BY <1>1 DEF TickChain, ChainTypeOK, Gone, HoldsCoins, IsOpen, Funded
<1>2. CASE \E s \in Streams : ChainStep(s)
  BY <1>2, ChainStepType, Zenon
<1> QED
  BY <1>1, <1>2, Zenon DEF NextChain

----------------------------------------------------------------------------
(* The operators of the indexer *)

\* An iteration order of a map lists ids of the map.
LEMMA OrdersType ==
    ASSUME NEW S, S \subseteq Streams, NEW q \in Orders(S)
    PROVE  /\ q \in Seq(Streams)
           /\ q \in Seq(S)
<1>1. IsFiniteSet(S)
  BY IndexerAssumption, FS_Subset, Zenon
<1>2. Cardinality(S) \in Nat
  BY <1>1, FS_CardinalityType, Zenon
<1>3. q \in [1 .. Cardinality(S) -> S]
  BY Zenon DEF Orders, Injection, IsInjective
<1> QED
  BY <1>2, <1>3

\* The empty map has the empty order.
LEMMA EmptyOrder ==
    <<>> \in Orders({})
<1>1. Cardinality({}) = 0
  BY FS_EmptySet, Zenon
<1>2. <<>> \in [1 .. 0 -> {}]
  OBVIOUS
<1> QED
  BY <1>1, <1>2, Zenon DEF Orders, Injection, IsInjective

\* The map that a new process starts with.
LEMMA EmptyType ==
    /\ Empty \in [{} -> CachedType]
    /\ DOMAIN Empty = {}
BY Zenon DEF Empty

\* hydrate makes a cached state of every object.
LEMMA HydrateType ==
    ASSUME NEW o \in ObjectType
    PROVE  hydrate(o) \in CachedType
BY Zenon DEF hydrate, CachedFields, emptyStreamState, CachedType, ObjectType

\* The placeholder of a discovered id is a cached state.
LEMMA EmptyStateType ==
    emptyStreamState \in CachedType
BY Zenon DEF emptyStreamState, CachedType, Statuses

\* A snapshot of an absent object never counts as drained.
LEMMA NoObjectType ==
    NoObject \in ObjectType /\ ~drained(NoObject)
BY Zenon DEF NoObject, ObjectType, Statuses, drained

\* A chunk is made of ids that were to be read, and nothing is known of them yet.
LEMMA ReadingType ==
    ASSUME NEW todo \in Seq(Streams)
    PROVE  LET c == Reading(todo)
           IN  /\ c = [phase |-> "reading", todo |-> c.todo, snap |-> c.snap]
               /\ c.todo \in Seq(Streams)
               /\ DOMAIN c.snap \subseteq Streams
               /\ c.snap = [s \in DOMAIN c.snap |-> NoObject]
<1>1. BATCH \in Nat /\ Len(todo) \in Nat /\ DOMAIN todo = 1 .. Len(todo)
  BY IndexerAssumption
<1>2. SubSeq(todo, BATCH + 1, Len(todo)) \in Seq(Streams)
  BY <1>1
<1>3. {todo[k] : k \in {j \in DOMAIN todo : j <= BATCH}} \subseteq Streams
  BY <1>1
<1> QED
  BY <1>2, <1>3, Zenon DEF Reading

\* Placeholders add the discovered ids to the map and change no other entry's type.
LEMMA PlaceholdersType ==
    ASSUME NEW D, D \subseteq Streams, NEW map \in [D -> CachedType],
           NEW ids, ids \subseteq Streams
    PROVE  LET new == with_placeholders(map, ids)
           IN  /\ DOMAIN new = D \cup ids
               /\ new \in [D \cup ids -> CachedType]
BY EmptyStateType, Zenon DEF with_placeholders

\* An answer takes only drained streams off the map.
LEMMA AfterBatchType ==
    ASSUME MapOK, NEW snap, snap \in [DOMAIN snap -> ObjectType]
    PROVE  LET new == after_batch(snap)
           IN  /\ DOMAIN new \subseteq tracked
               /\ new \in [DOMAIN new -> CachedType]
               /\ \A s \in tracked \ DOMAIN new : s \in DOMAIN snap /\ drained(snap[s])
<1> DEFINE kept == {t \in tracked : t \in DOMAIN snap => ~drained(snap[t])}
<1>1. ASSUME NEW s \in kept
      PROVE  (IF s \in DOMAIN snap /\ snap[s].state = "open" THEN hydrate(snap[s])
              ELSE streams[s]) \in CachedType
  BY HydrateType, Zenon DEF MapOK
<1> QED
  BY <1>1, Zenon DEF after_batch

----------------------------------------------------------------------------
(* The steps of the indexer preserve its invariant, and drop only what is gone *)

\* What a step leaves in the map and in the file.
MapStep ==
    /\ tracked' \subseteq Streams
    /\ streams' \in [tracked' -> CachedType]
    /\ order' \in Orders(tracked')
    /\ \A s \in tracked : s \in tracked' \/ Gone(s)

FileStep == file' = file \/ file' = tracked'

\* Writing a map that misses only drained streams is a step the map may take.
LEMMA SetStreams ==
    ASSUME NEW map, DOMAIN map \subseteq Streams, map \in [DOMAIN map -> CachedType],
           \A s \in tracked : s \in DOMAIN map \/ Gone(s), set_streams(map)
    PROVE  MapStep
BY Zenon DEF set_streams, MapStep, InOrder, tracked

\* So is leaving the map alone.
LEMMA MapUnchanged ==
    ASSUME MapOK, UNCHANGED <<streams, order>>
    PROVE  MapStep
BY Zenon DEF MapOK, MapStep, tracked

\* The file that a step saves holds nothing but tracked or drained ids.
LEMMA FileStepOK ==
    ASSUME MapOK, FileOK, MapStep, FileStep, UNCHANGED chainVars, proc # "down" \/ file' \subseteq tracked'
    PROVE  FileOK'
BY Zenon DEF MapOK, FileOK, MapStep, FileStep, chainVars, Gone, HoldsCoins, IsOpen, Funded

\* A step of one refresh keeps what is known of all tasks, if it keeps what is
\* known of that refresh.
LEMMA RefreshBecomes ==
    ASSUME TasksOK, UNCHANGED chainVars, UNCHANGED registering,
           proc # "down" => proc' # "down", proc = "running" => proc' = "running",
           NEW r \in Refreshers, NEW c, refresh' = [refresh EXCEPT ![r] = c], RefreshOK(c, proc')
    PROVE  TasksOK'
BY ZenonT(40) DEF TasksOK, RefreshOK, RegisteringOK, chainVars, Gone, HoldsCoins, IsOpen, Funded

\* A step of one registration, likewise.
LEMMA RegisteringBecomes ==
    ASSUME TasksOK, UNCHANGED chainVars, UNCHANGED <<refresh, proc>>,
           NEW s \in ApiIds, NEW g, registering' = [registering EXCEPT ![s] = g],
           RegisteringOK(s, g, proc')
    PROVE  TasksOK'
BY DEF TasksOK, RefreshOK, RegisteringOK, chainVars, Gone, HoldsCoins, IsOpen, Funded

\* A finished refresh and a finished registration know nothing.
LEMMA IdleOK ==
    \A p : RefreshOK(Idle, p) /\ \A s : RegisteringOK(s, NotRegistering, p)
BY NoObjectType DEF RefreshOK, Idle, RegisteringOK, NotRegistering

\* A refresh goes on with its next chunk, or saves the ids and ends.
LEMMA ContinueRefresh ==
    ASSUME IndexerInv, MapStep, UNCHANGED chainVars, UNCHANGED registering,
           NEW r \in Refreshers, refresh[r].phase # "idle",
           NEW todo \in Seq(Streams), continue_refresh(r, todo)
    PROVE  IndexerInv' /\ FileStep
<1>1. proc # "down"
  BY Zenon DEF IndexerInv, TasksOK, RefreshOK
<1>2. CASE todo # <<>> /\ refresh' = [refresh EXCEPT ![r] = Reading(todo)]
           /\ UNCHANGED <<proc, file>>
  <2>1. RefreshOK(Reading(todo), proc')
    <3> DEFINE c == Reading(todo)
    <3>1. /\ c = [phase |-> "reading", todo |-> c.todo, snap |-> c.snap]
          /\ c.todo \in Seq(Streams)
          /\ DOMAIN c.snap \subseteq Streams
          /\ c.snap = [s \in DOMAIN c.snap |-> NoObject]
      BY ReadingType, Zenon
    <3> HIDE DEF c
    <3>2. c.phase = "reading"
      BY <3>1
    <3>3. /\ c.snap \in [DOMAIN c.snap -> ObjectType]
          /\ \A s \in DOMAIN c.snap : ~drained(c.snap[s])
      BY <3>1, NoObjectType, Zenon
    <3>4. RefreshOK(c, proc')
      BY <1>1, <1>2, <3>1, <3>2, <3>3, Zenon DEF RefreshOK
    <3> QED
      BY <3>4, Zenon DEF c
  <2>2. TasksOK'
    BY <1>2, <2>1, RefreshBecomes, Zenon DEF IndexerInv
  <2>3. FileStep /\ FileOK'
    BY <1>1, <1>2, FileStepOK, Zenon DEF IndexerInv, FileStep
  <2> QED
    BY <1>1, <1>2, <2>2, <2>3, Zenon DEF IndexerInv, MapOK, MapStep, ChainTypeOK, chainVars, tracked
<1>3. CASE todo = <<>> /\ persistRegistry(streams') /\ refresh' = [refresh EXCEPT ![r] = Idle]
           /\ proc' = "running"
  <2>1. FileStep
    BY <1>3, Zenon DEF persistRegistry, FileStep, tracked
  <2>2. FileOK'
    BY <1>1, <2>1, FileStepOK, Zenon DEF IndexerInv
  <2>3. TasksOK'
    BY <1>3, IdleOK, RefreshBecomes, Zenon DEF IndexerInv
  <2> QED
    BY <1>3, <2>1, <2>2, <2>3, Zenon DEF IndexerInv, MapOK, MapStep, ChainTypeOK, chainVars, tracked
<1> QED
  BY <1>2, <1>3, Zenon DEF continue_refresh

\* The start of the process: the saved ids become placeholders.
LEMMA BootStep ==
    ASSUME IndexerInv, UNCHANGED chainVars, NEW r \in Refreshers, Boot(r)
    PROVE  IndexerInv' /\ MapStep /\ FileStep
<1> DEFINE c == [Idle EXCEPT !.phase = "booting"]
<1>1. MapStep /\ file \subseteq tracked'
  <2>1. /\ DOMAIN load_registry = file
        /\ load_registry \in [file -> CachedType]
    <3>1. file \subseteq Streams
      BY Zenon DEF IndexerInv, FileOK
    <3>2. LET new == with_placeholders(Empty, file)
          IN  DOMAIN new = {} \cup file /\ new \in [{} \cup file -> CachedType]
      BY <3>1, EmptyType, PlaceholdersType, Zenon
    <3> QED
      BY <3>2, Zenon DEF load_registry
  <2> QED
    BY <2>1, SetStreams, Zenon DEF Boot, IndexerInv, MapOK, FileOK, tracked, set_streams
<1>2. FileStep /\ FileOK'
  BY <1>1, FileStepOK, Zenon DEF IndexerInv, FileStep, Boot
<1>3. RefreshOK(c, proc')
  BY DEF RefreshOK, Idle, Boot
<1>4. TasksOK'
  BY <1>3, RefreshBecomes, Zenon DEF IndexerInv, Boot
<1> QED
  BY <1>1, <1>2, <1>4, Zenon DEF IndexerInv, MapOK, MapStep, ChainTypeOK, chainVars, Boot, tracked

\* refreshAll starts.
LEMMA RefreshAllStep ==
    ASSUME IndexerInv, UNCHANGED chainVars, NEW r \in Refreshers, refreshAll(r)
    PROVE  IndexerInv' /\ MapStep /\ FileStep
<1>1. RefreshOK([Idle EXCEPT !.phase = "discovering"], proc')
  BY DEF RefreshOK, Idle, refreshAll
<1>2. TasksOK'
  BY <1>1, RefreshBecomes, Zenon DEF IndexerInv, refreshAll
<1>3. MapStep /\ FileStep
  BY MapUnchanged, Zenon DEF IndexerInv, refreshAll, FileStep
<1>4. FileOK'
  BY <1>3, FileStepOK, Zenon DEF IndexerInv, refreshAll
<1> QED
  BY <1>2, <1>3, <1>4, Zenon DEF IndexerInv, MapOK, ChainTypeOK, chainVars, refreshAll, tracked

\* The discovery ends: new ids get placeholders, all tracked ids are to be read.
LEMMA DiscoveredStep ==
    ASSUME IndexerInv, UNCHANGED chainVars, NEW r \in Refreshers,
           NEW found \in SUBSET created, discovered(r, found)
    PROVE  IndexerInv' /\ MapStep /\ FileStep
<1>1. MapStep
  <2>1. found \subseteq Streams
    BY Zenon DEF created
  <2> DEFINE new == with_placeholders(streams, found)
  <2>2. DOMAIN new = tracked \cup found /\ new \in [tracked \cup found -> CachedType]
    BY <2>1, PlaceholdersType, Zenon DEF IndexerInv, MapOK
  <2> HIDE DEF new
  <2>3. set_streams(new)
    BY Zenon DEF discovered, new
  <2> QED
    BY <2>1, <2>2, <2>3, SetStreams, Zenon DEF IndexerInv, MapOK
<1>2. CASE refresh[r].phase = "booting" /\ UNCHANGED <<proc, file>>
           /\ refresh' = [refresh EXCEPT ![r].phase = "discovering"]
  <2> DEFINE c == [refresh[r] EXCEPT !.phase = "discovering"]
  <2>0. RefreshOK(refresh[r], proc) /\ refresh' = [refresh EXCEPT ![r] = c]
    BY <1>2, Zenon DEF IndexerInv, TasksOK
  <2>1. c = [phase |-> "discovering", todo |-> refresh[r].todo, snap |-> refresh[r].snap]
    BY <2>0 DEF RefreshOK
  <2> HIDE DEF c
  <2>2. RefreshOK(c, proc')
    BY <1>2, <2>0, <2>1, Zenon DEF RefreshOK
  <2>3. TasksOK'
    BY <1>2, <2>0, <2>2, RefreshBecomes, Zenon DEF IndexerInv, discovered
  <2>4. proc # "down" /\ FileStep /\ FileOK'
    BY <1>1, <1>2, <2>0, FileStepOK, Zenon DEF IndexerInv, FileStep, RefreshOK
  <2> QED
    BY <1>1, <1>2, <2>3, <2>4, Zenon DEF IndexerInv, MapOK, MapStep, ChainTypeOK, chainVars, tracked
<1>3. CASE refresh[r].phase = "discovering" /\ continue_refresh(r, order')
  <2>1. order' \in Seq(Streams)
    BY <1>1, OrdersType, Zenon DEF MapStep
  <2> QED
    BY <1>1, <1>3, <2>1, ContinueRefresh, Zenon DEF discovered
<1> QED
  BY <1>2, <1>3, Zenon DEF discovered

\* The chain answers a chunk: what the answer shows drained is drained for good,
\* so the answer may be applied however late.
LEMMA ReadBatchStep ==
    ASSUME IndexerInv, UNCHANGED chainVars, NEW r \in Refreshers, read_batch(r)
    PROVE  IndexerInv' /\ MapStep /\ FileStep
<1> DEFINE b == refresh[r]
           now == [s \in DOMAIN b.snap |-> object[s]]
           c == [phase |-> "applying", todo |-> b.todo, snap |-> now]
<1>1. RefreshOK(b, proc) /\ b.phase = "reading"
  BY Zenon DEF IndexerInv, TasksOK, read_batch
<1>2. refresh' = [refresh EXCEPT ![r] = c]
  BY Zenon DEF read_batch
<1>3. RefreshOK(c, proc')
  <2>1. /\ c = [phase |-> c.phase, todo |-> c.todo, snap |-> c.snap]
        /\ c.phase = "applying"
        /\ c.todo = b.todo
        /\ c.snap = now
    BY Zenon
  <2>2. /\ DOMAIN now = DOMAIN b.snap
        /\ DOMAIN now \subseteq Streams
        /\ \A s \in DOMAIN now : now[s] = object[s] /\ now[s] \in ObjectType
    BY <1>1, Zenon DEF RefreshOK, IndexerInv, ChainTypeOK
  <2>3. now \in [DOMAIN now -> ObjectType]
    BY <2>2, Zenon
  <2>4. \A s \in DOMAIN now : drained(now[s]) => Gone(s)
    BY <2>2, Zenon DEF drained, Gone, HoldsCoins, IsOpen, Funded
  <2> HIDE DEF now, c, b
  <2> QED
    BY <1>1, <2>1, <2>2, <2>3, <2>4, Zenon DEF RefreshOK, read_batch
<1>4. TasksOK'
  <2> HIDE DEF c
  <2> QED
    BY <1>2, <1>3, RefreshBecomes, Zenon DEF IndexerInv, read_batch
<1>5. MapStep /\ FileStep
  BY MapUnchanged, Zenon DEF IndexerInv, read_batch, FileStep
<1>6. proc # "down"
  BY <1>1, Zenon DEF RefreshOK
<1>7. FileOK'
  BY <1>5, <1>6, FileStepOK, Zenon DEF IndexerInv
<1> QED
  BY <1>4, <1>5, <1>7, Zenon DEF IndexerInv, MapOK, ChainTypeOK, chainVars, read_batch, tracked

\* The answer is applied: only streams it shows drained leave the map.
LEMMA ApplyBatchStep ==
    ASSUME IndexerInv, UNCHANGED chainVars, NEW r \in Refreshers, apply_batch(r)
    PROVE  IndexerInv' /\ MapStep /\ FileStep
<1> DEFINE snap == refresh[r].snap
           new == after_batch(snap)
<1>1. RefreshOK(refresh[r], proc) /\ MapOK
  BY Zenon DEF IndexerInv, TasksOK
<1>2. snap \in [DOMAIN snap -> ObjectType] /\ \A s \in DOMAIN snap : drained(snap[s]) => Gone(s)
  BY <1>1, Zenon DEF RefreshOK
<1>3. /\ DOMAIN new \subseteq tracked
      /\ new \in [DOMAIN new -> CachedType]
      /\ \A s \in tracked \ DOMAIN new : s \in DOMAIN snap /\ drained(snap[s])
  <2> HIDE DEF snap
  <2> QED
    BY <1>1, <1>2, AfterBatchType, Zenon
<1>4. set_streams(new) /\ continue_refresh(r, refresh[r].todo) /\ UNCHANGED registering
      /\ refresh[r].phase = "applying"
  BY Zenon DEF apply_batch
<1> HIDE DEF new, snap
<1>5. MapStep
  BY <1>1, <1>2, <1>3, <1>4, SetStreams, Zenon DEF MapOK
<1>6. refresh[r].todo \in Seq(Streams)
  BY <1>1, Zenon DEF RefreshOK
<1> QED
  BY <1>4, <1>5, <1>6, ContinueRefresh, Zenon

\* A chunk fails: the map stays, the refresh goes on.
LEMMA BatchFailsStep ==
    ASSUME IndexerInv, UNCHANGED chainVars, NEW r \in Refreshers, batch_fails(r)
    PROVE  IndexerInv' /\ MapStep /\ FileStep
<1>1. refresh[r].todo \in Seq(Streams)
  BY Zenon DEF IndexerInv, TasksOK, RefreshOK
<1>2. MapStep
  BY MapUnchanged, Zenon DEF IndexerInv, batch_fails
<1> QED
  BY <1>1, <1>2, ContinueRefresh, Zenon DEF batch_fails

\* registerStream starts: an unknown id gets a placeholder and is saved.
LEMMA RegisterStreamStep ==
    ASSUME IndexerInv, UNCHANGED chainVars, NEW s \in ApiIds, registerStream(s)
    PROVE  IndexerInv' /\ MapStep /\ FileStep
<1>0. proc = "running" /\ UNCHANGED <<proc, refresh>> /\ s \in Streams
  BY IndexerAssumption, Zenon DEF registerStream
<1>1. CASE UNCHANGED <<streams, order, file, registering>>
  <2>1. MapStep /\ FileStep
    BY <1>1, MapUnchanged, Zenon DEF IndexerInv, FileStep
  <2>2. FileOK'
    BY <1>0, <2>1, FileStepOK, Zenon DEF IndexerInv
  <2>3. TasksOK'
    BY <1>0, <1>1, Zenon DEF IndexerInv, TasksOK, RefreshOK, RegisteringOK, chainVars, Gone,
                      HoldsCoins, IsOpen, Funded
  <2> QED
    BY <1>0, <1>1, <2>1, <2>2, <2>3, Zenon DEF IndexerInv, MapOK, ChainTypeOK, chainVars, tracked
<1>2. CASE /\ set_streams(with_placeholders(streams, {s}))
           /\ persistRegistry(streams')
           /\ registering' = [registering EXCEPT ![s].phase = "reading"]
  <2> DEFINE new == with_placeholders(streams, {s})
             g == [registering[s] EXCEPT !.phase = "reading"]
  <2>1. DOMAIN new = tracked \cup {s} /\ new \in [tracked \cup {s} -> CachedType]
    BY <1>0, PlaceholdersType, ZenonT(40) DEF IndexerInv, MapOK
  <2>2. MapStep
    <3> HIDE DEF new
    <3>1. set_streams(new)
      BY <1>2, Zenon DEF new
    <3> QED
      BY <1>0, <2>1, <3>1, SetStreams, Zenon DEF IndexerInv, MapOK
  <2>3. FileStep
    BY <1>2, Zenon DEF persistRegistry, FileStep, tracked
  <2>4. FileOK'
    BY <1>0, <2>2, <2>3, FileStepOK, Zenon DEF IndexerInv
  <2>5. RegisteringOK(s, registering[s], proc) /\ registering' = [registering EXCEPT ![s] = g]
    BY <1>2, Zenon DEF IndexerInv, TasksOK
  <2>6. RegisteringOK(s, g, proc')
    BY <1>0, <2>5, Zenon DEF RegisteringOK
  <2>7. TasksOK'
    <3> HIDE DEF g
    <3> QED
      BY <1>0, <2>5, <2>6, RegisteringBecomes, Zenon DEF IndexerInv
  <2> QED
    BY <1>0, <2>2, <2>3, <2>4, <2>7, Zenon DEF IndexerInv, MapOK, MapStep, ChainTypeOK, chainVars, tracked
<1> QED
  BY <1>1, <1>2, Zenon DEF registerStream

\* The chain answers a registration; as for a chunk, the answer keeps.
LEMMA RegisterReadsStep ==
    ASSUME IndexerInv, UNCHANGED chainVars, NEW s \in ApiIds, register_reads(s)
    PROVE  IndexerInv' /\ MapStep /\ FileStep
<1> DEFINE g == [phase |-> "applying", snap |-> object[s]]
<1>0. s \in Streams /\ RegisteringOK(s, registering[s], proc) /\ registering[s].phase = "reading"
  BY IndexerAssumption, Zenon DEF IndexerInv, TasksOK, register_reads
<1>1. proc = "running"
  BY <1>0, Zenon DEF RegisteringOK
<1>2. RegisteringOK(s, g, proc')
  BY <1>0, <1>1, Zenon DEF RegisteringOK, IndexerInv, ChainTypeOK, register_reads, drained, Gone,
                    HoldsCoins, IsOpen, Funded
<1>3. TasksOK'
  BY <1>2, RegisteringBecomes, Zenon DEF IndexerInv, register_reads
<1>4. MapStep /\ FileStep
  BY MapUnchanged, Zenon DEF IndexerInv, register_reads, FileStep
<1>5. FileOK'
  BY <1>1, <1>4, FileStepOK, Zenon DEF IndexerInv
<1> QED
  BY <1>3, <1>4, <1>5, Zenon DEF IndexerInv, MapOK, ChainTypeOK, chainVars, register_reads, tracked

\* A registration ends: the state is replaced, or dropped if drained.
LEMMA RegisterEndsStep ==
    ASSUME IndexerInv, UNCHANGED chainVars, NEW s \in ApiIds, register_ends(s)
    PROVE  IndexerInv' /\ MapStep /\ FileStep
<1>0. RegisteringOK(s, registering[s], proc) /\ registering[s].phase # "none" /\ MapOK
  BY Zenon DEF IndexerInv, TasksOK, register_ends
<1>1. proc = "running" /\ UNCHANGED <<proc, refresh>>
  BY <1>0, Zenon DEF RegisteringOK, register_ends
<1>2. MapStep
  <2>1. CASE UNCHANGED <<streams, order>>
    BY <2>1, <1>0, MapUnchanged, Zenon
  <2>2. CASE set_streams(after_batch([t \in {s} |-> registering[s].snap]))
    <3> DEFINE snap == [t \in {s} |-> registering[s].snap]
               new == after_batch(snap)
    <3>1. /\ snap \in [DOMAIN snap -> ObjectType]
          /\ \A t \in DOMAIN snap : drained(snap[t]) => Gone(t)
      BY <1>0, Zenon DEF RegisteringOK
    <3> HIDE DEF snap
    <3>2. /\ DOMAIN new \subseteq tracked
          /\ new \in [DOMAIN new -> CachedType]
          /\ \A t \in tracked \ DOMAIN new : t \in DOMAIN snap /\ drained(snap[t])
      BY <1>0, <3>1, AfterBatchType, Zenon
    <3>3. set_streams(new)
      BY <2>2, Zenon DEF snap
    <3> HIDE DEF new
    <3> QED
      BY <1>0, <3>1, <3>2, <3>3, SetStreams, Zenon DEF MapOK
  <2> QED
    BY <2>1, <2>2, Zenon DEF register_ends
<1>3. FileStep
  BY Zenon DEF register_ends, persistRegistry, FileStep, tracked
<1>4. FileOK'
  BY <1>1, <1>2, <1>3, FileStepOK, Zenon DEF IndexerInv
<1>5. TasksOK'
  BY <1>1, IdleOK, RegisteringBecomes, Zenon DEF IndexerInv, register_ends
<1> QED
  BY <1>1, <1>2, <1>3, <1>4, <1>5, Zenon DEF IndexerInv, MapOK, MapStep, ChainTypeOK, chainVars, tracked

\* Every step of the indexer keeps the invariant, drops only drained streams and
\* saves all others.
LEMMA IndexerStepInv ==
    ASSUME IndexerInv, UNCHANGED chainVars, IndexerStep
    PROVE  IndexerInv' /\ MapStep /\ FileStep
BY BootStep, RefreshAllStep, DiscoveredStep, ReadBatchStep, ApplyBatchStep, BatchFailsStep,
   RegisterStreamStep, RegisterReadsStep, RegisterEndsStep, Zenon
   DEF IndexerStep, refresh_step, register_step

\* A crash loses the map and all tasks, and may tear the file.
LEMMA CrashStep ==
    ASSUME IndexerInv, UNCHANGED chainVars, Crash
    PROVE  IndexerInv' /\ proc' = "down"
<1>1. MapOK'
  BY EmptyOrder, EmptyType, Zenon DEF Crash, MapOK, tracked
<1>2. FileOK'
  BY Zenon DEF Crash, FileOK, IndexerInv
<1>3. TasksOK'
  BY IdleOK, Zenon DEF Crash, TasksOK, RefreshOK, RegisteringOK, chainVars, Gone, HoldsCoins, IsOpen, Funded
<1> QED
  BY <1>1, <1>2, <1>3, Zenon DEF IndexerInv, ChainTypeOK, chainVars, Crash

\* The invariant holds before the first start.
LEMMA InitIndexerInv ==
    Init => IndexerInv
<1> SUFFICES ASSUME Init PROVE IndexerInv
  BY Zenon
<1>1. MapOK
  BY EmptyOrder, EmptyType, Zenon DEF Init, InitIndexer, MapOK, tracked
<1>2. FileOK
  BY Zenon DEF Init, InitIndexer, FileOK
<1>3. TasksOK
  BY IdleOK, Zenon DEF Init, InitIndexer, TasksOK
<1> QED
  BY <1>1, <1>2, <1>3, InitChainType, Zenon DEF IndexerInv, Init

\* A step of the chain may outrun every answer, but what was drained stays so.
LEMMA ChainStepInv ==
    ASSUME IndexerInv, ChainTypeOK', \A s \in Streams : Gone(s) => Gone(s)',
           UNCHANGED indexerVars
    PROVE  IndexerInv'
<1>1. MapOK' /\ FileOK'
  BY Zenon DEF IndexerInv, MapOK, FileOK, indexerVars, tracked
<1>2. TasksOK'
  BY IndexerAssumption, Zenon DEF IndexerInv, TasksOK, RefreshOK, RegisteringOK, indexerVars
<1> QED
  BY <1>1, <1>2, Zenon DEF IndexerInv

----------------------------------------------------------------------------
(* Theorems about the indexer *)

\* What TrackedUntilDrained says of one step.
DropsOnlyDrained ==
    \A s \in Streams :
      s \in tracked /\ s \notin tracked' /\ proc' # "down" => ~HoldsCoins(s)

\* What FileKeepsFunded says of one step.
SavesFunded ==
    \A s \in Streams :
      s \in file /\ s \notin file' /\ proc' # "down" => ~HoldsCoins(s)

\* What the map may do implies the action of TrackedUntilDrained.
LEMMA StepDropsOnlyDrained ==
    ASSUME MapStep
    PROVE  DropsOnlyDrained
BY Zenon DEF MapStep, DropsOnlyDrained, Gone

\* What map and file may do implies the action of FileKeepsFunded.
LEMMA StepSavesFunded ==
    ASSUME MapOK, FileOK, MapStep, FileStep, proc = "down" => file' = file
    PROVE  SavesFunded
BY Zenon DEF MapOK, FileOK, MapStep, FileStep, SavesFunded, Gone

\* Nothing but the start of the process happens while it is down.
LEMMA DownKeepsFile ==
    ASSUME IndexerInv, IndexerStep, proc = "down"
    PROVE  file' = file
BY Zenon DEF IndexerInv, TasksOK, RefreshOK, RegisteringOK, IndexerStep, refresh_step, register_step,
       Boot, refreshAll, discovered, read_batch, apply_batch, batch_fails, registerStream,
       register_reads, register_ends

\* Every step of indexer, chain and crashes keeps the invariant and both action
\* properties.
LEMMA NextIndexer ==
    ASSUME IndexerInv, [Next]_vars
    PROVE  IndexerInv' /\ [DropsOnlyDrained]_vars /\ [SavesFunded]_vars
<1>1. CASE NextChain /\ UNCHANGED indexerVars
  <2>1. IndexerInv'
    BY <1>1, NextChainType, ChainStepInv, Zenon DEF IndexerInv
  <2>2. DropsOnlyDrained /\ SavesFunded
    BY <1>1, Zenon DEF DropsOnlyDrained, SavesFunded, indexerVars, tracked
  <2> QED
    BY <2>1, <2>2, Zenon
<1>2. CASE IndexerStep /\ UNCHANGED chainVars
  <2>1. IndexerInv' /\ MapStep /\ FileStep
    BY <1>2, IndexerStepInv, Zenon
  <2>2. proc = "down" => file' = file
    BY <1>2, DownKeepsFile, Zenon
  <2> QED
    BY <2>1, <2>2, StepDropsOnlyDrained, StepSavesFunded, Zenon DEF IndexerInv
<1>3. CASE Crash /\ UNCHANGED chainVars
  BY <1>3, CrashStep, Zenon DEF DropsOnlyDrained, SavesFunded
<1>4. CASE UNCHANGED vars
  <2>1. UNCHANGED chainVars /\ UNCHANGED indexerVars
    BY <1>4, Zenon DEF vars
  <2>2. ChainTypeOK' /\ \A s \in Streams : Gone(s) => Gone(s)'
    BY <2>1, Zenon DEF IndexerInv, ChainTypeOK, chainVars, Gone, HoldsCoins, IsOpen, Funded
  <2> QED
    BY <1>4, <2>1, <2>2, ChainStepInv, Zenon
<1> QED
  BY <1>1, <1>2, <1>3, <1>4, Zenon DEF Next

\* The inductive invariant of the indexer.
THEOREM IndexerInvariant == Spec => []IndexerInv
<1>1. IndexerInv /\ [Next]_vars => IndexerInv'
  BY NextIndexer, Zenon
<1> QED
  BY InitIndexerInv, <1>1, PTL DEF Spec

\* The invariant contains the type invariant.
LEMMA IndexerInvTypes ==
    IndexerInv => TypeOK
<1> SUFFICES ASSUME IndexerInv PROVE TypeOK
  BY Zenon
<1>1. \A s \in tracked : streams[s] \in CachedType
  BY Zenon DEF IndexerInv, MapOK
<1> QED
  BY <1>1, Zenon DEF IndexerInv, MapOK, FileOK, TasksOK, RefreshOK, RegisteringOK, TypeOK

\* The order of the map lists each of its ids once, and no refresh or registration
\* outlives its process.
THEOREM IndexerIsTyped == Spec => []TypeOK
BY IndexerInvariant, IndexerInvTypes, PTL

\* refreshStreamsBatch drops only streams without coins on chain, however old the answer
\* it applies and whichever refreshes and registrations overlap.
THEOREM DroppedIsDrained == Spec => TrackedUntilDrained
<1>1. IndexerInv /\ [Next]_vars => [DropsOnlyDrained]_vars
  BY NextIndexer, Zenon
<1> QED
  BY IndexerInvariant, <1>1, PTL DEF Spec, TrackedUntilDrained, DropsOnlyDrained

\* persistRegistry forgets only streams without coins, across crashes, torn and failed
\* writes and failed discoveries.
THEOREM SavedIsFunded == Spec => FileKeepsFunded
<1>1. IndexerInv /\ [Next]_vars => [SavesFunded]_vars
  BY NextIndexer, Zenon
<1> QED
  BY IndexerInvariant, <1>1, PTL DEF Spec, FileKeepsFunded, SavesFunded

=============================================================================
