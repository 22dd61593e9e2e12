------------------------------ MODULE Indexer ------------------------------
(***************************************************************************)
(* The keeper's registry of streams (indexer.ts) beside the chain: a map   *)
(* of cached stream states, refreshed by overlapping refreshAll calls and  *)
(* by registrations from the dashboard, and a file of ids that a restart   *)
(* begins with.  Every await is a place where other steps come in between: *)
(* the code after one works on an answer the chain may have outrun.        *)
(***************************************************************************)
EXTENDS HedgeLifecycle, FiniteSets, Sequences, Functions

CONSTANTS
    Refreshers,    \* refreshAll calls that may run at once
    ApiIds,        \* ids sent to POST /register-stream
    BATCH,         \* ids per multiGetObjects call, 50 in the code
    Faults,        \* what may go wrong on this host: "crash", "torn", "disk"
    MaxCrashes     \* bound on the number of crashes

ASSUME IndexerAssumption ==
    /\ IsFiniteSet(Streams)
    /\ Terms \subseteq [hedged : BOOLEAN, twap_tranches : Nat, twap_interval_ms : Nat,
                        end_time : Nat]
    /\ MaxClock \in Nat
    /\ ApiIds \subseteq Streams
    /\ BATCH \in Nat \ {0}
    /\ Faults \subseteq {"crash", "torn", "disk"}
    /\ MaxCrashes \in Nat

VARIABLES
    proc,          \* the keeper process: "down", "starting", "running"
    streams,       \* the Map: id -> cached state
    order,         \* its ids in the order of insertion, which iteration follows
    file,          \* ids in registered_streams.json
    refresh,       \* refresher -> [phase, todo: ids not yet read, snap: the chunk]
    registering,   \* id -> [phase, snap] of its registerStream call
    crashes

indexerVars == <<proc, streams, order, file, refresh, registering, crashes>>

----------------------------------------------------------------------------
(* Cached states *)

\* The fields of a cached state that the keeper looks at.
emptyStreamState ==
    [hedged |-> FALSE, status |-> "HEALTHY", tranches_executed |-> 0,
     twap_tranches |-> 5, twap_interval_ms |-> 12, last_tranche_timestamp |-> 0,
     end_time |-> 0, sui |-> FALSE, usdc |-> FALSE]

CachedFields == DOMAIN emptyStreamState

hydrate(o) == [f \in CachedFields |-> o[f]]

Empty == [s \in {} |-> emptyStreamState]

tracked == DOMAIN streams

with_placeholders(map, ids) ==
    [s \in DOMAIN map \cup ids |-> IF s \in DOMAIN map THEN map[s] ELSE emptyStreamState]

Before(seq, s, u) == \E i, j \in DOMAIN seq : i < j /\ seq[i] = s /\ seq[j] = u

\* The sequences of these ids, each once.
Orders(ids) == Injection(1 .. Cardinality(ids), ids)

\* Those that follow the order of seq.
InOrder(seq, ids) ==
    {q \in Orders(ids) : \A s, u \in ids : Before(seq, s, u) => Before(q, s, u)}

\* Mutant: ids of the map are inserted again.
set_streams_Again(map) ==
    /\ streams' = map
    /\ \E new \in Orders(DOMAIN map) : order' = order \o new

\* The map becomes this one; ids that are new to it come last.
set_streams(map) ==
    /\ streams' = map
    /\ order' \in {q \in InOrder(order, DOMAIN map) :
         \A s \in DOMAIN map \cap tracked, u \in DOMAIN map \ tracked : Before(q, s, u)}

\* Mutant: a stream whose SUI is all sold counts as drained.
drained_IgnoresUsdc(o) == o.state = "open" /\ ~o.sui

drained(o) == o.state = "open" /\ ~o.sui /\ ~o.usdc

\* Mutant: an answer is used only for states that were never hydrated.
after_batch_FirstOnly(snap) ==
    [s \in {t \in tracked : t \in DOMAIN snap => ~drained(snap[t])} |->
       IF s \in DOMAIN snap /\ snap[s].state = "open" /\ streams[s] = emptyStreamState
       THEN hydrate(snap[s]) ELSE streams[s]]

\* The map after an answer: ids without data (never created, or deleted) are
\* skipped, others are hydrated if they are still in the map, drained ones leave.
after_batch(snap) ==
    [s \in {t \in tracked : t \in DOMAIN snap => ~drained(snap[t])} |->
       IF s \in DOMAIN snap /\ snap[s].state = "open" THEN hydrate(snap[s])
       ELSE streams[s]]

\* A failed write is logged and forgotten.
persistRegistry(map) ==
    \/ file' = DOMAIN map
    \/ "disk" \in Faults /\ UNCHANGED file

----------------------------------------------------------------------------
(* refreshAll and start *)

Idle == [phase |-> "idle", todo |-> <<>>, snap |-> [s \in {} |-> NoObject]]

\* The first BATCH ids of todo are being read, the others wait.
Reading(todo) ==
    [phase |-> "reading",
     todo |-> SubSeq(todo, BATCH + 1, Len(todo)),
     snap |-> [s \in {todo[k] : k \in {j \in DOMAIN todo : j <= BATCH}} |-> NoObject]]

NotRegistering == [phase |-> "none", snap |-> NoObject]

InitIndexer ==
    /\ proc = "down"
    /\ streams = Empty
    /\ order = <<>>
    /\ file = {}
    /\ refresh = [r \in Refreshers |-> Idle]
    /\ registering = [s \in ApiIds |-> NotRegistering]
    /\ crashes = 0

\* Mutant: a restart does not load the file.
load_registry_Fresh == Empty

load_registry == with_placeholders(Empty, file)

\* The process starts: placeholders for the ids of the file, then a first discovery.
Boot(r) ==
    /\ proc = "down"
    /\ proc' = "starting"
    /\ set_streams(load_registry)
    /\ refresh' = [refresh EXCEPT ![r] = [Idle EXCEPT !.phase = "booting"]]
    /\ UNCHANGED <<file, registering, crashes>>

\* The refresh interval fires, whether or not the last refresh has ended.
refreshAll(r) ==
    /\ proc = "running"
    /\ refresh[r].phase = "idle"
    /\ refresh' = [refresh EXCEPT ![r] = [Idle EXCEPT !.phase = "discovering"]]
    /\ UNCHANGED <<proc, streams, order, file, registering, crashes>>

\* The next chunk of ids; after the last one the ids are saved, and a process that
\* was starting is up.
continue_refresh(r, todo) ==
    \/ /\ todo # <<>>
       /\ refresh' = [refresh EXCEPT ![r] = Reading(todo)]
       /\ UNCHANGED <<proc, file>>
    \/ /\ todo = <<>>
       /\ persistRegistry(streams')
       /\ refresh' = [refresh EXCEPT ![r] = Idle]
       /\ proc' = "running"

created == {s \in Streams : object[s].state # "absent"}

\* discoverStreamsFromEvents returns the pages it got before an error, if any.
discovered(r, found) ==
    /\ found \subseteq created
    /\ set_streams(with_placeholders(streams, found))
    /\ \/ /\ refresh[r].phase = "booting"
          /\ refresh' = [refresh EXCEPT ![r].phase = "discovering"]
          /\ UNCHANGED <<proc, file>>
       \/ /\ refresh[r].phase = "discovering"
          /\ continue_refresh(r, order')
    /\ UNCHANGED <<registering, crashes>>

\* The node reads the objects of the batch; the answer is on its way.
read_batch(r) ==
    /\ refresh[r].phase = "reading"
    /\ refresh' = [refresh EXCEPT ![r] =
         [phase |-> "applying", todo |-> @.todo,
          snap |-> [s \in DOMAIN @.snap |-> object[s]]]]
    /\ UNCHANGED <<proc, streams, order, file, registering, crashes>>

apply_batch(r) ==
    /\ refresh[r].phase = "applying"
    /\ set_streams(after_batch(refresh[r].snap))
    /\ continue_refresh(r, refresh[r].todo)
    /\ UNCHANGED <<registering, crashes>>

\* The error of a failed batch is logged, and the refresh goes on.
batch_fails(r) ==
    /\ refresh[r].phase \in {"reading", "applying"}
    /\ UNCHANGED <<streams, order>>
    /\ continue_refresh(r, refresh[r].todo)
    /\ UNCHANGED <<registering, crashes>>

----------------------------------------------------------------------------
(* registerStream, from POST /register-stream *)

registerStream(s) ==
    /\ proc = "running"
    /\ registering[s].phase = "none"
    /\ \/ /\ s \in tracked
          /\ UNCHANGED <<streams, order, file, registering>>
       \/ /\ s \notin tracked
          /\ set_streams(with_placeholders(streams, {s}))
          /\ persistRegistry(streams')
          /\ registering' = [registering EXCEPT ![s].phase = "reading"]
    /\ UNCHANGED <<proc, refresh, crashes>>

register_reads(s) ==
    /\ registering[s].phase = "reading"
    /\ registering' = [registering EXCEPT ![s] =
         [phase |-> "applying", snap |-> object[s]]]
    /\ UNCHANGED <<proc, streams, order, file, refresh, crashes>>

\* After the read, or its failure, an id that is not in the map any more is dropped
\* from the file too.
register_ends(s) ==
    /\ \/ /\ registering[s].phase = "applying"
          /\ set_streams(after_batch([t \in {s} |-> registering[s].snap]))
       \/ /\ registering[s].phase \in {"reading", "applying"}
          /\ UNCHANGED <<streams, order>>
    /\ IF s \in DOMAIN streams' THEN UNCHANGED file ELSE persistRegistry(streams')
    /\ registering' = [registering EXCEPT ![s] = NotRegistering]
    /\ UNCHANGED <<proc, refresh, crashes>>

----------------------------------------------------------------------------
\* The process dies; a crash in the middle of a write leaves a file that does not
\* parse, which loadRegistry treats as empty.
Crash ==
    /\ "crash" \in Faults
    /\ crashes < MaxCrashes
    /\ proc # "down"
    /\ proc' = "down"
    /\ crashes' = crashes + 1
    /\ streams' = Empty
    /\ order' = <<>>
    /\ \/ UNCHANGED file
       \/ "torn" \in Faults /\ file' = {}
    /\ refresh' = [r \in Refreshers |-> Idle]
    /\ registering' = [s \in ApiIds |-> NotRegistering]

refresh_step(r) ==
    \/ Boot(r) \/ refreshAll(r) \/ read_batch(r) \/ apply_batch(r) \/ batch_fails(r)
    \/ \E found \in SUBSET created : discovered(r, found)

register_step(s) == registerStream(s) \/ register_reads(s) \/ register_ends(s)

IndexerStep ==
    \/ \E r \in Refreshers : refresh_step(r)
    \/ \E s \in ApiIds : register_step(s)

Init == InitChain /\ InitIndexer

vars == <<chainVars, indexerVars>>

Next ==
    \/ NextChain /\ UNCHANGED indexerVars
    \/ (IndexerStep \/ Crash) /\ UNCHANGED chainVars

Spec == Init /\ [][Next]_vars

----------------------------------------------------------------------------
(* Fairness: the process is restarted, intervals fire, requests end, and one  *)
(* that is repeated for ever is sometimes answered.                           *)

RefreshFairness(r) ==
    /\ WF_vars(Boot(r) /\ UNCHANGED chainVars)
    /\ WF_vars(refreshAll(r) /\ UNCHANGED chainVars)
    /\ SF_vars(discovered(r, created) /\ UNCHANGED chainVars)
    /\ \A s \in Streams :
         /\ SF_vars(read_batch(r) /\ s \in DOMAIN refresh[r].snap /\ UNCHANGED chainVars)
         /\ SF_vars(apply_batch(r) /\ s \in DOMAIN refresh[r].snap /\ UNCHANGED chainVars)

RegisterFairness(s) == WF_vars(register_ends(s) /\ UNCHANGED chainVars)

FairSpec ==
    /\ Spec
    /\ \A r \in Refreshers : RefreshFairness(r)
    /\ \A s \in ApiIds : RegisterFairness(s)

----------------------------------------------------------------------------
(* Properties *)

CachedType ==
    [hedged : BOOLEAN, status : Statuses, tranches_executed : Nat, twap_tranches : Nat,
     twap_interval_ms : Nat, last_tranche_timestamp : Nat, end_time : Nat,
     sui : BOOLEAN, usdc : BOOLEAN]

\* Tasks run only in a live process, and ids in work are ids of the map or were.
TypeOK ==
    /\ proc \in {"down", "starting", "running"}
    /\ tracked \subseteq Streams
    /\ order \in Orders(tracked)
    /\ \A s \in tracked : streams[s] \in CachedType
    /\ file \subseteq Streams
    /\ \A r \in Refreshers :
         /\ refresh[r].phase \in {"idle", "booting", "discovering", "reading", "applying"}
         /\ refresh[r].todo \in Seq(Streams)
         /\ DOMAIN refresh[r].snap \subseteq Streams
         /\ refresh[r].phase # "idle" => proc # "down"
    /\ \A s \in ApiIds :
         /\ registering[s].phase \in {"none", "reading", "applying"}
         /\ registering[s].phase # "none" => proc = "running"

HoldsCoins(s) == IsOpen(s) /\ Funded(s)

\* However old the answer that refreshStreamsBatch applies, and whichever refreshes
\* and registrations overlap, a running keeper stops tracking only streams without
\* coins on chain: nothing that still has to be hedged or claimed is dropped.
TrackedUntilDrained ==
    [][\A s \in Streams :
         s \in tracked /\ s \notin tracked' /\ proc' # "down" => ~HoldsCoins(s)]_vars

\* A save forgets only streams without coins, across crashes, restarts, failed and
\* torn writes, failed discoveries and failed batches: persistRegistry writes a
\* superset of what the restart began with, less what was drained.
FileKeepsFunded ==
    [][\A s \in Streams :
         s \in file /\ s \notin file' /\ proc' # "down" => ~HoldsCoins(s)]_vars

\* Once the chain is quiet, the cache becomes and stays what the chain holds, for
\* every stream with coins: registered or not, whatever a crash did to the file,
\* and although refreshes may finish in another order than they read.
CacheConverges ==
    <>[](\A s \in Streams :
           HoldsCoins(s) => s \in tracked /\ streams[s] = hydrate(object[s]))

=============================================================================
