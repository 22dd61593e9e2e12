--------------------------- MODULE PeachRegistry ---------------------------
(***************************************************************************)
(* What the counters and the treasury of PeachRegistry add up to over all  *)
(* streams.  The registry's functions are parts of the actions that call   *)
(* them, in PeachStream.                                                   *)
(***************************************************************************)
EXTENDS PeachStream, FiniteSetsExt

\* Only finitely many objects are ever created.
ASSUME FiniteStreamsAssumption == IsFiniteSet(Streams)

\* The sum of a table of amounts over all streams.
Total(f) == MapThenSumSet(LAMBDA s : f[s], Streams)

\* The registry's totals are those of the streams it has ever registered, and the
\* treasury holds exactly the fees of all claims that the admin has not withdrawn.
RegistryTotals ==
    /\ registry.total_streams = Cardinality({s \in Streams : record[s].status # RECORD_NONE})
    /\ registry.total_volume = Total([s \in Streams |-> record[s].total_amount])
    /\ registry.fee_treasury + registry.fees_withdrawn
         = Total([s \in Streams |-> ledger[s].sui_fees])

=============================================================================
