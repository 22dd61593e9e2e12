----------------------------- MODULE MCIndexer -----------------------------
(* Instances of Indexer for TLC. *)
EXTENDS Indexer

\* One tranche sells all there is to sell, so that time is not needed.
OneTranche ==
    {[hedged |-> TRUE, twap_tranches |-> 1, twap_interval_ms |-> 1, end_time |-> 0]}

=============================================================================
