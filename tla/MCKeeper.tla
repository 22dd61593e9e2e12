------------------------------ MODULE MCKeeper ------------------------------
(* Instances of Keeper for TLC. *)
EXTENDS Keeper

TermSet(kinds, tranches, end) ==
    {[hedged |-> h, twap_tranches |-> tranches, twap_interval_ms |-> 1,
      end_time |-> end] : h \in kinds}

\* Three tranches, of which the keeper may count one twice.
ThreeTranches == TermSet({TRUE}, 3, 2)

\* Matured from the start, so that hedges and claims of one stream meet.
MaturedAtOnce == TermSet(BOOLEAN, 2, 0)

=============================================================================
