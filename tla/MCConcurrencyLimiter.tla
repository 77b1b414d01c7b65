------------------------- MODULE MCConcurrencyLimiter -------------------------
(* Instances of ConcurrencyLimiter for TLC.                                   *)
EXTENDS ConcurrencyLimiter

\* One slot and a queue deep enough for three levels of the heap, to begin with.
MCInitial == [max |-> 1, maxQueue |-> 6]
MCConfigs == {MCInitial, [max |-> 3, maxQueue |-> 2]}

=============================================================================
