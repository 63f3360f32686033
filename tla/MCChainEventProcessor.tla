------------------------ MODULE MCChainEventProcessor ------------------------
(* ChainEventProcessor with the faults of a run, for TLC.                  *)
EXTENDS ChainEventProcessor, TLC

NoFaults == {}
CallFaults == {"call"}
EarlyFaults == {"early"}
LateFaults == {"late"}
=============================================================================
