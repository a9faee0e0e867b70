SPECIFICATION DepSpec
CONSTANTS DepMaxFaults = 2
INVARIANT OffMeansStopped
CHECK_DEADLOCK FALSE
