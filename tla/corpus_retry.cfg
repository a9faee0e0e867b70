\* The next run refuses a replacement whose deletion was interrupted.
SPECIFICATION CorpusSpec
CONSTANTS
    Generations = {1, 2, 3}
    Chunks = {1, 2}
    Digests = {1}
    Policies = {1}
    MaxFaults = 2
INVARIANT RetryIsAccepted
CHECK_DEADLOCK FALSE
