CONSTANTS
    Watches <- PermanentOrThisRun
    Delays = {0, 20, 24, 40}
    MaxRuns = 2
    Threshold = 10
    BucketSize = 5
    Grace = 5
    Heartbeat = 60
SPECIFICATION FairSpec
INVARIANTS TypeOK DelayTold
PROPERTIES PhaseForward LandedTold TransientEnds
CHECK_DEADLOCK FALSE
