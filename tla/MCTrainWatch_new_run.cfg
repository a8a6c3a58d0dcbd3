CONSTANTS
    Watches <- PermanentOnly
    Delays = {0, 20, 24, 40}
    MaxRuns = 2
    Threshold = 10
    BucketSize = 5
    Grace = 5
    Heartbeat = 60
SPECIFICATION FairSpec
INVARIANT NewRunHeard
CHECK_DEADLOCK FALSE
