CONSTANTS
    Heartbeat = 1
    MaxAge = 3
    Interval = 3
    Holdoff = 1
    Grace = 2
    Budget = 2
    Delay = 1
    Round = 1
    Flaps = FALSE
    MaxJobs = 2
    MaxFaults = 2
SPECIFICATION Spec
INVARIANTS TypeOK GapCovered
PROPERTIES NoNeedlessFetch ShedIsQuiet
