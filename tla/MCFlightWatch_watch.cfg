CONSTANTS
    Entries = {e1}
    Scenarios <- DayAndBellwether
    Route <- RadarAtDestination
    MaxRestarts = 1
    MaxLegs = 2
    Claims = {}
    Receivers = {}
    Routes = {}
SPECIFICATION FairSpec
INVARIANTS TypeOK PhaseEarned LandedSweepTruth
PROPERTIES LandedIsSwept
