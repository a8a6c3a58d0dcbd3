CONSTANTS
    Entries = {e1}
    Scenarios <- InboundOnly
    Route <- RadarAtBoth
    MaxRestarts = 0
    MaxLegs = 1
    Claims = {}
    Receivers = {}
    Routes = {}
SPECIFICATION Spec
INVARIANTS LandedSweepTruth
