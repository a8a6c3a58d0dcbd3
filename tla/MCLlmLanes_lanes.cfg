CONSTANTS
    Briefs = {b1, b2}
    Units = {u1}
    Scripts = {s1}
    Skills = {k1, k2}
    LongFirst = 1
    Budget = 2
    Nobody = Nobody
SPECIFICATION FairSpec
INVARIANTS TypeOK LocksHeld LongRunnersExclude
PROPERTIES SkippedBehindABrief BriefDecides
