CONSTANTS
    Briefs = {b1}
    Units = {u1}
    Scripts = {s1}
    Skills = {k1}
    LongFirst = 1
    Budget = 2
    Nobody = Nobody
SPECIFICATION Spec
INVARIANTS OneLongRunner
