CONSTANTS
    Entries = {e1}
    Writers = {w1, w2}
    SwimFeeds = {f1}
    Overlap = TRUE
    Receivers = {}
    Claims <- RaceClaims
    Routes <- Uncovered
SPECIFICATION Spec
PROPERTY PhaseForward
