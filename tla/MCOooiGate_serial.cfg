CONSTANTS
    Entries = {e1}
    Writers = {w1, w2}
    SwimFeeds = {f1, f2}
    Overlap = FALSE
    Receivers = {"local_acars", "dump1090"}
    Claims <- MCClaims
    Routes <- AllRoutes
SPECIFICATION Spec
SYMMETRY WriterSymmetry
INVARIANTS GateTypeOK EntitledPhase LockCoversSource
PROPERTIES PhaseForward SwimStands ImplementsLedger
