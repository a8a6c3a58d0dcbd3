CONSTANTS
    Callers = {c1, c2}
    Slots = {"tbfm_sequenced", "tfms_ooooi", "program_mit", "state", "approval", "unknown"}
    RuleOf <- MCRuleOf
    TimesOf <- MCTimesOf
    HitsOf <- MCHitsOf
    Days <- OneSlotEach
    Overlap = FALSE
    Faults = {"store", "crash"}
    MaxNow = 2
    Threshold = 4
    BucketSize = 2
    Grace = 1
    Heartbeat = 2
SPECIFICATION Spec
SYMMETRY CallerSymmetry
INVARIANTS TypeOK DriftBounded
PROPERTIES NoRepeat HeartbeatSpaced
