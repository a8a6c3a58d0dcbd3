CONSTANTS
    v = v
    s = s
    p = p
    b = b
    o = o
    Vip = {v}
    VipSecurity = {b}
    Security = {s, p, o}
    ByList = {o}
    Widened = {p}
    EndOf <- MCEndOf
    Enrichment = enrichment
    Pusher = pusher
    Skill = skill
    Procs <- MCProcs
    Keys <- MCKeys
    Hashes = {1, 2}
    NoHash = 0
    Days <- MCDays
    Retention = 1
    Window = 1
    MaxNow = 2
    Coarse = FALSE
    Nobody = nobody
SPECIFICATION FairSpec
INVARIANTS TypeOK NothingSwallowed CorrectedOnce
PROPERTIES ImplementsMap OncePerRetention RolloutIsQuiet ChangeReachesOperator
