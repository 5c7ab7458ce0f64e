SPECIFICATION Spec
CONSTANTS
    Workers = {a, b}
    Manual = Manual
    None = None
    Cron = TRUE
    Phases = {0, 2}
    Every = 4
    Dedupe = 3
    Skew = 1
    Horizon = 6
    MaxKills = 1
    MaxEdits = 1
    MaxManual = 1
INVARIANTS
    ClaimedAgainAfterOverrun
    StampsTellClaims
CHECK_DEADLOCK FALSE
