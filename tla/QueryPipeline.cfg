SPECIFICATION Spec
CONSTANTS
    a = a
    b = b
    c = c
    d1 = d1
    d2 = d2
    s1 = s1
    s2 = s2
    q1 = q1
    q2 = q2
    t1 = t1
    t2 = t2
    Callers = {a, b, c}
    Dbs = {d1, d2}
    Home <- MCHome
    AutoRead = {a, b}
    Schemas = {s1, s2}
    Valid <- MCValid
    Questions = {q1, q2}
    Dangerous = {q2}
    Targets = {t1, t2}
    None = None
    Torn = Torn
    Threshold = 2
    MaxMappings = 1
    MaxUses = 2
    MaxAsks = 2
INVARIANTS
    HeldStaysHeld
    HitsFitTheSchema
    LearnedWhatWasTaught
    AppliedAfterEnoughUses
