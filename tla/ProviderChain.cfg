SPECIFICATION Spec
CONSTANTS
    p1 = p1
    p2 = p2
    n1 = n1
    n2 = n2
    Calls = {a, b}
    Editors = {e}
    Providers = {p1, p2}
    Names = {n1, n2}
    NameOf <- MCNames
    None = None
    Threshold = 2
    MaxAttempts = 2
    MaxEdits = 1
INVARIANTS
    OpensOnAStreak
    HalfOpenIsProbed
    ChainsDontRepeat
PROPERTIES
    CallsEnd
CHECK_DEADLOCK FALSE
