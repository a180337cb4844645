SPECIFICATION Spec
CONSTANTS
    m1 = m1
    m2 = m2
    s1 = s1
    s2 = s2
    u1 = u1
    u2 = u2
    Nothing = Nothing
    Messages = {m1}
    Invalid = {}
    Searches = {s1}
    User <- MCOneSearch
    Wanted <- MCWantedFirst
    Editable = {}
    Fickle = {}
    Prefetch = 1
    Permits = 1
    Failures = {}
    MaxBreaks = 1
INVARIANTS NoValidDeadLetter
