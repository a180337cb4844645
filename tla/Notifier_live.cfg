SPECIFICATION LiveSpec
CONSTANTS
    m1 = m1
    m2 = m2
    s1 = s1
    s2 = s2
    u1 = u1
    u2 = u2
    Nothing = Nothing
    Messages = {m1, m2}
    Invalid = {m2}
    Searches = {s1}
    User <- MCOneSearch
    Wanted <- MCWantedFirst
    Editable = {s1}
    Fickle = {}
    Prefetch = 1
    Permits = 1
    Failures <- MCAllFailures
    MaxBreaks = 1
PROPERTIES EveryMessageSettled CacheFollowsDatabase
