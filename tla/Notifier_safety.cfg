SPECIFICATION Spec
CONSTANTS
    m1 = m1
    m2 = m2
    s1 = s1
    s2 = s2
    u1 = u1
    u2 = u2
    Nothing = Nothing
    Messages = {m1, m2}
    Invalid = {}
    Searches = {s1, s2}
    User <- MCTwoUsers
    Wanted <- MCWanted
    Editable = {}
    Fickle = {u1}
    Prefetch = 2
    Permits = 1
    Failures <- MCAllFailures
    MaxBreaks = 2
INVARIANTS TypeOK BrokerAndBotAgree PermitsConserved OncePerDelivery WarmCacheMissesNothing
PROPERTIES ConsumptionSpec OneDeadLetterPerStop
