SPECIFICATION LiveSpec
CONSTANTS
    c1 = c1
    c2 = c2
    s1 = s1
    s2 = s2
    Callers = {c1, c2}
    Main = Main
    Nobody = Nobody
    NoConn = NoConn
    Conns = {s1, s2}
    Retries = 3
    MaxDials = 7
INVARIANTS TypeOK NoConnectionLeak
PROPERTIES GivesUpOnlyAfterRetries ContractSpec EveryCallReturns
