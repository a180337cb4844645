SPECIFICATION LiveSpec
CONSTANTS
    t1 = t1
    t2 = t2
    t3 = t3
    u1 = u1
    Nobody = Nobody
    Tasks = {t1, t2, t3}
    Watched = {t1}
    Users = {u1}
    PoolSize = 2
    Faults = {"answer", "commit", "timeout"}
INVARIANTS TypeOK ConnectionsConserved PremiumOnceCommitted OnlyFirstUpdatesCollide
PROPERTIES EveryUpdateEnds
