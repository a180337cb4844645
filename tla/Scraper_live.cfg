SPECIFICATION LiveSpec
CONSTANTS
    w1 = w1
    w2 = w2
    k1 = k1
    k2 = k2
    NoKeyword = NoKeyword
    Workers = {w1, w2}
    Keywords = {k1, k2}
    Items = {1}
    Hits <- MCFirstHits
    BadPrice = {}
    Capacity = 2
    PageSize = 1
    Faults = {"publish", "savedUnseen"}
    MaxStops = 1
PROPERTIES ShutdownCompletes QueuedJobIsSearched ListingIsPublished
