SPECIFICATION Spec
CONSTANTS
    h1 = h1
    h2 = h2
    k1 = k1
    NoKeyword = NoKeyword
    NoPrice = NoPrice
    Handlers = {h1, h2}
    Keywords = {k1}
    TooLarge = {3}
    MinPrices = {2}
    MaxPrices = {1, 2, 3}
    FreeLimit = 1
    Faults = {"answer", "commit"}
    MaxRows = 2
    Watched <- Observed
INVARIANTS TypeOK LimitKeptWhenAlone NoDuplicateWhenAlone PriceRangeValid ToldIsWatched
SYMMETRY Symmetry
