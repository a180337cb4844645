SPECIFICATION LiveSpec
CONSTANTS
    w1 = w1
    w2 = w2
    s1 = s1
    NoPrice = NoPrice
    Chars <- MCChars
    Space = {" "}
    Lower <- MCLower
    Workers = {w1, w2}
    Items = {1}
    Listing <- MCListing
    Searches = {s1}
    Wish <- MCWish
    MaxBreaks = 1
INVARIANTS TypeOK EveryAlertAccountedFor AlertsPerCopy
PROPERTIES EveryPromiseEnds
CHECK_DEADLOCK FALSE
