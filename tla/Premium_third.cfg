SPECIFICATION Spec
CONSTANTS
    u1 = u1
    u2 = u2
    h1 = h1
    Nobody = Nobody
    Users = {u1}
    Handlers = {h1}
    Duration = 2
    Faults = {}
    MaxDay = 4
    MaxOpen = 3
    MaxPayments = 3
INVARIANTS PaidTimeHonoured
