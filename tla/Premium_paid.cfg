SPECIFICATION Spec
CONSTANTS
    u1 = u1
    u2 = u2
    h1 = h1
    Nobody = Nobody
    Users = {u1, u2}
    Handlers = {h1}
    Duration = 2
    Faults = {"answer", "commit", "restart"}
    MaxDay = 6
    MaxOpen = 2
    MaxPayments = 3
INVARIANTS TypeOK PaidTimeHonoured
