SPECIFICATION Spec
CONSTANTS
    r1 = r1
    r2 = r2
    r3 = r3
    e1 = e1
    e2 = e2
    e3 = e3
    k1 = k1
    k2 = k2
    n1 = n1
    n2 = n2
    Reservations = {r1, r2}
    Nights = {n1, n2}
    Stay <- MCStay2
    Inventory = 1
    Keys = {k1, k2}
    NoKey = NoKey
    Events = {e1, e2, e3}
    MockProvider = FALSE
    WebhookStatuses = {"paid", "failed", "pending"}
    LegacyCalls = TRUE
    AlwaysRefundable = {r1}
SYMMETRY MCSymmetry
INVARIANTS
    CheckedHoldsFit
    PaidIsNotOpen
PROPERTIES
    MoneyNeverForgotten
    ConfirmedIsKept
CHECK_DEADLOCK FALSE
