SPECIFICATION MCSpec
CONSTANTS
    r1 = r1
    r2 = r2
    r3 = r3
    w1 = w1
    w2 = w2
    loop = loop
    e1 = e1
    e2 = e2
    Reservations = {r1, r2, r3}
    Nights <- MCNights
    Stay <- MCStay
    Inventory = 1
    Keys = {"k1", "k2"}
    Calls = {"start", "cancel", "confirm"}
    Workers = {w1, w2}
    Loop = loop
    Events = {}
    WebhookStatuses = {}
    MockProvider = TRUE
    MaxRestarts = 1
    None = None
SYMMETRY MCSymmetry
INVARIANTS
    TypeOK
    OversellBounded
PROPERTIES
    QuietGuestsKeep
    MoneyIsFromAttempts
CHECK_DEADLOCK FALSE
