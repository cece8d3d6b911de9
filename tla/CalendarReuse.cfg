SPECIFICATION Spec
CONSTANTS
    r1 = r1
    r2 = r2
    r3 = r3
    b1 = b1
    NoType = NoType
    NoRow = NoRow
    NoOne = NoOne
    Days <- MCDays
    Reservations = {r1, r2, r3}
    Ask <- MCAsk
    Types = {1, 2}
    RoomTypeRows <- MCRows
    SeedTypes <- MCSeed
    Blocks = {b1}
    Ranges <- MCRanges
    Amounts = {1, 2}
INVARIANTS
    DraftIsUnpaid
CHECK_DEADLOCK FALSE
