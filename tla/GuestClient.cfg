SPECIFICATION Spec
CONSTANTS
    e1 = e1
    e2 = e2
    Reservations = {1}
    Others = {0}
    Emails = {e1, e2}
    EmailOf <- MCEmailOf
    MaxStored = 2
    NoId = NoId
    NoRow = NoRow
    NoPage = NoPage
    NoAnswer = NoAnswer
    NoQuote = NoQuote
    MaxRequests = 2
    MaxChecks = 1
    NoCall = NoCall
    NoSnapshot = NoSnapshot
    NoEmail = NoEmail
    MaxLoads = 1
    MaxRowCalls = 1
    MaxInFlight = 2
INVARIANTS
    TypeOK
    ShownPaidIsPaid
    AutoRefreshIsSingle
PROPERTIES
    PressesEnd
CHECK_DEADLOCK FALSE
