SPECIFICATION TokensSpec
CONSTANTS
    e1 = e1
    e2 = e2
    Reservations = {1, 2}
    Others = {0}
    Emails = {e1}
    EmailOf <- MCOneEmail
    MaxStored = 2
    NoId = NoId
    NoRow = NoRow
    NoPage = NoPage
    NoAnswer = NoAnswer
    NoQuote = NoQuote
    MaxRequests = 2
    MaxChecks = 0
    NoCall = NoCall
    NoSnapshot = NoSnapshot
    NoEmail = NoEmail
    MaxLoads = 2
    MaxRowCalls = 2
    MaxInFlight = 2
INVARIANTS
    BusyIsInFlight
    PayableIsRemembered
PROPERTIES
    AccessIsNotTraded
CHECK_DEADLOCK FALSE
