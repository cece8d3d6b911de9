SPECIFICATION Spec
CONSTANTS
    s1 = s1
    Slots = {s1}
    Tables = {1, 2}
    Orders = {1, 2}
    Dishes = {1}
    Origins <- MCOrigins
    NoKey = NoKey
    NoRow = NoRow
    Flows = {1, 2}
    Idle = Idle
    MaxOffers = 1
    MaxStrays = 1
    StaffSets = {"cancelled"}
    NoSlot = NoSlot
    Tasks = {1, 2}
    NoTask = NoTask
    NoEdit = NoEdit
    Listings = {1, 2}
    Types = {1}
    Blocks = {3}
    OfListing <- MCOfListing
    Nights = {1, 2}
    EditorJobs = {1, 2}
    NoJob = NoJob
    NoAnswer = NoAnswer
    Whole = Whole
    Stays = {1}
    Notices = {1, 2}
    Tickets = {1}
    Works = {1, 2}
    MaxLoads = 2
    NoWork = NoWork
    LastDay = 5
    MaxNights = 3
    PreviewNights = 3
    MaxGuests = 2
    Urls <- MCUrls
    NoTrip = NoTrip
    Rooms = {1, 2}
    Bookings = {1, 2}
    Turns = {1, 2}
    NoTarget = NoTarget
    NoPay = NoPay
    NoTurn = NoTurn
    NoReply = NoReply
    NoMemory = NoMemory
INVARIANTS
    TypeOK
    ReportedTableIsMade
    OfferIsTakenOnce
    HistoryIsTrue
    ChoiceIsListed
    CountsAreOfShown
    OfferedIsFree
    UntouchedIsSearch
    PaymentIsOfRoom
PROPERTIES
    RetriedIsReloaded
    WaitsEnd
CHECK_DEADLOCK FALSE
