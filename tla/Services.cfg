\* Two calls that overlap and may die, against each part of the services
\* marketplace.
SPECIFICATION PartsSpec
CONSTANTS
    Calls = {c1, c2}
    Terms = {"temporary"}
    MaxWarnings = 1
    MaxAppeals = 2
    Failures = TRUE
    Items = {i1, i2, i3}
    NoItem = NoItem
    MaxCount = 1
    Bookings = {b1, b2}
    NoBooking = NoBooking
    Users = {u1, u2, u3}
SYMMETRY Symmetry
CONSTRAINT Bounded
INVARIANTS
    PartsTypeOK
    ProfileAgrees
    ListsAreKept
    RecordsAreTrue
PROPERTIES
    SuspensionStands
    QuoteMovesForward
\* A provider whose lists and reviews are at their bounds has nothing to do.
CHECK_DEADLOCK FALSE
