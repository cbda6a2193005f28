\* Two verification rows, so that a new request can stand beside an old one,
\* and as many applications, so that a second one can follow the first.
SPECIFICATION PartsSpec
CONSTANTS
    Calls = {c1, c2}
    Rows = {v1, v2}
    Nothing = Nothing
    Addresses = {a1, a2}
    Texts = {t1}
    Failures = TRUE
    Viewings = {w1}
    NoViewing = NoViewing
    MaxFollowUps = 2
    Pictures = {i1, i2, i3}
    MaxImages = 2
    Videos = {1, 2, 3}
    MaxVideos = 2
    Moves = {"pending_review", "approved", "archived"}
SYMMETRY Symmetry
CONSTRAINT Bounded
\* Nothing is left to do for a lead that has ended with its applications.
CHECK_DEADLOCK FALSE
INVARIANTS
    PartsTypeOK
    PublishedIsReviewed
    DriftNeedsOverlap
    LeadsAgree
    MediaAgrees
PROPERTIES
    LeadsMoveAsDeclared
