\* Two answers to two offers, two calls on a deal with two disputes, and two
\* deliveries at a time of two events; a user with two requests for a role
\* and two verifications.
SPECIFICATION PartsSpec
CONSTANTS
    Calls = {c1, c2}
    Offers = {o1, o2}
    NoOffer = NoOffer
    References = {p1, p2}
    NoReference = NoReference
    Types = {"identity", "income_proof", "other"}
    Required = {"identity", "income_proof"}
    Disputes = {d1, d2}
    Events = {e1, e2}
    NoEvent = NoEvent
    MaxDeliveries = 3
    Rows = {v1, v2}
    MaxResets = 2
    Failures = TRUE
SYMMETRY Symmetry
CONSTRAINT Bounded
\* A deal that is closed, with both disputes filed, has nothing left to do.
CHECK_DEADLOCK FALSE
INVARIANTS
    PartsTypeOK
    ApplicationAgrees
    RecordsAgree
    IdentityAgrees
PROPERTIES
    FollowsDeclaration
    ClosedDealsStay
