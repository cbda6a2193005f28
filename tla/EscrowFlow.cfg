\* Two rows of each instruction table and two funding events, so that a late
\* event can put the escrow back to funded and a second request can follow.
SPECIFICATION Spec
CONSTANTS
    ReleaseIds = {r1, r2}
    RefundIds = {f1, f2}
    ConditionIds = {c1}
    LinkedConditions = {}
    EventIds = {e1, e2}
    SettlementRefs = {}
    Keys = {k1}
    NoKey = NoKey
    Expected = 2
    MaxAmount = 2
    FeedTypes = {"funding_confirmed", "funding_reversed"}
    FeeTypes = {"none"}
    Discrepancies = {}
SYMMETRY Symmetry
INVARIANTS
    TypeOK
    InstructionsAgree
    ReleaseHonoursConditions
    ColumnsAgree
    MoneyAgrees
    DisputeAdmitsOneCall
PROPERTIES
    PayoutsSpec
