\* Two releases paid from one balance.
SPECIFICATION Spec
CONSTANTS
    ReleaseIds = {r1, r2}
    RefundIds = {f1}
    ConditionIds = {}
    LinkedConditions = {}
    EventIds = {e1, e2}
    SettlementRefs = {}
    Keys = {}
    NoKey = NoKey
    Expected = 2
    MaxAmount = 2
    FeedTypes = {"funding_confirmed", "funding_reversed"}
    FeeTypes = {"none"}
    Discrepancies = {}
SYMMETRY Symmetry
INVARIANTS
    NoDoublePayment
