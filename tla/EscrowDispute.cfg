\* A dispute opened after the request does not stop the release.
SPECIFICATION Spec
CONSTANTS
    ReleaseIds = {r1}
    RefundIds = {}
    ConditionIds = {}
    LinkedConditions = {}
    EventIds = {e1}
    SettlementRefs = {}
    Keys = {}
    NoKey = NoKey
    Expected = 2
    MaxAmount = 2
    FeedTypes = {"funding_confirmed", "funding_reversed"}
    FeeTypes = {"none"}
    Discrepancies = {}
SYMMETRY Symmetry
PROPERTIES
    DisputeBlocksRelease
