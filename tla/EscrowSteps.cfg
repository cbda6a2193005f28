\* Every operation, with reconciliation, settlements and linked conditions.
SPECIFICATION Spec
CONSTANTS
    ReleaseIds = {r1}
    RefundIds = {f1}
    ConditionIds = {c1}
    LinkedConditions = {c1}
    EventIds = {e1, e2}
    SettlementRefs = {s1}
    Keys = {}
    NoKey = NoKey
    Expected = 2
    MaxAmount = 2
    FeedTypes = {"funding_confirmed", "funding_reversed"}
    FeeTypes = {"none", "percentage"}
    Discrepancies = {0, 1}
SYMMETRY Symmetry
PROPERTIES
    WorkflowFollowsDeclaration
