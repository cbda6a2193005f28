\* One manager reports on a milestone that waits for an inspection.
SPECIFICATION PartsSpec
CONSTANTS
    Calls = {c1}
    Inspectors = {i1}
    AdminInspectors = {}
    Nobody = Nobody
    MaxAssignments = 1
    Failures = FALSE
    Milestones = {m1}
    Heavy = {m1}
    NoMilestone = NoMilestone
    Updates = {u1}
    Values = {50, 100}
    ByHand = {"completed"}
CHECK_DEADLOCK FALSE
INVARIANT MilestoneIsInspected
