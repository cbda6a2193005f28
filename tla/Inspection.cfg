\* Two calls that overlap and may die, against a request with two assignments,
\* one of which may be an administrator's, and against a project.
SPECIFICATION PartsSpec
CONSTANTS
    Calls = {c1, c2}
    Inspectors = {i1, i2, i3}
    AdminInspectors = {i3}
    Nobody = Nobody
    MaxAssignments = 2
    Failures = TRUE
    Milestones = {m1, m2}
    Heavy = {m1}
    NoMilestone = NoMilestone
    Updates = {u1}
    Values = {50, 100}
    ByHand = {"completed", "skipped"}
SYMMETRY Symmetry
CONSTRAINT Bounded
\* Nothing is left to do for a completed request whose report was deleted.
CHECK_DEADLOCK FALSE
INVARIANTS
    PartsTypeOK
    OneInspector
    CompletionIsEarned
    SiteAgrees
PROPERTIES
    StatusMovesAsDeclared
