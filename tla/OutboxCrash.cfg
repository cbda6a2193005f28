\* One row, one worker, one crash.
SPECIFICATION FairSpec
CONSTANTS
    Events = {1}
    Workers = {w1}
    NoEvent = NoEvent
    MaxAttempts = 2
    BatchLimit = 1
    MaxCrashes = 1
CHECK_DEADLOCK FALSE
PROPERTIES
    ProcessingEnds
