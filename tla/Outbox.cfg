\* Two rows compete for batches of one, three attempts, one crash.
SPECIFICATION FairSpec
CONSTANTS
    Events = {1, 2}
    Workers = {w1, w2}
    NoEvent = NoEvent
    MaxAttempts = 3
    BatchLimit = 1
    MaxCrashes = 1
CHECK_DEADLOCK FALSE
INVARIANTS
    TypeOK
    OneHolder
    AttemptsAgree
PROPERTIES
    SettledIsFinal
    EveryRowSettles
