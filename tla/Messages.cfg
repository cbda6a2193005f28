\* Three calls of two users, one client id, pages of two messages, so that a
\* page can be full or not; three threads that two requests can open; the three
\* calls as sends to the assistant, whose session keeps three turns.
SPECIFICATION PartsSpec
CONSTANTS
    Calls = {c1, c2, c3}
    NoCall = NoCall
    Users = {u1, u2}
    ClientIds = {k1}
    NoId = NoId
    PageSize = 2
    MaxMarks = 1
    Requests = {r1, r2}
    Threads = {t1, t2, t3}
    Failures = TRUE
    Modes = {"demo", "anthropic", "disabled"}
    SessionSize = 3
    MaxRounds = 2
SYMMETRY Symmetry
CONSTRAINT TwoAtATime
CHECK_DEADLOCK FALSE
INVARIANTS
    PartsTypeOK
    MessagesAgree
    ConversationsAgree
PROPERTIES
    ThreadIsALog
