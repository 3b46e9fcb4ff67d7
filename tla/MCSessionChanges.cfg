SPECIFICATION FairSpec
CONSTANTS
    Account = {a1, a2}
    GameMaster = {}
    SessionId = {s1, s2}
    NoSession = NoSession
    Free = Free
    Limits = {0, 1}
    Tolerance = 1
    Never = Never
    MaxLogins = 4
    MaxTime = 1
INVARIANTS
    SessionsConsistent
PROPERTIES
    ClosedSessionGoes
