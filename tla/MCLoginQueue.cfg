SPECIFICATION Spec
CONSTANTS
    Account = {a1, a2, g}
    GameMaster = {g}
    SessionId = {s1, s2, s3, s4}
    NoSession = NoSession
    Free = Free
    Limits = {1}
    Tolerance = 0
    Never = Never
    MaxLogins = 4
    MaxTime = 0
SYMMETRY Symmetry
INVARIANTS
    SessionsConsistent
    OneCharacterPerAccount
    PlacesExact
PROPERTIES
    NoOvertaking
