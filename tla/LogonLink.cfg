CONSTANTS
    Conns = {c1, c2, c3}
    Realms = {r1, r2}
    Faults = 2
    Overtaking = FALSE
    Null = Null
SPECIFICATION FairSpec
INVARIANTS
    RealmList
    NoForgottenConnection
PROPERTIES
    LinkRestored
CHECK_DEADLOCK FALSE
