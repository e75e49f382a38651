\* One name, a rotation, two sessions, a provider, every operation failing or not,
\* the reaper running.
SPECIFICATION FairSpec
CONSTANTS
    Names = {n1}
    Providers = {p1}
    Tokens = {t1, t2}
    Sessions = {x1, x2}
    Bearers = {b1}
    TTLs = {0, 1}
    MaxTime = 1
    NULL = NULL
INVARIANTS
    TypeOK
    DeadStaysDead
    NoDanglingCredential
    GivenIsHonoured
    BearerFileMatches
PROPERTIES
    StaleIsReaped
