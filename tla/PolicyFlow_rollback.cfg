\* Two PUTs, one refused by the global policy.
SPECIFICATION Spec
CONSTANTS
    Names = {n1}
    Rules = {r1}
    Globals = {g1}
    Clash <- AllClash
    Providers = {}
    Profiles = {}
    Proposals = {}
    Calls = {c1, c2}
    MaxPolicyRevisions = 2
    RegisteredBases <- NoBase
    FlushResults = {TRUE}
    BROKEN = BROKEN
    NULL = NULL
SYMMETRY Symmetry
PROPERTIES
    PreviousBaseKept
