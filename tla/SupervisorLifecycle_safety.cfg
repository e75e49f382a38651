\* Two sandboxes, two tokens, a rotation or deletion, one client.
SPECIFICATION Spec
CONSTANTS
    Names = {n1, n2}
    Tokens = {t1, t2}
    Sessions = {x1}
    Controls = {s1, s2}
    Datas = {d1}
    Admins = {a1, a2}
    Minters = {k1}
    Clients = {c1}
    NULL = NULL
SYMMETRY Symmetry
INVARIANTS
    TypeOK
    NoCrossSandbox
    EndedTokenIsDisconnected
