\* A page that may be stale next to the routes.
CONSTANTS
    s1 = s1
    s2 = s2
    dflt = dflt
    n1 = n1
    r1 = r1
    r2 = r2
    t1 = t1
    p1 = p1
    ServerIds = {s1, s2}
    Namespaces = {dflt, n1}
    Roles = {r1, r2}
    Tokens = {t1}
    Default = dflt
    OnDisk <- Files
    Pages = {p1}
    MaxSaves = 3
    MaxStored = 1
SPECIFICATION EditingSpec
SYMMETRY Alike
INVARIANTS Consistent GrantsAreLive
PROPERTIES TokensByHand NoSilentGrant
CHECK_DEADLOCK FALSE
