\* A revocation while a request of the session is being checked.
CONSTANTS
    s1 = s1  r1 = r1  r2 = r2  x = x  y = y  a = a  b = b
    NoSession = NoSession  NoRequest = NoRequest  NoWindow = NoWindow
    Sessions = {s1}
    Requests = {r1, r2}
    Tools = {x, y}
    Results = {"success", "error"}
    ServerOf <- Servers
    Catalogs <- Published
    Settings <- Sqlite
    Ttl = 1
    MaxRecent = 2
    MaxCalls = 2
    MaxRefreshes = 1
SPECIFICATION Spec
INVARIANTS EndedStaysEnded
