\* Two requests of one session, of which the namespace publishes the tool or not.
CONSTANTS
    s1 = s1  r1 = r1  r2 = r2  x = x  y = y  a = a  b = b
    NoSession = NoSession  NoRequest = NoRequest  NoWindow = NoWindow
    Sessions = {s1}
    Requests = {r1, r2}
    Tools = {x}
    Results = {"success", "error"}
    ServerOf <- OneServer
    Catalogs <- OnOrOff
    Settings <- SqliteOrMemory
    Ttl = 1
    MaxRecent = 2
    MaxCalls = 3
    MaxRefreshes = 1
SPECIFICATION FairSpec
INVARIANTS ChangeAnnounced
PROPERTIES EndStands RefreshesStand OutcomesStand IdleRemoved
