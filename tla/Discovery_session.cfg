\* One session in each mode, three tools of two servers.
CONSTANTS
    Tools <- MCTools
    Card <- MCCard
    Suspicious = {}
    MayWithhold = {"log"}
    RiskLevels = {"low", "high"}
    PoolSize = 3
    Lookback = 1
    MinDominant = 1
    WritePenalty = 0
    AdminPenalty = 7
    SessionMode = "admin"
    Modes = {"default", "compat", "code"}
    Recent = 1
    Ttl = 1
    RunLength = 1
    Reserves = {1}
    WindowSizes = {1, 2}
    Windows <- MCWindows
    MayDisable <- MCMayDisable
    Lifetime = 3
    MaxHandles = 2
    MaxChanges = 1
SPECIFICATION DiscoverySpec
INVARIANTS HandleMeansOne MapsAgree DisabledRunsOut WindowKept ReserveHonoured
