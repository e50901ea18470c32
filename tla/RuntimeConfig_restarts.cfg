\* Saves, rollbacks, failures and crashes, with versions in SQLite or without;
\* a save may be made while the starts of earlier ones still wait.
CONSTANTS
    a = a
    NoChange = NoChange
    Servers = {a}
    Configs <- Saved
    MaxVersions = 3
    MaxApplied = 3
SPECIFICATION GatewaySpec
INVARIANTS EffectiveIsStored TimersAccounted SettledOnStored
PROPERTIES  CatchesUp
