\* Overlapping probes of one server, with restarts at any moment.
CONSTANTS
    h = h  d = d  p1 = p1  p2 = p2
    NoProbe = NoProbe  NoState = NoState
    Servers = {h, d}
    Stdio = {d}
    Probes = {p1, p2}
    Answers = {"ok", "auth", "fail"}
    Configs <- RestartConfigs
    MaxAge = 2
    MaxFailures = 3
SPECIFICATION FairSpec
INVARIANT NoFalseAlarm
PROPERTIES Recovers OutageDetected
