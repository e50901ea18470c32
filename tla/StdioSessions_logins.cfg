\* A login next to fetches and calls of the same server.
CONSTANTS
    Procs = {p1, p2, p3}
    NoProc = NoProc
    NoRecord = NoRecord
SPECIFICATION FairSpec
INVARIANTS NobodyLeftRunning LoginAccounted
PROPERTY LoginEnds
