\* Two sessions of one user with five requests on a clock of 0..5, and four
\* calls on two servers, while configurations are saved over and over.
CONSTANTS
    s1 = s1  s2 = s2  u1 = u1  a = a  b = b  c1 = c1  c2 = c2  c3 = c3  c4 = c4
    NoServer = NoServer
    Sessions = {s1, s2}
    Users = {u1}
    UserOf <- OneUser
    Servers = {a, b}
    Calls = {c1, c2, c3, c4}
    Configs <- TwoConfigs
    MaxTime = 5
    MaxRequests = 5
SPECIFICATION Spec
CONSTRAINT Apart
SYMMETRY Symmetry
INVARIANT SessionLimitHolds
PROPERTIES RefusedOnlyAtLimit PoolSpec
