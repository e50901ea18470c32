\* Codes exchanged next to each other, with restarts and changed keys.
CONSTANTS
    Logins = {l1, l2}
    Registrations = {c1, c2}
    Codes = {k1, k2}
    Resources = {n1}
    KeyPairs = {y1, y2}
    NoKeys = NoKeys
    Password = TRUE
    LoginTTL = 1
    CodeTTL = 1
    TokenTTL = 1
    MaxSaves = 1
SPECIFICATION Spec
INVARIANTS CodeOnce TokensBacked
PROPERTY CodeKept
CHECK_DEADLOCK FALSE
