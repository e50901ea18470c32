\* Two operations on a server whose authorisation is reconfigured.
CONSTANTS
    o1 = o1  o2 = o2  f1 = f1  f2 = f2
    NoOp = NoOp  NoState = NoState  NoTokens = NoTokens
    Ops = {o1, o2}
    Flows = {f1, f2}
    Configs = {"absent", "secret", "oauth"}
    Posts = 2
    MaxGrants = 3
SPECIFICATION Spec
SYMMETRY Symmetric
INVARIANTS ExchangedOnce KeptInStep StatusTruthful
