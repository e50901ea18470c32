\* Requests of a browser and of another client over saves, expiries, issuer
\* outages and restarts.
CONSTANTS
    n = n
    ann = ann
    bob = bob
    role = role
    read = read
    key = key
    idp = idp
    h = h
    web = web
    browser = browser
    agent = agent
    None = None
    Namespaces = {n}
    Roles = {role}
    Users = {ann, bob}
    Modes = {read}
    Keys = {key}
    Tokens <- Issued
    Held <- HeldBy
    Issuers = {idp}
    Conventional = {}
    Hosts = {h}
    Loopback = {}
    DefaultSites = {web}
    Configs <- Saved
    Kinds = {"oauth-authorization-server"}
    Clients = {browser, agent}
    SiteOf <- SiteOfClient
    SessionIds = {1}
SPECIFICATION AccessSpec
CONSTRAINT TwoConfigurations
INVARIANTS OwnersOnly StaysOpen ChallengeFollowable
