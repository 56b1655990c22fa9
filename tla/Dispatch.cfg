SPECIFICATION Spec
CONSTANTS
    Tasks = {t1, t2}
    None = None
    alice = alice
    bob = bob
    proxy = proxy
    key = key
    user = user
    Requests <- MCRequests
    RuleTable <- MCRuleTable
    Users = {user}
    TrustedHops = 1
    Guards <- MCGuards
    DefaultRule <- MCDefaultRule
    SkipPaths = {"/health"}
    StaticBlacklist = {bob}
    StaticWhitelist = {key}
    Listable = {alice}
INVARIANTS
    TypeOK
    RefusalIsFinal
    NoFreeRide
    BlacklistHolds
    ChargedByTopRule
    HandlerRuns
PROPERTY Answered
