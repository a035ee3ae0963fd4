CONSTANTS
    Id = {k1, k2}
    Attempt = {a, b}
    Operator = operator
    None = none
    Founders = {}
    RateLimit = 1
    MaxChallenges = 2
    MaxCommands = 2
    MaxIncidents = 1
SPECIFICATION Spec
INVARIANTS CommandAdmitsOne RateBounded
PROPERTIES UsersLeaveForAReason
CHECK_DEADLOCK FALSE
