SPECIFICATION Spec
CONSTANTS
    Reqs = {r1, r2}
    Tasks = {r1}
    NSubs = 2
    Total = 2
    TokenQuota = 3
    Pollers = {p1, p2}
    Attempts = 2
    MaxAmount = 2
    MaxResets = 1
SYMMETRY PollerSymmetry
INVARIANTS TokenAccounted UsageAccounted GroupFollowsSubscriptions
CHECK_DEADLOCK FALSE
