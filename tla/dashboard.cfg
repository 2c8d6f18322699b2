SPECIFICATION Spec
CONSTANTS
    Tabs = {a, b}
    Nobody = nobody
    Reqs = {r1}
    MaxLogins = 2
    MaxSecret = 3
    MaxEvents = 4
INVARIANTS ReuseNeedsLoss LogoutEndsSession
PROPERTIES SignOffHasCause
SYMMETRY Symmetry
CHECK_DEADLOCK FALSE
