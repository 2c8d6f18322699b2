SPECIFICATION Spec
CONSTANTS
    Procs = {p1, p2}
    Nobody = nobody
    TTL = 2
    Grace = 1
    SessionTTL = 3
    MaxTries = 3
    MaxSecret = 3
    MaxFaults = 1
    MaxClock = 3
INVARIANTS NewestSecretAccepted
PROPERTIES RevokedSessionDenied StalenessBounded
SYMMETRY Symmetry
