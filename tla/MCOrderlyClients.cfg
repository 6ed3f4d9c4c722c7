SPECIFICATION OrderlyFairSpec
CONSTANTS
    Session = {s1, s2, s3}
    Feeder = feeder
    NoThread = nobody
    Address = {a1, a2}
    NULL = null
    MaxFragments = 3
    MaxNals = 2
INVARIANTS OrderlyInv NoWildAccess
PROPERTIES ServesTheClient RequestsComplete
