SPECIFICATION Spec
CONSTANTS
    Session = {s1, s2}
    Feeder = feeder
    NoThread = nobody
    Address = {a1, a2}
    NULL = null
    MaxFragments = 2
    MaxNals = 2
SYMMETRY Symmetry
INVARIANTS Inv
PROPERTIES GateSpec
