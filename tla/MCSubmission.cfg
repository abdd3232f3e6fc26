\* Three POSTs at a time, four in all, two keys and two requests.
CONSTANTS
    Calls = {c1, c2, c3}
    Ids = {i1, i2, i3, i4}
    Keys = {k1, k2}
    NoKey = NoKey
    Bodies = {b1, b2}
SPECIFICATION Spec
SYMMETRY Symmetry
CHECK_DEADLOCK FALSE
INVARIANTS AcceptedMeansStored RepeatsAgree
