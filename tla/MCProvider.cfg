SPECIFICATION Spec
CONSTANTS
    k1 = k1
    k2 = k2
    Keys <- MCKeys
    MaxReady = 1
    MaxExpiries = 1
SYMMETRY KeySymmetry
INVARIANTS FetchIsOwned ValuesBelong LoadingIsServed
CHECK_DEADLOCK FALSE
