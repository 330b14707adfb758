SPECIFICATION Spec
CONSTANTS
    k1 = k1
    k2 = k2
    Keys = {k1}
    MaxReady = 1
    MaxExpiries = 1
PROPERTY PopupSettles
CHECK_DEADLOCK FALSE
