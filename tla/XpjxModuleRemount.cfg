\* HomeScreen unmounts and mounts again under one bridge.
SPECIFICATION Spec
CONSTANTS
    Messages = {m1, m2, m3}
    LoginMessages = {m1, m2}
    NoMessage = NoMessage
    MaxMounts = 3
    MaxReloads = 0
    ScreenMayUnmount = TRUE
INVARIANTS
    ListeningMeansObserving
CHECK_DEADLOCK FALSE
