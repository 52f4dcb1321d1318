\* The iOS app: the navigator decides whether HomeScreen unmounts.
SPECIFICATION AppFairSpec
CONSTANTS
    Messages = {m1, m2, m3}
    LoginMessages = {m1, m2}
    NoMessage = NoMessage
    MaxMounts = 3
    MaxReloads = 2
    ScreenMayUnmount = TRUE
    MaxRoutes = 3
    MaxKey = 4
INVARIANTS
    ListeningMeansObserving
    TapsKept
PROPERTIES
    TapsAlert
    ImplementsMountedBridge
CHECK_DEADLOCK FALSE
