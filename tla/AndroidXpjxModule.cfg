\* Two taps and a malformed message, two reloads, and a HomeScreen that the back
\* button may unmount, under fair scheduling.
SPECIFICATION FairSpec
CONSTANTS
    m1 = m1
    m2 = m2
    m3 = m3
    Messages = {m1, m2, m3}
    Shape <- MCShape
    MaxReloads = 2
    MaxMounts = 3
    NoContext = NoContext
    ScreenMayUnmount = TRUE
INVARIANTS
    TypeOK
    LossExplained
    AbroadExplained
PROPERTIES
    ImplementsOneShotCalls
    TapsAlert
CHECK_DEADLOCK FALSE
