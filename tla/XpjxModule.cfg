\* HomeScreen may unmount and remount, the bridge may reload.
SPECIFICATION Spec
CONSTANTS
    Messages = {m1, m2, m3}
    LoginMessages = {m1, m2}
    NoMessage = NoMessage
    MaxMounts = 3
    MaxReloads = 2
    ScreenMayUnmount = TRUE
INVARIANTS
    TypeOK
    RegisteredOnce
    ListenerBeforeMessage
    SubscriberCounted
PROPERTIES
    ImplementsOneShotCalls
CHECK_DEADLOCK FALSE
