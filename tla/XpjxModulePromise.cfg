\* A tap and the promise it returns.
SPECIFICATION FairSpec
CONSTANTS
    Messages = {m1, m2, m3}
    LoginMessages = {m1, m2}
    NoMessage = NoMessage
    MaxMounts = 3
    MaxReloads = 1
    ScreenMayUnmount = FALSE
PROPERTIES
    PromisesSettle
CHECK_DEADLOCK FALSE
