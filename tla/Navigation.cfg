\* Android: a hardware button that may also leave and restart the app.
SPECIFICATION Spec
CONSTANTS
    MaxRoutes = 5
    MaxKey = 7
    HardwareBack = TRUE
INVARIANTS
    TypeOK
    HomeAtBottom
    OneDetailsFromHome
PROPERTIES
    HomeStays
    OlderScreensStay
CHECK_DEADLOCK FALSE
