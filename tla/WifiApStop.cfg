\* The comment at wifi_manager.c:495, over a connect that is made while the
\* station is connected, and a connection that is lost afterwards.
CONSTANTS
    Recons = {"r1"}
    Stops = {"s1", "s2"}
    Starts = {"a1"}
    Modes = {"AP_STA_ON"}
    SavedModes = {"AP_AUTO_STA_ON"}
    Channels = 1
    Attempts = 1
    Limit = 1
    MaxInputs = 0
    MaxAutoInputs = 2
SPECIFICATION Spec
PROPERTIES
    ClosesApConnected
CHECK_DEADLOCK FALSE
