\* Two reconnection tasks and two channels to scan, begun in the mode without
\* delayed tasks or in the one whose delayed tasks open and close the access
\* point, which has fewer calls of the API and lost connections.
CONSTANTS
    Recons = {"r1", "r2"}
    Stops = {"s1"}
    Starts = {"a1"}
    Modes = {"AP_STA_ON"}
    SavedModes = {"AP_ON_STA_OFF", "AP_AUTO_STA_ON"}
    Channels = 2
    Attempts = 1
    Limit = 0
    MaxInputs = 3
    MaxAutoInputs = 1
SPECIFICATION Spec
INVARIANTS
    LockHasOwner
    EndlessHasTask
CHECK_DEADLOCK FALSE
