CONSTANTS
    Host = {h1, h2}
    Configured = {h1}
    Item = {g1}
    Scope = {c1}
    Reloaded = {c1}
    MaxGestures = 2
    MaxLogins = 1
    MaxFaults = 0
SPECIFICATION Spec
CHECK_DEADLOCK FALSE
INVARIANT SyncedIsStored
