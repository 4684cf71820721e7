CONSTANTS
    Host = {h1, h2}
    Configured = {h1}
    Item = {g1}
    Scope = {c1}
    Reloaded = {c1}
    MaxGestures = 3
    MaxLogins = 1
    MaxFaults = 1
SPECIFICATION Spec
CONSTRAINT FewChangesAdrift
CHECK_DEADLOCK FALSE
INVARIANTS TypeOK SavedMeansStored QuietPageAgrees
PROPERTIES AcknowledgedStays ScopeAlone TurnsEnd LoadingEnds
