CONSTANTS
    Host = {h1}
    Static = {}
    Active = {"reporter", "timer", "settings", "purger"}
    QueueBound = 1
    NoFile = NoFile
SPECIFICATION Spec
INVARIANTS TypeOK PurgeLeavesNoTrace PurgeSaveNeverSuperseded PublicIsLive
    HiddenStaysHidden NoLockCycle
