CONSTANTS
    Threshold = 1
    Duration = 2
    Repeat = 1
    Delay = 1
    MaxTime = 5
    Absent = Absent
SPECIFICATION Spec
CONSTRAINT Promising
INVARIANTS TypeOK RecoveryAnnounced
PROPERTIES AlertMeansSilent RepeatRespected UsageMeansHot
