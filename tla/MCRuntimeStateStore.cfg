CONSTANTS
    Host = {h1}
    Rule = {r1}
    HostValue = {v1}
    AlertValue = {pending, enqueued}
    Saver = {s1, s2}
    MaxGeneration = 3
    Absent = Absent
    NoFile = NoFile
    Torn = Torn
    Nobody = Nobody
SPECIFICATION Spec
SYMMETRY Symmetry
INVARIANTS TypeOK CurrentGenerationIsFresh PurgedStaysPurged
PROPERTIES CellSpec SavingSpec
