CONSTANTS
    Secret = {s1, s2}
    Text = {t1, t2}
    Default = t2
    Traits <- TraitsDef
    Blank = Blank
    Mask = Mask
    Smudged = Smudged
    Method = {tg, log}
    Node = {h1}
    Group = {"g1", "g2", "g3"}
    Label <- LabelDef
    Grouping <- GroupingDef
    MaxEdits = 2
    MaxAsking = 1
SYMMETRY Symmetry
SPECIFICATION FormsSpec
INVARIANTS FormsTypeOK CleanMeansSaved TestHasSecret ConfirmAvailable
PROPERTIES SecretAsAsked DeliversAsTicked UntouchedKeeps
