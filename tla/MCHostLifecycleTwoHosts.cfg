CONSTANTS
    Host = {h1, h2}
    Static = {}
    Active = {"reporter", "timer"}
    QueueBound = 1
    NoFile = NoFile
SPECIFICATION Spec
SYMMETRY Symmetry
INVARIANT NewHostPersisted
PROPERTY PublicRowKept
