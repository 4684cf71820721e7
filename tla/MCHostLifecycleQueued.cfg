CONSTANTS
    Host = {h1}
    Static = {}
    Active = {"reporter", "settings"}
    QueueBound = 1
    NoFile = NoFile
SPECIFICATION Spec
PROPERTY OnlyLaterReportRestores
