CONSTANTS
    Stats <- StatsDef
    MaxChips = 2
    MaxTries = 1
    MaxAttempts = 2
    MaxPolls = 2
    MaxLost = 1
    MaxMoves = 3
SPECIFICATION PanelSpec
INVARIANT RowsDecorated
PROPERTIES PanelCatchesUp DecorationSettles
