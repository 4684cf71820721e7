CONSTANTS
    Host = {h1}
    Token = {t1}
    Request = {r1, r2}
    MaxVersion = 1
    Empty = Empty
    Garbled = Garbled
SPECIFICATION Spec
SYMMETRY Symmetry
CONSTRAINT TokensUntilLost
INVARIANTS TypeOK AnsweredSaveIsDurable DeletedHasNoOverride TokenOnceUnlessLost
PROPERTY SessionsStayEnded
