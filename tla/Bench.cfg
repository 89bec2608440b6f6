SPECIFICATION Spec
CONSTANTS
    Options <- FewOptions
    MaxInt <- SmallInt
    HashOf <- SmallHash
    MaxHash = 7
    Ctx = {c1, c2, c3}
    Null = Null
    Unmade = Unmade
    Garbage = Garbage
INVARIANTS
    TypeOK
    ContextsPrivate
    ResultsComplete
PROPERTIES
    Termination
