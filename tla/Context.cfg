SPECIFICATION HSpec
CONSTANTS
    Thread = {t1, t2}
    Ctx = {c1, c2}
    Page = {p1, p2}
    List = {l1}
    Seed = {s1, s2}
    Null = Null
    Garbage = Garbage
    Gone = Gone
    Unmade = Unmade
    Nothing = Nothing
    HasCompiler = TRUE
    Coherent = FALSE
INVARIANTS
    TypeOK
    MemoryIsOwned
    ProgramDeclared
    FaultsAreProtection
PROPERTIES
    CallsReturn
    ImplementsApi
