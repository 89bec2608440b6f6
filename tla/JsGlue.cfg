SPECIFICATION Spec
CONSTANTS
    Ctx = {c1, c2, c3}
    Seed = {s1, s2}
    HasCompiler = TRUE
    Gone = Gone
    Garbage = Garbage
    One = One
    Hole = Hole
    Undefined = Undefined
    Unmade = Unmade
    Nothing = Nothing
INVARIANTS
    HandlesNameInstances
    SlotsReused
PROPERTIES
    ImplementsApi
