SPECIFICATION Spec
CONSTANTS
    Word <- SmallWords
    Imm <- SmallImm
    Or <- First
    Xor <- First
    Add <- First
    Sub <- First
    Mul <- First
    Ror <- First
    Asr <- First
    Lsr <- First
    Low <- Same
    Tag <- First
    Slot <- AnySlot
    Looping <- Never
    NumPrograms = 1
    BranchLimit = 32
    ProgramLists <- None
    Draws <- None
    LowMod <- SmallLowMod
    HighMod <- SmallHighMod
    Mod <- SmallMod
    Num <- SmallNum
    OpcodeWords <- ThreeWords
    SourceWords <- AllRows
    ImmWords <- ThreeImms
    SrcPerms <- src_lookup
    Stale <- AnyStale
    Uninit = Uninit
CONSTRAINT OneKindVaried
INVARIANT DocumentedImms
