SPECIFICATION HSpec
CONSTANTS
    Word <- SmallWords
    Imm <- SmallImm
    Or <- SmallOr
    Xor <- SmallXor
    Add <- SmallAdd
    Sub <- SmallSub
    Mul <- SmallMul
    Ror <- SmallRor
    Asr <- SmallAsr
    Lsr <- SmallLsr
    Low <- SmallLow
    Tag <- SmallTag
    Slot <- SmallSlot
    Looping <- SmallLooping
    NumPrograms <- SmallPrograms
    BranchLimit <- SmallLimit
    ProgramLists <- SmallLists
    Draws <- FewDraws
    Uninit = Uninit
    And <- SmallAnd
    FlagBit <- FlagMask
INVARIANTS
    ValidModule
    AccessInBounds
    SizesAgree
    ResultReturned
PROPERTIES
    Implements
