SPECIFICATION Spec
CONSTANTS
    Word <- SmallWords
    Imm <- SmallImm
    Or <- SmallOr
    Xor <- SmallXor
    Add <- SmallAdd
    Sub <- SmallSub
    Mul <- SmallMul
    Ror <- SmallRor
    Asr <- SmallAsr
    Lsr <- SmallLsr
    Low <- SmallLow
    Tag <- SmallTag
    Slot <- SmallSlot
    Looping <- SmallLooping
    NumPrograms <- SmallPrograms
    BranchLimit <- SmallLimit
    ProgramLists <- RowLists
    Draws <- OneDraw
    Uninit = Uninit
    Ptr = Ptr
INVARIANTS
    CodeFits
    ResultReturned
PROPERTIES
    Implements
