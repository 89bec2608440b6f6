SPECIFICATION HSpec
CONSTANTS
    Word <- SmallWords
    Imm <- SmallImm
    Or <- SmallOr
    Xor <- SmallXor
    Add <- SmallAdd
    Sub <- SmallSub
    Mul <- SmallMul
    Ror <- SmallRor
    Asr <- SmallAsr
    Lsr <- SmallLsr
    Low <- SmallLow
    Tag <- SmallTag
    Slot <- SmallSlot
    Looping <- SmallLooping
    NumPrograms <- SmallPrograms
    BranchLimit <- SmallLimit
    ProgramLists <- SmallLists
    Draws <- FewDraws
    Uninit = Uninit
    callerRbx = callerRbx
    callerRbp = callerRbp
    callerRsi = callerRsi
    callerRdi = callerRdi
    caller12 = caller12
    caller13 = caller13
    caller14 = caller14
    caller15 = caller15
    Ptr = Ptr
    Caller <- CallerValues
INVARIANTS
    TypeOK
    CodeFits
    ConventionKept
    ResultReturned
PROPERTIES
    Termination
    Implements
