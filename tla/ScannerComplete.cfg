CONSTANT
    Files <- AllFiles
SPECIFICATION Spec
INVARIANTS
    AllExtracted
    NothingInvented
    EInv
PROPERTY
    SplitReturns
