CONSTANT
    Files <- HeaderOnly
SPECIFICATION Spec
PROPERTY
    SplitReturns
