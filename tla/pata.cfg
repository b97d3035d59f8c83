SPECIFICATION Spec
CONSTANTS
    Radix = 4
    TopRadix = 2
    Lbas = {0, 1, 20, 64, 192}
    BadSectors = {20}
    Values = {"empty", "x", "y"}
    Blank = "empty"
INVARIANTS TypeOK 
PROPERTIES CallReturns ImplementsSectorStore
