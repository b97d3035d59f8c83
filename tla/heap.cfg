SPECIFICATION Spec
CONSTANTS
    HeapStart = 6
    HeapSize = 24
    Align = 2
    HeaderSize = 4
    Word = 64
    Sizes = {1, 4}
    Counts = {2, 17}
    Alignments = {8}
INVARIANTS TypeOK Tiled Granted HeldApart NoFreeNeighbours DoubleFreeFound
