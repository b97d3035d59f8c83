SPECIFICATION CreateSpec
CONSTANTS
    EntriesPerBlock = 2
    MapEntriesPerBlock = 2
    BlockSize = 2
    TotalBlocks = 9
    MaxFiles = 3
    Names <- MCNames
    Kept <- MCKept
    FilePaths <- MCFilePaths
    DirPaths <- MCDirPaths
    Sizes = {0, 3}
    Tags = {x, y}
SYMMETRY TagSymmetry
INVARIANTS FilesDisjoint
PROPERTIES CreationsAtomic
