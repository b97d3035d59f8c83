SPECIFICATION NoResetSpec
CONSTANTS
    EntriesPerBlock = 4
    MapEntriesPerBlock = 4
    BlockSize = 2
    TotalBlocks = 5
    MaxFiles = 4
    Names <- MCNames
    Kept <- MCKept
    FilePaths <- MCFilePaths
    DirPaths <- MCDirPaths
    Sizes = {1, 3}
    Tags = {"x"}
INVARIANT CurrentPathEnds
