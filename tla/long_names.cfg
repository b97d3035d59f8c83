SPECIFICATION NoResetSpec
CONSTANTS
    EntriesPerBlock = 2
    MapEntriesPerBlock = 4
    BlockSize = 2
    TotalBlocks = 8
    MaxFiles = 3
    Names <- MCNames
    Kept <- MCKept
    FilePaths <- MCFilePaths
    DirPaths <- MCDirPaths
    Sizes = {0, 2, 3}
    Tags = {"x"}
PROPERTY WrittenIsFound
