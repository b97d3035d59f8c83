SPECIFICATION Spec
CONSTANTS
    EntriesPerBlock = 3
    MapEntriesPerBlock = 4
    BlockSize = 2
    TotalBlocks = 5
    MaxFiles = 2
    Names <- MCNames
    Kept <- MCKept
    FilePaths <- MCFilePaths
    DirPaths <- MCDirPaths
    Sizes = {1, 3}
    Tags = {"x"}
INVARIANT TypeOK
PROPERTIES WritesOnlyFreeBlocks RootPersists DamageContained
