SPECIFICATION Spec
CONSTANTS
    Rows = 7
    Cols = 4
    Lengths = {0, 2}
    Characters = {a, b}
    MaxLines = 2
    FetchLines = 3
INVARIANTS TypeOK InputVisible
PROPERTIES OutputAppended
SYMMETRY OtherCharacters
