SPECIFICATION Spec
CONSTANTS
    MaxLen = 3
    Width = 2
    Height = 2
    Scancodes <- MCScancodes
    Letters = {57}
    Packets <- MCPackets
    FirmwareByte = 101
    KeyLimit = 2
    MoveLimit = 1
INVARIANTS TypeOK LineInOrder KeysOnly PacketSound
PROPERTIES KeysKept ReachesPrompt InterruptsServed RegisterDrains
