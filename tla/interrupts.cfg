SPECIFICATION Spec
CONSTANTS
    Exceptions <- MCExceptions
    Irqs = {1, 7, 12, 15}
    ExceptionLimit = 1
    RequestLimit = 2
INVARIANTS TypeOK FrameSound ThreadUndisturbed
PROPERTIES EndsOwnService InterruptsServed
CHECK_DEADLOCK FALSE
