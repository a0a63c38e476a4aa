SPECIFICATION Spec
CONSTANTS
    PANIC_SIZE = 5
    MESSAGE = 2
    GARBAGE = {0, 3, 5, 7}
    MaxPanics = 4
    LOG_SIZE = 7
    OUT_SIZE = 4
    INPUTS <- MCInputs
    REPORT_AFTER = 2
    MANIFEST = 3
INVARIANTS
    LogInOrder
