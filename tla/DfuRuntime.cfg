SPECIFICATION LiveSpec
CONSTANTS
    TIMEOUTS = {0, 1, 4, 10, 50}
    ELAPSED = {0, 1, 3}
INVARIANTS
    TypeOK
    WindowIsOpen
PROPERTIES
    RebootsOnlyInWindow
    WindowCloses
