SPECIFICATION Spec
CONSTANTS
    CAN_UPLOAD = TRUE
    CAN_DOWNLOAD = TRUE
    IS_MANIFESTATION_TOLERANT = FALSE
    TRANSFER_SIZE = 2
    POLL_TIMEOUT = 45
INVARIANTS
    TypeOK
    DownloadStateIsEarned
PROPERTIES
    IntolerantNeverResumes
CHECK_DEADLOCK FALSE
