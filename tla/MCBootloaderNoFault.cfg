SPECIFICATION LiveSpec
CONSTANTS
    LastSector = 2
    SectorBase <- MCSectorBase
    APPLICATION_REGION_START = 4
    MANIFEST_REGION_START = 12
    HASH_LENGTH = 4
    FAULTS = {}
    BAD_VECTORS = {1}
    CAN_UPLOAD = TRUE
    CAN_DOWNLOAD = TRUE
    IS_MANIFESTATION_TOLERANT = TRUE
    TRANSFER_SIZE = 6
    POLL_TIMEOUT = 2
    BLOCKS = {2, 5}
    UPLOADS = {6}
    CONTROL_BUFFER = 6
    MaxSession = 2
INVARIANTS
    NoSpuriousFlashError
PROPERTIES
    BlockEnds
    ManifestationEnds
