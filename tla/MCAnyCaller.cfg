SPECIFICATION Spec
CONSTANTS
    LastSector = 3
    SectorBase <- MCSectorBase
    APPLICATION_REGION_START = 4
    MANIFEST_REGION_START = 16
    HASH_LENGTH = 4
    FAULTS = {"WRPERR", "OPERR", "SILENT", "KEY"}
    BAD_VECTORS = {}
    BLOCKS = {4, 5}
    IMAGES = {1}
    BUFFER = 4
INVARIANTS
    TypeOK
    ImageFaithful
    BootOnlyFinalised
    AreasApart
    WrittenIsOwed
PROPERTIES
    NoOverlap
    NoStaleFlags
    BootloaderUntouched
    ManifestEarned
    ImplementsStore
