SPECIFICATION Spec
CONSTANTS
    LastSector = 7
    SectorBase <- BoardBase
    APPLICATION_REGION_START <- BoardApplication
    MANIFEST_REGION_START <- BoardManifest
    ADDRESSES <- MCAddresses
INVARIANTS
    FoundIsTheTables
    NextIsAdjacent
