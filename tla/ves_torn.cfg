CONSTANTS
    SectorCount = 3
    PerSector = 4
    CatMax = 2
    Bits = {b1}
    GcThreshold <- MostDirtyFirst
    LosesAfterData = TRUE
SPECIFICATION Spec
PROPERTIES
    WritesReadBack
