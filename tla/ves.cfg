CONSTANTS
    SectorCount = 3
    PerSector = 5
    CatMax = 2
    Bits = {b1}
    GcThreshold <- MostDirtyFirst
    LosesAfterData = FALSE
SPECIFICATION Spec
INVARIANTS
    AssertsHold
    TablesExact
PROPERTIES
    OnlyClearsBits
    ImplementsStore
    CollectionEnds
