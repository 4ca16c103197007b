CONSTANTS
    Tasks = {t1, t2}
    Requests = {q1, q2}
    NoRequest = NoRequest
    d1 = d1
    d2 = d2
    d3 = d3
    b1 = b1
    b2 = b2
    dma = dma
    Resources <- AllResources
    Devices <- SpiDevices
    Buses <- SpiBuses
    BusOf <- SpiBusOf
    DmaOf <- SpiDmaOf
    NoDevice = NoDevice
    Isr = Isr
SPECIFICATION Spec
INVARIANTS TransferOwnsBus NothingLeaks NoCircularWait
PROPERTIES UsesManager
CHECK_DEADLOCK FALSE
SYMMETRY Symmetry
