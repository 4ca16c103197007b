CONSTANTS
    Tasks = {t1, t2, t3}
    Requests = {q1, q2, q3}
    NoRequest = NoRequest
    gpadc = gpadc
    pin = pin
    Readings <- FewReadings
    Resources <- OnlyGpadc
    Gpadc = gpadc
    Sources = {temperature, pin}
    TempSensor = temperature
    NoSource = NoSource
    NoTask = NoTask
    Nested = FALSE
SPECIFICATION Spec
INVARIANTS MutualExclusion NoLostWakeup EventsMatch GpadcLocked ReadsOwnSource GpadcFreed
PROPERTIES UsesManager TimedReadsReturn
CHECK_DEADLOCK FALSE
