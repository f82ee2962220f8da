CONSTANTS
    RingSize = 2
    Weight = 2
    MaxRestart = 2
    Budget = 2
    gro_flush_timeout = TRUE
    napi_defer_hard_irqs = 1
SPECIFICATION FairSpec
INVARIANTS TypeOK SingleOwner SoftirqHandled NothingStranded
PROPERTIES GroTimed RxProgress
CHECK_DEADLOCK FALSE
