CONSTANTS
    RingSize = 1
    Weight = 1
    MaxRestart = 2
    Budget = 2
    gro_flush_timeout = FALSE
    napi_defer_hard_irqs = 0
SPECIFICATION FairSpec
PROPERTIES CloseReturns
CHECK_DEADLOCK FALSE
