CONSTANTS
    Napi = {n1, n2}
    CardNapi = {n1}
    NapiCaller = {c1}
    MaxNapiId = 3
SPECIFICATION NapiHashSpec
INVARIANTS CallsAllocated
CHECK_DEADLOCK FALSE
