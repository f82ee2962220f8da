SPECIFICATION FairSpec

CONSTANTS
    Server = "bg"
    Period = 100
    Util = 50
    NapiFound = TRUE
    Disciplined = TRUE
    MaxFrames = 2
    MaxLoads = 1
    MaxOpens = 1
    MaxSwitches = 1

PROPERTIES
    NonRtServed

\* The bounds run out, and an invalid access ends the behaviour.
CHECK_DEADLOCK FALSE
