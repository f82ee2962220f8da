SPECIFICATION FairSpec

CONSTANTS
    Server = "pl"
    Period = 10
    Util = 20
    NapiFound = TRUE
    Disciplined = FALSE
    MaxFrames = 3
    MaxLoads = 2
    MaxOpens = 2
    MaxSwitches = 2

PROPERTIES
    ChannelSpec
    NonRtServed
    ExitReturns

\* The bounds run out, and an invalid access ends the behaviour.
CHECK_DEADLOCK FALSE
