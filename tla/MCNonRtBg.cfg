SPECIFICATION FairSpec

CONSTANTS
    Server = "bg"
    Period = 100
    Util = 50
    NapiFound = TRUE
    Disciplined = TRUE
    MaxFrames = 3
    MaxLoads = 2
    MaxOpens = 2
    MaxSwitches = 3

INVARIANTS
    TypeOK
    Conservation
    
    KnonrtdValid
    SleeperWakeable
    

PROPERTIES
    ChannelSpec
    WokenServes

\* The bounds run out, and an invalid access ends the behaviour.
CHECK_DEADLOCK FALSE
