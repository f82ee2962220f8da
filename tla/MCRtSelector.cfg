SPECIFICATION FairSpec

CONSTANTS
    Prios = {3, 5}
    RtBranch = TRUE
    Preemptive = FALSE
    Quiet = TRUE
    Disciplined = TRUE
    MaxFrames = 3
    MaxLoads = 1

INVARIANTS
    TypeOK
    NoneAbove

PROPERTIES
    
    NoInversion
    

\* The bounds run out, and the use of a freed task ends the behaviour.
CHECK_DEADLOCK FALSE
