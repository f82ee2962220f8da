CONSTANTS
    Prios = {1, 3}
    RtBranch = FALSE
    Preemptive = TRUE
    Quiet = FALSE
    Disciplined = FALSE
    MaxFrames = 1
    MaxLoads = 2
    UcTask = {a, b}
    UcCpu = {1}
    UcDepth = 2
    SCALE = 2
    BUCKETS = 2
    MaxRequests = 1
    NUM_TX_DESC = 2
    MAX_SKB_FRAGS = 0
    IndexRange = 4
    DqlLimit = 1
    MaxBacklog = 2
    AfCpu = {1, 2}
    HotCpu = {2}
    Compat = {1}
    Caller = {a, b}
    Self = self
    Enable = enable
    NoRequest = norequest
    MaxAffinity = 2
    BlCpu = {1, 2}
    Home = 1
    netdev_max_backlog = 1
    Quota = 2
    MaxPackets = 3
    MaxMoves = 2
    Tap = {t}
    DevTap = {}
    Proto = {q}
    LowProto = {}
    UpProto = {}
    MaxList = 2
    MaxRounds = 2
    MaxChanges = 1
    NumTx = 2
    NumRx = 1
    XpsCpu = {c1}
    Layout = {1, 2, 3}
    Prog = {p1, p2}
    NativeXdp = TRUE
SPECIFICATION KernelSpec
VIEW KernelView
\* The bounds run out.
CHECK_DEADLOCK FALSE
INVARIANTS KernelTypeOK  Clamps     Programs
