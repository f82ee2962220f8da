CONSTANTS
    Callers = {a, b}
    Ports = {7411, 7412, 7413}
    Tids = {21, 22}
    Priorities = {1, 5, 100}
    Serialised = TRUE
    Once = TRUE
    MaxEntries = 3
    NetDev = {d1, d2, d3, d4}
    MovableDev = {d1}
    MAX_NEST_DEV = 3
    MaxAdjacent = 3
    Timer = {t1, t2}
    MaxTime = 2
    DsWriter = {w1, w2}
    MaxPayload = 2
    HistorySize = 1
    Channel = {udp}
    Task = {k}
    MaxMessages = 2
    PI = 1
    Swing = 1
    MaxTeleop = 1
    Node = {"talker_lidar", "local", "global", "local_pos", "local_costmap"}
    Depth = 2
    MaxCount = 3
    RDev = {r1, r2}
    Netns = {n1, n2}
    RMovable = {r1}
    Name = {x, y}
    Notifier = {p}
    IfIndex = {1, 2}
    MaxAltNames = 1
    MaxHeld = 1
    Napi = {n1, n2, n3}
    CardNapi = {n1, n2}
    NapiCaller = {c1}
    MaxNapiId = 4
    SpTask = {t1, t2}
    SpRtPrio = 2
    SpNice = {0, 1}
    MaxSpCalls = 3
SPECIFICATION ComponentsSpec
VIEW ComponentsView
\* The bounds run out.
CHECK_DEADLOCK FALSE
INVARIANTS ComponentsTypeOK Identifier Adjacency   Receivers Nodes  Priority
 
