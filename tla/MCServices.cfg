SPECIFICATION MachinesSpec
CONSTANTS
    m1 = m1
    m2 = m2
    p1 = p1
    p2 = p2
    yolo = yolo
    gateway = gateway
    s1 = s1
    s2 = s2
    r1 = r1
    r2 = r2
    run = run
    init = init
    render = render
    monitor = monitor
    voice1 = voice1
    voice2 = voice2
    None = None
    Torn = Torn
    \* GatewayManager
    Managers = {m1, m2}
    Services <- MCServices
    Gateway = gateway
    Commands <- MCCommands
    Pids = {p1, p2}
    MaxTicks = 1
    MaxEdits = 1
    MaxBoots = 1
    BadConfigs = {1}
    \* GatewayRoutes
    Requests = {r1, r2}
    MaxConnections <- MCMaxConnections
    \* Provisioning
    Programs <- MCPrograms
    Role <- MCRole
    \* DetectorService
    Streams = {s1, s2}
    Workers = 1
    MaxFrames = 2
    \* HistogramWindow
    Window = 2
    MaxGap = 1
    MaxDelay = 1
    Durations = {1, 4}
    Bounds = {2}
    Infinity = 5
    MaxRestarts = 1
    MaxTime = 4
    MaxObserved = 3
    \* TextSubdivision
    UnitLimit = 3
    WideTokens = 4
    MaxCharacters = 5
    \* PacedFrames
    Interval = 2
    Duration = 7
    CameraStreams = 2
    MaxFrameTime = 8
INVARIANTS
    MachinesTypeOK
    OneKnownLeader
    ConfChecked
    EachServiceItsKey
    HoldersAgree
    ShutdownIsGraceful
    WindowTellsTruth
    PartsFit
    FramesArePaced
PROPERTIES
    StoppedMeansGone
    SignalsOnlyOwn
SYMMETRY Symmetry
CHECK_DEADLOCK FALSE
