SPECIFICATION Spec
CONSTANTS
    Tools = {"sysval", "xfer", "regress", "stress", "bringup", "gates", "chart", "crc", "eye", "modes", "asic", "campaign", "pair", "regs", "mailbox", "observe", "rx"}
    SysOnly = {"T1", "T2", "T2b", "T3", "T10", "T6"}
    SysRetries = 2
    SysSoak = 2
    SysReads = 2
    SysChunk = 1
    SysBeats = {2, 3}
    SysStep = 2
    XferFold = 4
    XferIters = 3
    XferStream = 2
    XferWin = 2
    XferSenders = {"a"}
    RegFold = 4
    RegIters = 1
    RegStream = 1
    RegWin = 1
    RegSenders = {"a", "b"}
    RegMaxRuns = 2
    StressLanes = 1
    StressMaxTests = 2
    BringMaxTries = 2
    BringModes = {"pair", "off"}
    BringNodes = {"w"}
    BringCrcModes = {"on"}
    GateNames = {"sweep", "live", "axinode", "decerr", "mbox", "perf", "regplane", "obs", "anchor", "recover"}
    GateCorners = 2
    GateTrials = 2
    ChartPrograms = {"tool", "gate"}
    CrcModes = {"ctl", "sweep", "stats", "axi", "stream"}
    CrcN = 2
    CrcCandidates = 3
    EyeProgs = {"cli", "live", "deep"}
    EyeBoards = {"master", "slave"}
    EyeTaps = 2
    EyeLanes = 2
    Jobs = {"packet_stress", "doorbell", "ptp"}
    JobDirs = {1}
    JobSizes = {1}
    JobCount = 2
    JobHold = 2
    JobMaxRuns = 2
    AsicRetries = 1
    AsicMaxBursts = 1
    AsicMaxProbes = 1
    CampIters = 2
    CampMaxChunks = 1
    CampFloor = 2
    PairImages = {"pair", "single"}
    PairMaxPolls = 1
    PairMaxFaults = 1
    RegsDefects = {"RELEASE_THRESHOLD", "TIDELINK_VERSION", "RELEASE_ACC", "RELEASE_ACC_BITS", "CTRL_FLUSH", "OBS_AXI_NODES"}
    RegsMaxCredits = 2
    RegsMaxThreshold = 2
    IrqPayloads = {1, 2}
    IrqMaxRuns = 4
    IrqMaxTicks = 2
    RxKinds <- EachAlone
    RxLens = {2}
    RxMaxCredits = 14
    RxThreshold = 5
    RxCount = 4
    RxLate = 1
    RxMaxSessions = 2
CHECK_DEADLOCK FALSE
INVARIANTS GreenIsDelivered GreenIsClean FaultsAreReal LinkProven LinkLeftWhole RecordsAreOwn
PROPERTY StepsAreFresh
