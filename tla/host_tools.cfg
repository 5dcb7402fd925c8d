SPECIFICATION Spec
CONSTANTS
    Tools = {"polls", "runs", "coverage", "artifacts", "bump", "gate", "autoneg", "packets", "perf", "words", "access"}
    Programs = {"none", "negotiate", "bringup"}
    MasterDie = "a"
    NegoResets <- MCCfgReset
    TrainFallback = FALSE
    Writes <- MCWrites
    Beats = {2}
    Addrs = {9}
    PktTags = {3}
    MaxPayload = 2
    MaxPackets = 3
    NsPerSec = 3
    Word = 16
    MaxTime = 4
    MaxCalls = 2
    Pushes <- MCPushes
    Manifests <- MCManifests
    Subs <- MCSubs
    Checkouts <- MCCheckouts
    MaxTier = 2
    Makefiles <- MCMakefiles
    Environs <- MCEnvirons
    Uses <- MCUses
    Includes <- MCIncludes
    BenchList <- MCBenchList
    GateEdits = 2
    Agents = {"p", "q"}
    Labels = {"good"}
    Builds <- MCBuilds
    StoreCmds = 3
    StoreRot = 1
    CovSuites = {"s1"}
    CovCommits = {1, 2}
    CovArts = 2
    CovEdits = 1
    RunServers = {"a", "b"}
    RunCount = 2
    RunColumns = 2
    RunVersions = {"v38", "v39"}
    RunKeys = {"k1", "k2"}
    RunFifos = {"f1", "f2"}
    AccBoards = {"z2", "kr260"}
    AccSocs = {"unset", "z2", "pynq-z2", "kr260", "kr260_padded", "kr250"}
    AccBases = {0, 278528, 540672, 671744}
    AccOps = 4
    PollQueue = 2
    PollProcs = 2
    PollCrc = 2
    PollEvents = 6
    WordPlanes <- MCPlanes
    WordEvents = 3
CHECK_DEADLOCK FALSE
INVARIANTS GatesAreBacked StoresAreWhole RolesAgree DriversExact ReadingsAreTrue AccessGuarded
PROPERTY NeverUndone
