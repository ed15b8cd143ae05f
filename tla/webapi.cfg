SPECIFICATION Spec
CONSTANTS
    MaxPorts = 4
    MaxPosts = 2
    MaxDispatches = 1
    Signals = {1, 2, 3}
    Listeners = {l1}
    Contents <- MCContents
    Main <- MCMain
    BaseDir <- MCBaseDir
    GlobalFolders <- MCGlobalFolders
    Specifiers <- MCSpecifiers
    Definitions <- MCDefinitions
    Natives <- MCNatives
    Bare <- MCBare
    MaxObjects = 2
    Calls = {c1, c2}
    SyncCalls = {c1}
    FsOps = {"readFile", "writeFile", "mkdir", "unlink", "rename"}
    Root <- MCRoot
    InitialTree <- MCTree
    FsPaths <- MCFsPaths
    MaxLinks = 2
    URLs = {u1}
    FreeParams = {p1}
    ParamNames <- MCParamNames
    ParamValues = {v1, v2}
    Walks = {w1}
    MaxPairs = 3
    MaxQuery = 2
INVARIANTS
    WebTypeOK
    PortsLinked
    MessagesKept
    StartedIsWoken
    PortsReachable
    DependentsAgree
    HeardOnce
    OneEvaluation
    HeldIsCurrent
    RegistryWhole
    Confined
    LinksAuthorized
PROPERTY ParamsBehave
CHECK_DEADLOCK FALSE
