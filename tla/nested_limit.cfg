SPECIFICATION Spec
CONSTANTS
    Clients = {c1}
    None = None
    QueueCap = 2
    ClientOps = {"Start","Do"}
    TaskOps = {"ContextTask"}
    ResourceOps = {}
    InstallerOps = {}
    TaskErrors = {FALSE}
    MaxTimerID = 99
    MaxNow = 0
    MaxItems = 1
    MaxCalls = 2
    MaxActs = 1
INVARIANT ExecutionIsLimited
