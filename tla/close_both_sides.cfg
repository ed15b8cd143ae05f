SPECIFICATION FairSpec
CONSTANTS
    Clients = {c1, c2}
    None = None
    QueueCap = 2
    ClientOps = {"Do","Start","Close"}
    TaskOps = {"Close"}
    ResourceOps = {}
    InstallerOps = {}
    TaskErrors = {FALSE}
    MaxTimerID = 99
    MaxNow = 0
    MaxItems = 1
    MaxCalls = 3
    MaxActs = 1
PROPERTY OwnerCloseReturns
CHECK_DEADLOCK FALSE
