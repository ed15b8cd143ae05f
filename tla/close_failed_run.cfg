SPECIFICATION FairSpec
CONSTANTS
    Clients = {c1}
    None = None
    QueueCap = 2
    ClientOps = {"Run"}
    TaskOps = {"Close"}
    ResourceOps = {}
    InstallerOps = {}
    TaskErrors = {TRUE}
    MaxTimerID = 99
    MaxNow = 0
    MaxItems = 1
    MaxCalls = 1
    MaxActs = 1
PROPERTY CloseStopsOwner
CHECK_DEADLOCK FALSE
