SPECIFICATION Spec
CONSTANTS
    Clients = {c1}
    None = None
    QueueCap = 2
    ClientOps = {"Start","SetInterval"}
    TaskOps = {"Stop"}
    ResourceOps = {}
    InstallerOps = {}
    TaskErrors = {FALSE}
    MaxTimerID = 99
    MaxNow = 1
    MaxItems = 1
    MaxCalls = 2
    MaxActs = 1
INVARIANT StopRetainsWork
