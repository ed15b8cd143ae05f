SPECIFICATION Spec
CONSTANTS
    Clients = {c1}
    None = None
    QueueCap = 2
    ClientOps = {"RegisterResource","Reload"}
    TaskOps = {}
    ResourceOps = {"RegisterResource"}
    InstallerOps = {}
    TaskErrors = {FALSE}
    MaxTimerID = 99
    MaxNow = 0
    MaxItems = 2
    MaxCalls = 2
    MaxActs = 1
INVARIANT RegisteredIsClosed
