SPECIFICATION FairSpec
CONSTANTS
    Clients = {c1, c2}
    None = None
    QueueCap = 1
    ClientOps = {"Run","Schedule","SetTimeout","Cancel","Close"}
    TaskOps = {"Schedule","SetTimeout"}
    ResourceOps = {}
    InstallerOps = {}
    TaskErrors = {FALSE}
    MaxTimerID = 99
    MaxNow = 1
    MaxItems = 2
    MaxCalls = 2
    MaxActs = 2
PROPERTIES CallsReturn WorkGetsItsTurn
