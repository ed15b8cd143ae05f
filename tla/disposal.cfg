SPECIFICATION Spec
CONSTANTS
    Clients = {c1, c2}
    None = None
    QueueCap = 2
    ClientOps = {"Run","Schedule","RegisterResource","Reload","Close"}
    TaskOps = {"Reload","RegisterResource","Close","ContextTask"}
    ResourceOps = {"Schedule"}
    InstallerOps = {"Schedule","jsTimeout","RegisterResource"}
    TaskErrors = {FALSE, TRUE}
    MaxTimerID = 99
    MaxNow = 0
    MaxItems = 2
    MaxCalls = 3
    MaxActs = 2
SYMMETRY Symmetry
INVARIANTS TypeOK NoStaleWork CloseIsComplete ResourcesClosed
PROPERTY ClosedForever
CHECK_DEADLOCK FALSE
