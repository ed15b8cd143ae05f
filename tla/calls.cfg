SPECIFICATION Spec
CONSTANTS
    Clients = {c1, c2}
    None = None
    QueueCap = 2
    ClientOps = {"Run","Do","Start","Stop","Schedule","ContextTask","Close"}
    TaskOps = {"Schedule","Stop","Run","Do"}
    ResourceOps = {}
    InstallerOps = {}
    TaskErrors = {FALSE}
    MaxTimerID = 99
    MaxNow = 0
    MaxItems = 2
    MaxCalls = 3
    MaxActs = 2
SYMMETRY Symmetry
INVARIANTS NothingLost NoOrphanCall
PROPERTY IsSerialQueue
