SPECIFICATION Spec
CONSTANTS
    Clients = {c1, c2}
    None = None
    QueueCap = 2
    ClientOps = {"Run","Stop","SetInterval"}
    TaskOps = {"Schedule","jsTimeout","jsInterval","ClearJS","Cancel"}
    ResourceOps = {}
    InstallerOps = {}
    TaskErrors = {FALSE}
    MaxTimerID = 99
    MaxNow = 1
    MaxItems = 2
    MaxCalls = 3
    MaxActs = 2
SYMMETRY Symmetry
INVARIANTS CancelPrevents JSTimersBacked
PROPERTY RunDrains
