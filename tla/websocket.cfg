SPECIFICATION FairSpec
CONSTANTS
    Sockets = {c1}
    MaxWebSocketConcurrent = 1
    MayRefuse = TRUE
    MaxSends = 2
    MaxMessages = 1
INVARIANTS TypeOK SlotsAccounted NoConnLeft EventOrder NoSpuriousFailure
PROPERTIES ClosedIsTold CloseEnds
CHECK_DEADLOCK FALSE
