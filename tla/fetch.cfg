SPECIFICATION FairSpec
CONSTANTS
    Requests = {r1, r2, r3}
    MaxFetchConcurrent = 2
    MayRefuse = TRUE
    MaxGenerations = 2
INVARIANTS TypeOK SlotsAccounted TransportsBounded NothingAfterClose SettledIsFree
PROPERTIES IsSlotPool SlotsComeBack
CHECK_DEADLOCK FALSE
