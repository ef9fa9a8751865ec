SPECIFICATION FairSpec
CONSTANTS
    Threads = {x}
    ApplicationLane = app
    Turns = {t1, t2}
    Mutations = {m1}
    IdleMutations = {e1}
    ApplicationOperations = {a1}
    MaxOperations = 3
    MaxThreadOperations = 3
    None = None
INVARIANTS TypeOK LaneExclusive FrontSignalled CapacityAccounting
           HistoryEditAlone ActivityTruthful NoAcceptanceAfterClose
PROPERTIES RevisionTracksActivity ImplementsSerialLanes ReservationSettles ShutdownDrains
