SPECIFICATION FairSpec
CONSTANTS
    c1 = c1  c2 = c2  c3 = c3  t1 = t1  t2 = t2  x = x
    Calls <- QueuedCalls
    TurnOf <- QueuedTurnOf
    ThreadOf <- QueuedThreadOf
    Threads = {x}
    ApplicationLane = app
    Turns = {t1, t2}
    Mutations = {}
    IdleMutations = {}
    ApplicationOperations = {}
    MaxOperations = 2
    MaxThreadOperations = 2
    Resumes = {}
    Shutdowns = {g, f}
    ForceCallers = {f}
    DeadlineCallers = {g}
    Invocations = {"completed", "interrupted"}
    MaxStoreFailures = 1
    None = None
INVARIANTS PublishedTerminalDurable StoreClosedLast
PROPERTIES AcceptedAnswered ShutdownCompletes
