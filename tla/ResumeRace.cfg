SPECIFICATION Spec
CONSTANTS
    c1 = c1  c2 = c2  c3 = c3  t1 = t1  t2 = t2  x = x
    Calls <- SingleCall
    TurnOf <- SingleTurnOf
    ThreadOf <- SingleThreadOf
    Threads = {x}
    ApplicationLane = app
    Turns = {t1}
    Mutations = {}
    IdleMutations = {}
    ApplicationOperations = {}
    MaxOperations = 1
    MaxThreadOperations = 1
    Resumes = {r1}
    Shutdowns = {}
    ForceCallers = {}
    DeadlineCallers = {}
    Invocations = {"completed"}
    MaxStoreFailures = 0
    None = None
INVARIANT IndeterminateIsLost
