SPECIFICATION Spec
CONSTANTS
    c1 = c1  c2 = c2  c3 = c3  t1 = t1  t2 = t2  x = x
    Calls <- CollidingCalls
    TurnOf <- CollidingTurnOf
    ThreadOf <- CollidingThreadOf
    Threads = {x}
    ApplicationLane = app
    Turns = {t1, t2}
    Mutations = {}
    IdleMutations = {}
    ApplicationOperations = {}
    MaxOperations = 2
    MaxThreadOperations = 2
    Resumes = {r1}
    Shutdowns = {g}
    ForceCallers = {}
    DeadlineCallers = {g}
    Invocations = {"completed", "failed"}
    MaxStoreFailures = 1
    None = None
INVARIANTS TypeOK AcceptanceNeverOrphaned ResumedOutcomeDurable CleanShutdownDurable
PROPERTIES CommittedTerminalStable
