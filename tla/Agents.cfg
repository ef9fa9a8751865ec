SPECIFICATION Spec
CONSTANTS
    a1 = a1
    spawn = spawn
    m1 = m1
    m2 = m2
    w1 = w1
    k1 = k1
    s1 = s1
    s2 = s2
    Parent = parent
    Agents <- MCAgents
    Runs <- MCRuns
    Plans <- MCPlans
    Spawns = {spawn}
    Sends = {m1, m2}
    Waits = {w1}
    Closes = {k1}
    Steers = {s1, s2}
    Long = {s2}
    Limit = 1
    MaxItems = 2
    MaxBytes = 3
    MaxTurns = 2
    MaxRuns = 3
    None = None
INVARIANTS BufferExact AcceptedInputHeard AgentTerminalOnce AgentRunsAccounted MailboxClaimed
