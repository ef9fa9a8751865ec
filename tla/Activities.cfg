SPECIFICATION Spec
CONSTANTS
    g1 = g1
    g2 = g2
    s1 = s1
    s2 = s2
    s3 = s3
    s4 = s4
    s5 = s5
    k1 = k1
    k2 = k2
    None = None
    Owners <- MCOwners
    Shells <- MCShells
    Home <- MCHome
    Commands <- MCCommands
    Kind <- MCKind
    Plans <- MCPlans
    Lease = 1
    ShellLimit = 3
    QueueLimit = 1
INVARIANTS CommandsHonest ShellsAccounted
PROPERTY LeaseKept
