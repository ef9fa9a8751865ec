SPECIFICATION Spec
CONSTANTS
    p1 = p1
    c1 = c1
    r1 = r1
    None = None
    Permissions <- MCPermissions
    Clarifies <- MCClarifies
    Delegated <- MCPermissions
    Responders <- MCResponders
    Responses <- MCResponses
    QueueCapacity = 2
    MaxStoreFailures = 1
INVARIANTS AnswersDurable AcceptedOnce TerminalLeavesNonePending PendingAnswerable
    CancelSettles EventsMatchRows ReceiptsOwed
