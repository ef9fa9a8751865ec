SPECIFICATION FairSpec
CONSTANTS
    Producers = {task, broker}
    Streams = {s1}
    Events = {a, b}
    Capacity = 2
    MaxPushes = 5
    Missed = Missed
INVARIANTS WindowRetained StreamExact NoLostWakeup EndAfterClose
PROPERTY StreamsEnd
