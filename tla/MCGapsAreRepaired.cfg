SPECIFICATION Spec
CONSTANTS
    Hours = 1
    HourLength = 2
    Open <- MCOpen
    Budget = 1
    Broken = {}
    Corrected = {}
    Clients = {c1, c2}
    Starts = {0, 1}
    MaxChannels = 2
    PollWindow = 2
PROPERTIES
    GapsAreRepaired
CHECK_DEADLOCK FALSE
