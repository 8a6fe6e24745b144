SPECIFICATION FairSpec
CONSTANTS
    Hours = 1
    HourLength = 3
    Open <- MCOpenClosed
    Budget = 1
    Broken = {}
    Corrected = {0}
    Clients = {c1, c2}
    Starts = {0, 2}
    MaxChannels = 1
    PollWindow = 2
PROPERTIES
    SessionCatchesUp
CHECK_DEADLOCK FALSE
