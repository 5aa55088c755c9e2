SPECIFICATION PortSpec
CONSTANTS
    Phys = {p1, p2}
    PwrsavePhys = {p1}
    FirstSleep = 3
    StartTime = 1
    SleepTime = 2
    WakeTime = 1
    Group = {g1, g2, g3}
    MaxMulti = 3
    Speeds <- MCSpeeds
    PhyCaps <- MCPhyCaps
    Partners <- MCPartners
    Ops <- MCOps
    MaxMisses = 2
    LostWrites = {}
    NoGroup = nogroup
INVARIANTS
    TimerFollowsUp
    OffOnlyManual
    
    
PROPERTIES
    PortsWake
    SpeedSettles
