SPECIFICATION SwitchSpec
CONSTANTS
    Boards <- MCBoards
    LastCore = 2
    LastVid = 3
INVARIANTS
    SwitchForwards
    FaServed
    VlansReachCpu
    UnitsDistinct

    
