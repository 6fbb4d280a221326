CONSTANTS
    Particle = {p1, p2, p3}
    Capacity = 2
    Colours <- MCColours
    Black = "dark"
    Sum <- MCSumApart
    Sizes = {10000}
    Lives = {1}
    Jitters = {1}
    BlackLife = 1
    Methods = {"unspecified", "texture"}
    Hardware <- MCHardware
    Wrong = Wrong
SPECIFICATION Spec
INVARIANTS PoolConserved CheckedIsShown
PROPERTIES UpdateAgesOnce ListsCatchUp
CHECK_DEADLOCK FALSE
