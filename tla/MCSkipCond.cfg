SPECIFICATION SkipSpec
CONSTANTS
    Half = 4
    Registers = {1, 2}
INVARIANTS
    TypeOK
    VerdictsRight
PROPERTIES
    PartByNeighbourOnly
