SPECIFICATION Spec
CONSTANTS
    Programs <- MCPrograms
    RandomSeeds <- MCSeeds
    Syncs <- MCSyncs
    Keys <- MCKeys
    PageMoves <- MCPageMoves
CONSTRAINT NearCode
CHECK_DEADLOCK FALSE
PROPERTIES
    ImplementsCallStack
    PointerCounts
    Footprint
