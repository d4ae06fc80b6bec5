SPECIFICATION Spec
CONSTANTS
    Programs <- MCPrograms
    RandomSeeds <- MCSeeds
    Syncs <- MCSyncs
    Keys <- MCKeys
    PageMoves <- MCPageMoves
INVARIANT
    TypeOK
PROPERTIES
    NoSyncLost
    NoPressLost
    OverflowMirrored
    RandomInStep
    PinsReadOne
