SPECIFICATION Spec
CONSTANTS
    Programs <- MCPrograms
    RandomSeeds <- MCSeeds
    Syncs <- MCSyncs
    Keys <- MCKeys
    PageMoves <- MCPageMoves
PROPERTY ReadResetsJustPress
