SPECIFICATION Spec
CONSTANTS
    Programs <- MCPrograms
    RandomSeeds <- MCSeeds
    Syncs <- MCSyncs
    Keys <- MCKeys
    PageMoves <- MCPageMoves
INVARIANTS
    SumOfHalves
    DifferenceOfHalves
    ShiftOfHalves
    LogicOfHalves
    BranchOnDifference
    LoopCounts
