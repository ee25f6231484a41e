SPECIFICATION Spec
CONSTANTS
    X = X
    Y = Y
    A = A
    B = B
    C = C
    Chains = {X, Y}
    Evm = {X}
    Tasks = {A, B, C}
    Home <- HomeOf
    Huge = {}
    Names = {X, Y}
    Solutions <- GoodSolutions
    Garbage = Garbage
    Sessions = {s1, s2}
    NoTask = NoTask
    NoDoc = NoDoc
INVARIANTS
    TypeOK
    RouteIsSolution
    NoOvertaking
PROPERTIES
    SolutionKept
SYMMETRY SessionSymmetry
