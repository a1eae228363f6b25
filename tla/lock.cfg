SPECIFICATION Spec
CONSTANTS
    Procs = {1, 2, 3}
    Outer = Outer
    Inner = Inner
    Roots = {Outer, Inner}
    Overlap <- MCOverlap
    RootsOf <- MCAnyRoot
    None = None
SYMMETRY MCSymmetry
INVARIANTS NotAllYield NoLatecomer OwnerVisible
CHECK_DEADLOCK FALSE
