SPECIFICATION Spec
CONSTANTS
    Addr = {a, b, c}
    None = None
    Shapes <- MCShapes
    ReuseKeys = FALSE
    LateLast = FALSE
SYMMETRY Symmetry
INVARIANTS HeapIntact MarkingIsOver GarbageReclaimed
PROPERTIES FinalisersExact CycleAdvances
CHECK_DEADLOCK FALSE
